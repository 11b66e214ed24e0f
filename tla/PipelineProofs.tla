--------------------------- MODULE PipelineProofs ---------------------------
(***************************************************************************)
(* Theorems about Pipeline, for any collectors, configurations, bounds and *)
(* failing file operations: what snapshots show is in the files, statics   *)
(* survive, a shutdown that closed the store has waited for everyone, each *)
(* straggler sample is in one place, and a device key names one chip.      *)
(***************************************************************************)
EXTENDS Pipeline, FiniteSetTheorems, WellFoundedInduction, TLAPS

Kind == {"static", "reading"}
LineRecord == [n : Nat, kind : Kind]
Snapshot == [n : Nat, static : Nat, hist : Seq(Nat)]

\* Where a collector is between a batch and its snapshot, where after the file.
Filed == {"extract", "flush", "append", "snap"}
Storing == {"jsonl"} \cup Filed
Working == {"start", "wait"} \cup Storing

DataType ==
    /\ config \in Configs
    /\ pc \in [Flushers -> Working \cup {"done", "off", "armed"}]
    /\ \A w \in Comps : pc[w] # "armed"
    /\ batch \in [Comps -> [n : Nat, lines : Seq(Kind)]]
    /\ err \in [Comps -> BOOLEAN]
    /\ seq \in [Comps -> Nat]
    /\ jsonl \in [Comps -> Seq(LineRecord)]
    /\ stash \in [Comps -> Nat]
    /\ hist \in [Comps -> Seq(Nat)]
    /\ compFile \in [Comps -> Snapshot \cup {None}]

\* The kinds of the lines of batch n in a file; has it the last one?
KindsIn(f, n) == {f[i].kind : i \in {j \in DOMAIN f : f[j].n = n}}
Has(f, n) == "reading" \in KindsIn(f, n)

\* The lines of the n-th batch of a collector.
BatchLines(n) == IF n = 1 THEN <<"static", "reading">> ELSE <<"reading">>

\* The snapshot of the first batch has had its turn.
SnapshotDue(w) == seq[w] >= 2 \/ (seq[w] = 1 /\ pc[w] \notin Storing)

\* The batch in hand, what the file holds of it and of those before it.
FileSound(w) ==
    /\ pc[w] \in Storing =>
          seq[w] >= 1 /\ batch[w].n = seq[w] /\ batch[w].lines = BatchLines(seq[w])
    /\ \A j \in DOMAIN jsonl[w] :
          /\ jsonl[w][j].n <= seq[w]
          /\ pc[w] = "jsonl" => jsonl[w][j].n < seq[w]
    /\ \A n \in 1..seq[w] : \/ Has(jsonl[w], n) \/ <<w, n>> \in refused
                            \/ pc[w] = "jsonl" /\ n = seq[w]
    /\ pc[w] \in Filed /\ err[w] = TRUE => ~Has(jsonl[w], seq[w])
    /\ pc[w] \in Filed /\ err[w] = FALSE /\ ~Swallows => Has(jsonl[w], seq[w])

\* What the snapshots have of the batches.
SnapshotSound(w) ==
    /\ config.snapshot = TRUE /\ KindsIn(jsonl[w], 1) = Kind /\ SnapshotDue(w) => stash[w] = 1
    /\ compFile[w] # None =>
          /\ config.snapshot = TRUE /\ SnapshotDue(w)
          /\ KindsIn(jsonl[w], 1) = Kind => compFile[w].static = 1
    /\ ~Swallows =>
          /\ \A n \in ToSet(hist[w]) : Has(jsonl[w], n)
          /\ compFile[w] # None =>
                \A n \in {compFile[w].n} \cup ToSet(compFile[w].hist) : Has(jsonl[w], n)

\* The wait group counts the collectors at work; a closed store has none.
GroupSound ==
    /\ wg = Cardinality({w \in Comps : pc[w] \in Working})
    /\ main \in {"closed", "exited"} => \A w \in Comps : pc[w] \notin Working

PipelineInv ==
    /\ DataType /\ GroupSound
    /\ \A w \in Comps : FileSound(w) /\ SnapshotSound(w)

-----------------------------------------------------------------------------
\* What a file holds of a batch after lines have been appended.
LEMMA KindsGrow ==
    ASSUME NEW f \in Seq(LineRecord), NEW g \in Seq(LineRecord), NEW n
    PROVE  KindsIn(f \o g, n) = KindsIn(f, n) \cup KindsIn(g, n)
  <1> DEFINE h == f \o g
  <1>1. /\ h \in Seq(LineRecord) /\ Len(h) = Len(f) + Len(g)
        /\ \A i \in 1..Len(f) : h[i] = f[i]
        /\ \A i \in 1..Len(g) : h[Len(f) + i] = g[i]
        /\ DOMAIN f = 1..Len(f) /\ DOMAIN g = 1..Len(g) /\ DOMAIN h = 1..Len(h)
    OBVIOUS
  <1>2. \A i \in DOMAIN h : i \in DOMAIN f \/ i - Len(f) \in DOMAIN g
    BY <1>1
  <1>3. ASSUME NEW x \in KindsIn(h, n) PROVE x \in KindsIn(f, n) \cup KindsIn(g, n)
    <2>1. PICK i \in DOMAIN h : h[i].n = n /\ x = h[i].kind
      BY <1>3 DEF KindsIn
    <2>2. CASE i \in DOMAIN f
      BY <1>1, <2>1, <2>2 DEF KindsIn
    <2>3. CASE i - Len(f) \in DOMAIN g
      <3>1. h[i] = g[i - Len(f)]
        BY <1>1, <2>3
      <3> QED
        BY <2>1, <2>3, <3>1 DEF KindsIn
    <2> QED
      BY <1>2, <2>1, <2>2, <2>3
  <1>4. ASSUME NEW x \in KindsIn(f, n) PROVE x \in KindsIn(h, n)
    <2>1. PICK i \in DOMAIN f : f[i].n = n /\ x = f[i].kind
      BY <1>4 DEF KindsIn
    <2>2. i \in DOMAIN h /\ h[i] = f[i]
      BY <1>1
    <2> QED
      BY <2>1, <2>2 DEF KindsIn
  <1>5. ASSUME NEW x \in KindsIn(g, n) PROVE x \in KindsIn(h, n)
    <2>1. PICK i \in DOMAIN g : g[i].n = n /\ x = g[i].kind
      BY <1>5 DEF KindsIn
    <2>2. Len(f) + i \in DOMAIN h /\ h[Len(f) + i] = g[i]
      BY <1>1
    <2> QED
      BY <2>1, <2>2 DEF KindsIn
  <1> QED
    BY <1>3, <1>4, <1>5

\* The lines of a batch that are written: the first k.
LEMMA WrittenKinds ==
    ASSUME DataType, NEW w \in Comps, NEW k \in 0..Len(batch[w].lines),
           NEW g, g = [i \in 1..k |-> Line(w, i)]
    PROVE  /\ g \in Seq(LineRecord)
           /\ \A i \in DOMAIN g : g[i].n = batch[w].n
           /\ KindsIn(g, batch[w].n) = {batch[w].lines[i] : i \in 1..k}
           /\ \A n : n # batch[w].n => KindsIn(g, n) = {}
  <1>1. /\ batch[w].n \in Nat /\ batch[w].lines \in Seq(Kind) /\ k \in Nat
        /\ \A i \in 1..k : batch[w].lines[i] \in Kind
    BY DEF DataType
  <1>2. \A i \in 1..k : g[i] \in LineRecord /\ g[i].n = batch[w].n
                        /\ g[i].kind = batch[w].lines[i]
    BY <1>1 DEF Line, LineRecord
  <1>3. g \in Seq(LineRecord) /\ DOMAIN g = 1..k
    BY <1>1, <1>2
  <1>4. KindsIn(g, batch[w].n) = {batch[w].lines[i] : i \in 1..k}
    BY <1>2, <1>3 DEF KindsIn
  <1>5. \A n : n # batch[w].n => KindsIn(g, n) = {}
    BY <1>2, <1>3 DEF KindsIn
  <1> QED
    BY <1>2, <1>3, <1>4, <1>5

\* What the file has of a batch is what it had, and what was written of it.
LEMMA FileGrows ==
    ASSUME DataType, NEW w \in Comps, NEW k \in 0..Len(batch[w].lines),
           jsonl' = [jsonl EXCEPT ![w] = @ \o [i \in 1..k |-> Line(w, i)]]
    PROVE  /\ jsonl' \in [Comps -> Seq(LineRecord)]
           /\ \A v \in Comps \ {w} : jsonl'[v] = jsonl[v]
           /\ \A n : n # batch[w].n => KindsIn(jsonl'[w], n) = KindsIn(jsonl[w], n)
           /\ KindsIn(jsonl'[w], batch[w].n) =
                  KindsIn(jsonl[w], batch[w].n) \cup {batch[w].lines[i] : i \in 1..k}
           /\ \A j \in DOMAIN jsonl'[w] :
                 jsonl'[w][j].n = batch[w].n \/ \E i \in DOMAIN jsonl[w] : jsonl[w][i].n = jsonl'[w][j].n
  <1> DEFINE g == [i \in 1..k |-> Line(w, i)]
  <1>1. /\ g \in Seq(LineRecord)
        /\ \A i \in DOMAIN g : g[i].n = batch[w].n
        /\ KindsIn(g, batch[w].n) = {batch[w].lines[i] : i \in 1..k}
        /\ \A n : n # batch[w].n => KindsIn(g, n) = {}
    BY WrittenKinds
  <1> HIDE DEF g
  <1>2. jsonl[w] \in Seq(LineRecord)
    BY DEF DataType
  <1>3. jsonl' = [jsonl EXCEPT ![w] = jsonl[w] \o g]
    BY DEF g
  <1>4. jsonl'[w] = jsonl[w] \o g /\ jsonl' \in [Comps -> Seq(LineRecord)]
    <2>1. jsonl[w] \o g \in Seq(LineRecord)
      BY <1>1, <1>2
    <2>2. jsonl \in [Comps -> Seq(LineRecord)]
      BY DEF DataType
    <2> DEFINE h == jsonl[w] \o g
    <2> HIDE DEF h
    <2>3. h \in Seq(LineRecord) /\ jsonl' = [jsonl EXCEPT ![w] = h]
      BY <1>3, <2>1 DEF h
    <2>4. jsonl'[w] = h /\ jsonl' \in [Comps -> Seq(LineRecord)]
      BY <2>2, <2>3
    <2> QED
      BY <2>4 DEF h
  <1>5. ASSUME NEW n
        PROVE  KindsIn(jsonl'[w], n) = KindsIn(jsonl[w], n) \cup KindsIn(g, n)
    <2>1. KindsIn(jsonl[w] \o g, n) = KindsIn(jsonl[w], n) \cup KindsIn(g, n)
      BY <1>1, <1>2, KindsGrow
    <2> QED
      BY <1>4, <2>1
  <1>7. \A v \in Comps \ {w} : jsonl'[v] = jsonl[v]
    BY <1>3 DEF DataType
  <1>8. ASSUME NEW j \in DOMAIN jsonl'[w]
        PROVE  jsonl'[w][j].n = batch[w].n \/ \E i \in DOMAIN jsonl[w] : jsonl[w][i].n = jsonl'[w][j].n
    <2>1. CASE j \in DOMAIN jsonl[w]
      BY <1>1, <1>2, <1>4, <2>1
    <2>2. CASE j \notin DOMAIN jsonl[w]
      <3>1. j - Len(jsonl[w]) \in DOMAIN g /\ jsonl'[w][j] = g[j - Len(jsonl[w])]
        BY <1>1, <1>2, <1>4, <2>2
      <3> QED
        BY <1>1, <3>1
    <2> QED
      BY <2>1, <2>2
  <1>9. \A n : n # batch[w].n => KindsIn(jsonl'[w], n) = KindsIn(jsonl[w], n)
    BY <1>1, <1>5
  <1>10. KindsIn(jsonl'[w], batch[w].n) =
             KindsIn(jsonl[w], batch[w].n) \cup {batch[w].lines[i] : i \in 1..k}
    BY <1>1, <1>5
  <1>11. \A j \in DOMAIN jsonl'[w] :
            jsonl'[w][j].n = batch[w].n \/ \E i \in DOMAIN jsonl[w] : jsonl[w][i].n = jsonl'[w][j].n
    BY <1>8
  <1> QED
    BY <1>4, <1>7, <1>9, <1>10, <1>11

\* A trend holds what it held, and the new point.
LEMMA TrendPoints ==
    ASSUME NEW h \in Seq(Nat), NEW n \in Nat
    PROVE  /\ Trend(h, n) \in Seq(Nat)
           /\ \A x \in ToSet(Trend(h, n)) : x \in ToSet(h) \/ x = n
  <1> DEFINE l == Append(h, n)
  <1>1. /\ l \in Seq(Nat) /\ Len(l) = Len(h) + 1 /\ l # <<>>
        /\ \A i \in 1..Len(l) : l[i] = n \/ (i \in 1..Len(h) /\ l[i] = h[i])
    OBVIOUS
  <1>2. Tail(l) \in Seq(Nat) /\ \A i \in 1..Len(Tail(l)) : i + 1 \in 1..Len(l) /\ Tail(l)[i] = l[i + 1]
    BY <1>1
  <1>3. Trend(h, n) = l \/ Trend(h, n) = Tail(l)
    BY DEF Trend
  <1> HIDE DEF l
  <1>4. ASSUME NEW x \in ToSet(l) PROVE x \in ToSet(h) \/ x = n
    <2>1. PICK i \in 1..Len(l) : x = l[i]
      BY <1>1 DEF ToSet
    <2> QED
      BY <1>1, <2>1 DEF ToSet
  <1>5. \A x \in ToSet(Tail(l)) : x \in ToSet(l)
    <2>1. \A i \in 1..Len(l) : l[i] \in ToSet(l)
      BY <1>1 DEF ToSet
    <2>2. ASSUME NEW x \in ToSet(Tail(l)) PROVE x \in ToSet(l)
      <3>1. PICK i \in 1..Len(Tail(l)) : x = Tail(l)[i]
        BY <1>2, <2>2 DEF ToSet
      <3> QED
        BY <1>2, <2>1, <3>1
    <2> QED
      BY <2>2
  <1> QED
    BY <1>1, <1>2, <1>3, <1>4, <1>5

-----------------------------------------------------------------------------
\* What is said of a collector depends on its own part of the state.
LEMMA OthersStay ==
    ASSUME NEW v \in Comps, FileSound(v), SnapshotSound(v),
           config' = config, refused \subseteq refused',
           jsonl'[v] = jsonl[v], pc'[v] = pc[v], seq'[v] = seq[v], batch'[v] = batch[v],
           err'[v] = err[v], stash'[v] = stash[v], hist'[v] = hist[v],
           compFile'[v] = compFile[v]
    PROVE  FileSound(v)' /\ SnapshotSound(v)'
  <1>1. Swallows' <=> Swallows
    BY DEF Swallows
  <1>2. FileSound(v)'
    BY <1>1 DEF FileSound
  <1>3. SnapshotSound(v)'
    BY <1>1 DEF SnapshotSound, SnapshotDue
  <1> QED
    BY <1>2, <1>3

\* A step of one collector.
LEMMA OneCollectorMoves ==
    ASSUME PipelineInv, NEW w \in Comps, DataType', GroupSound',
           FileSound(w)', SnapshotSound(w)',
           config' = config, refused \subseteq refused',
           \A v \in Comps \ {w} :
              /\ jsonl'[v] = jsonl[v] /\ pc'[v] = pc[v] /\ seq'[v] = seq[v]
              /\ batch'[v] = batch[v] /\ err'[v] = err[v] /\ stash'[v] = stash[v]
              /\ hist'[v] = hist[v] /\ compFile'[v] = compFile[v]
    PROVE  PipelineInv'
  <1>1. ASSUME NEW v \in Comps \ {w} PROVE FileSound(v)' /\ SnapshotSound(v)'
    BY OthersStay DEF PipelineInv
  <1> QED
    BY <1>1 DEF PipelineInv

\* The wait group is right as long as nobody starts or stops working.
LEMMA GroupStays ==
    ASSUME DataType, GroupSound, NEW w \in Comps, NEW l \in Working, pc[w] \in Working,
           pc' = [pc EXCEPT ![w] = l], UNCHANGED <<wg, main>>
    PROVE  GroupSound'
  <1>1. \A v \in Comps : pc'[v] \in Working <=> pc[v] \in Working
    BY DEF DataType, Flushers
  <1>2. {v \in Comps : pc'[v] \in Working} = {v \in Comps : pc[v] \in Working}
    BY <1>1
  <1> QED
    BY <1>1, <1>2 DEF GroupSound

\* A collector collects, and has a batch to store.
LEMMA CollectKeeps ==
    ASSUME PipelineInv, NEW w \in Comps, Collect(w)
    PROVE  PipelineInv'
  <1> DEFINE n == seq[w] + 1
             b == [n |-> n, lines |-> IF seq[w] = 0 THEN <<"static", "reading">> ELSE <<"reading">>]
  <1>1. /\ pc[w] \in {"start", "wait"}
        /\ seq' = [seq EXCEPT ![w] = n] /\ batch' = [batch EXCEPT ![w] = b]
        /\ pc' = [pc EXCEPT ![w] = "jsonl"]
        /\ UNCHANGED <<config, wg, main, err, jsonl, stash, hist, compFile, refused>>
    BY DEF Collect, Goto, daemon, snapshots
  <1>2. seq[w] \in Nat /\ n \in Nat
    BY DEF PipelineInv, DataType
  <1>3. b.n = n /\ b.lines = BatchLines(n) /\ b \in [n : Nat, lines : Seq(Kind)]
    <2>1. <<"static", "reading">> \in Seq(Kind) /\ <<"reading">> \in Seq(Kind)
      BY DEF Kind
    <2> QED
      BY <1>2, <2>1 DEF BatchLines
  <1> HIDE DEF b
  <1>4. /\ pc' \in [Flushers -> Working \cup {"done", "off", "armed"}]
        /\ pc'[w] = "jsonl" /\ seq'[w] = n /\ batch'[w] = b
        /\ \A v \in Comps \ {w} : pc'[v] = pc[v] /\ seq'[v] = seq[v] /\ batch'[v] = batch[v]
    BY <1>1 DEF PipelineInv, DataType, Flushers, Working, Storing
  <1>5. DataType'
    <2>1. seq' \in [Comps -> Nat] /\ batch' \in [Comps -> [n : Nat, lines : Seq(Kind)]]
      BY <1>1, <1>2, <1>3 DEF PipelineInv, DataType
    <2>2. \A v \in Comps : pc'[v] # "armed"
      BY <1>4 DEF PipelineInv, DataType
    <2> QED
      BY <1>1, <1>4, <2>1, <2>2 DEF PipelineInv, DataType
  <1>6. GroupSound'
    BY <1>1, GroupStays DEF PipelineInv, Working, Storing
  <1>7. Swallows' <=> Swallows
    BY <1>1 DEF Swallows
  <1>8. FileSound(w)'
    <2>1. \A j \in DOMAIN jsonl[w] : jsonl[w][j].n <= seq[w] /\ jsonl[w][j].n \in Nat
      <3>1. jsonl[w] \in Seq(LineRecord)
        BY DEF PipelineInv, DataType
      <3>2. \A j \in DOMAIN jsonl[w] : jsonl[w][j] \in LineRecord
        BY <3>1
      <3> QED
        BY <3>2 DEF PipelineInv, FileSound, LineRecord
    <2>2. \A i \in 1..seq[w] : Has(jsonl[w], i) \/ <<w, i>> \in refused
      BY <1>1 DEF PipelineInv, FileSound
    <2>3. \A i \in 1..n : i \in 1..seq[w] \/ i = n
      BY <1>2
    <2>4. \A j \in DOMAIN jsonl[w] : jsonl[w][j].n < n
      BY <1>2, <2>1
    <2>5. n >= 1
      BY <1>2
    <2>6. seq'[w] >= 1 /\ batch'[w].n = seq'[w] /\ batch'[w].lines = BatchLines(seq'[w])
      BY <1>3, <1>4, <2>5
    <2>7. \A j \in DOMAIN jsonl'[w] : jsonl'[w][j].n <= seq'[w] /\ jsonl'[w][j].n < seq'[w]
      BY <1>1, <1>4, <1>2, <2>1, <2>4
    <2>8. \A i \in 1..seq'[w] : \/ Has(jsonl'[w], i) \/ <<w, i>> \in refused'
                                \/ pc'[w] = "jsonl" /\ i = seq'[w]
      BY <1>1, <1>4, <2>2, <2>3
    <2>9. pc'[w] \notin Filed
      BY <1>4 DEF Filed
    <2> QED
      BY <2>6, <2>7, <2>8, <2>9 DEF FileSound
  <1>9. SnapshotSound(w)'
    <2>1. SnapshotDue(w)' => SnapshotDue(w)
      BY <1>1, <1>2, <1>4 DEF SnapshotDue, Storing, Filed
    <2>2. SnapshotDue(w) => SnapshotDue(w)'
      BY <1>1, <1>2, <1>4 DEF SnapshotDue, Storing, Filed
    <2> QED
      BY <1>1, <1>7, <2>1, <2>2 DEF PipelineInv, SnapshotSound
  <1> QED
    BY <1>1, <1>4, <1>5, <1>6, <1>8, <1>9, OneCollectorMoves

\* A collector moves on, with nothing stored: it waits, or leaves.
LEMMA MoveKeeps ==
    ASSUME PipelineInv, NEW w \in Comps, NEW l \in Working \cup {"done"},
           pc' = [pc EXCEPT ![w] = l],
           \/ pc[w] \in {"start", "wait"} /\ l \in {"wait", "done"}
           \/ pc[w] \in Filed /\ l \in Filed,
           UNCHANGED <<config, batch, err, seq, jsonl, stash, hist, compFile, refused>>,
           GroupSound'
    PROVE  PipelineInv'
  <1>1. /\ pc' \in [Flushers -> Working \cup {"done", "off", "armed"}]
        /\ pc'[w] = l /\ \A v \in Comps \ {w} : pc'[v] = pc[v]
    BY DEF PipelineInv, DataType, Flushers, Working, Storing
  <1>2. DataType'
    BY <1>1 DEF PipelineInv, DataType, Working, Storing, Filed
  <1>3. Swallows' <=> Swallows
    BY DEF Swallows
  <1>4. /\ pc'[w] \in Storing <=> pc[w] \in Storing
        /\ pc'[w] \in Filed <=> pc[w] \in Filed
        /\ pc'[w] # "jsonl" /\ pc[w] # "jsonl"
    BY <1>1 DEF Storing, Filed
  <1>5. FileSound(w)'
    BY <1>3, <1>4 DEF PipelineInv, FileSound
  <1>6. SnapshotSound(w)'
    BY <1>3, <1>4 DEF PipelineInv, SnapshotSound, SnapshotDue
  <1> QED
    BY <1>1, <1>2, <1>5, <1>6, OneCollectorMoves

-----------------------------------------------------------------------------
\* The last line of a batch is its reading, and no other is.
LEMMA ReadingIsLast ==
    ASSUME NEW n \in Nat, NEW k \in 0..Len(BatchLines(n))
    PROVE  "reading" \in {BatchLines(n)[i] : i \in 1..k} <=> k = Len(BatchLines(n))
  <1>1. CASE n = 1
    <2>1. BatchLines(n) = <<"static", "reading">>
      BY <1>1 DEF BatchLines
    <2>2. Len(BatchLines(n)) = 2 /\ BatchLines(n)[1] = "static" /\ BatchLines(n)[2] = "reading"
      BY <2>1
    <2>3. \A i \in 1..k : i = 1 \/ i = 2
      BY <2>2
    <2> QED
      BY <2>2, <2>3
  <1>2. CASE n # 1
    <2>1. BatchLines(n) = <<"reading">>
      BY <1>2 DEF BatchLines
    <2>2. Len(BatchLines(n)) = 1 /\ BatchLines(n)[1] = "reading"
      BY <2>1
    <2> QED
      BY <2>2
  <1> QED
    BY <1>1, <1>2

\* The JSONL store writes the batch, or the lines before the one that fails.
LEMMA WriteJSONLKeeps ==
    ASSUME PipelineInv, NEW w \in Comps, WriteJSONL(w)
    PROVE  PipelineInv'
  <1>1. /\ pc[w] = "jsonl" /\ pc[w] \in Storing
        /\ UNCHANGED <<config, wg, main, batch, seq, stash, hist, compFile>>
    BY DEF WriteJSONL, daemon, snapshots, Storing
  <1>2. PICK l \in {"extract", "snap"} : pc' = [pc EXCEPT ![w] = l]
    BY DEF WriteJSONL, Goto
  <1>3. PICK k \in 0..Len(batch[w].lines) :
            /\ jsonl' = [jsonl EXCEPT ![w] = @ \o [i \in 1..k |-> Line(w, i)]]
            /\ err' = [err EXCEPT ![w] = ~(k = Len(batch[w].lines)) /\ ~Swallows]
            /\ refused' = IF k = Len(batch[w].lines) THEN refused
                          ELSE refused \cup {<<w, batch[w].n>>}
    BY DEF WriteJSONL
  <1> DEFINE n == seq[w]
             ok == k = Len(batch[w].lines)
  <1>4. /\ n \in Nat /\ n >= 1 /\ batch[w].n = n /\ batch[w].lines = BatchLines(n)
        /\ \A j \in DOMAIN jsonl[w] : jsonl[w][j].n < n
        /\ \A m \in 1..n : Has(jsonl[w], m) \/ <<w, m>> \in refused \/ m = n
    BY <1>1 DEF PipelineInv, DataType, FileSound
  <1>5. /\ jsonl' \in [Comps -> Seq(LineRecord)]
        /\ \A v \in Comps \ {w} : jsonl'[v] = jsonl[v]
        /\ \A m : m # n => KindsIn(jsonl'[w], m) = KindsIn(jsonl[w], m)
        /\ KindsIn(jsonl'[w], n) =
               KindsIn(jsonl[w], n) \cup {batch[w].lines[i] : i \in 1..k}
        /\ \A j \in DOMAIN jsonl'[w] :
              jsonl'[w][j].n = n \/ \E i \in DOMAIN jsonl[w] : jsonl[w][i].n = jsonl'[w][j].n
    <2>1. DataType
      BY DEF PipelineInv
    <2> DEFINE b == batch[w].n
    <2>2. /\ jsonl' \in [Comps -> Seq(LineRecord)]
          /\ \A v \in Comps \ {w} : jsonl'[v] = jsonl[v]
          /\ \A m : m # b => KindsIn(jsonl'[w], m) = KindsIn(jsonl[w], m)
          /\ KindsIn(jsonl'[w], b) =
                 KindsIn(jsonl[w], b) \cup {batch[w].lines[i] : i \in 1..k}
          /\ \A j \in DOMAIN jsonl'[w] :
                jsonl'[w][j].n = b \/ \E i \in DOMAIN jsonl[w] : jsonl[w][i].n = jsonl'[w][j].n
      BY <1>3, <2>1, FileGrows
    <2>3. b = n
      BY <1>4
    <2> HIDE DEF b, n
    <2> QED
      BY <2>2, <2>3
  <1>6. KindsIn(jsonl[w], n) = {}
    BY <1>4 DEF KindsIn
  <1>7. Has(jsonl'[w], n) <=> ok
    <2>1. k \in 0..Len(BatchLines(n)) /\ (ok <=> k = Len(BatchLines(n)))
      BY <1>4
    <2>2. "reading" \in {BatchLines(n)[i] : i \in 1..k} <=> ok
      BY <1>4, <2>1, ReadingIsLast
    <2>3. KindsIn(jsonl'[w], n) = {BatchLines(n)[i] : i \in 1..k}
      BY <1>4, <1>5, <1>6
    <2> QED
      BY <2>2, <2>3 DEF Has
  <1>8. /\ pc' \in [Flushers -> Working \cup {"done", "off", "armed"}]
        /\ pc'[w] = l /\ pc'[w] \in Filed /\ pc'[w] \in Storing /\ pc'[w] # "jsonl"
        /\ \A v \in Comps \ {w} : pc'[v] = pc[v]
    BY <1>2 DEF PipelineInv, DataType, Flushers, Working, Storing, Filed
  <1>9. /\ err' \in [Comps -> BOOLEAN]
        /\ err'[w] = (~ok /\ ~Swallows)
        /\ \A v \in Comps \ {w} : err'[v] = err[v]
    <2> DEFINE e == ~ok /\ ~Swallows
    <2>1. e \in BOOLEAN /\ err' = [err EXCEPT ![w] = e]
      BY <1>3
    <2> HIDE DEF e
    <2>2. err' \in [Comps -> BOOLEAN] /\ err'[w] = e /\ \A v \in Comps \ {w} : err'[v] = err[v]
      BY <2>1 DEF PipelineInv, DataType
    <2> QED
      BY <2>2 DEF e
  <1>10. refused \subseteq refused' /\ (ok \/ <<w, n>> \in refused')
    BY <1>3, <1>4
  <1>11. DataType'
    <2>1. DataType
      BY DEF PipelineInv
    <2> QED
      BY <1>1, <1>5, <1>8, <1>9, <2>1 DEF DataType
  <1>12. GroupSound'
    BY <1>1, <1>2, GroupStays DEF PipelineInv, Working, Storing, Filed
  <1>13. Swallows' <=> Swallows
    BY <1>1 DEF Swallows
  <1> HIDE DEF ok
  <1>14. FileSound(w)'
    <2>1. \A j \in DOMAIN jsonl'[w] : jsonl'[w][j].n <= n
      <3>1. jsonl'[w] \in Seq(LineRecord)
        BY <1>5
      <3>2. \A j \in DOMAIN jsonl'[w] : jsonl'[w][j].n \in Nat
        <4>1. \A j \in DOMAIN jsonl'[w] : jsonl'[w][j] \in LineRecord
          BY <3>1
        <4> QED
          BY <4>1 DEF LineRecord
      <3>3. ASSUME NEW j \in DOMAIN jsonl'[w] PROVE jsonl'[w][j].n <= n
        <4>1. jsonl'[w][j].n = n \/ jsonl'[w][j].n < n
          BY <1>4, <1>5
        <4> QED
          BY <1>4, <3>2, <4>1
      <3> QED
        BY <3>3
    <2>2. \A m \in 1..n : Has(jsonl'[w], m) \/ <<w, m>> \in refused'
      <3>1. ASSUME NEW m \in 1..n PROVE Has(jsonl'[w], m) \/ <<w, m>> \in refused'
        <4>1. CASE m = n
          BY <1>7, <1>10, <4>1
        <4>2. CASE m # n
          BY <1>4, <1>5, <1>10, <4>2 DEF Has
        <4> QED
          BY <4>1, <4>2
      <3> QED
        BY <3>1
    <2>3. err'[w] = TRUE => ~Has(jsonl'[w], n)
      BY <1>7, <1>9
    <2>4. err'[w] = FALSE /\ ~Swallows => Has(jsonl'[w], n)
      BY <1>7, <1>9
    <2> QED
      BY <1>1, <1>4, <1>8, <1>13, <2>1, <2>2, <2>3, <2>4 DEF FileSound
  <1>15. SnapshotSound(w)'
    <2>1. SnapshotDue(w)' <=> n >= 2
      BY <1>1, <1>8 DEF SnapshotDue
    <2>2. SnapshotDue(w) <=> n >= 2
      BY <1>1 DEF SnapshotDue
    <2>3. n >= 2 => KindsIn(jsonl'[w], 1) = KindsIn(jsonl[w], 1)
      BY <1>4, <1>5
    <2>4. \A m : Has(jsonl[w], m) => Has(jsonl'[w], m)
      BY <1>5, <1>6 DEF Has
    <2> QED
      BY <1>1, <1>13, <2>1, <2>2, <2>3, <2>4 DEF PipelineInv, SnapshotSound
  <1> QED
    BY <1>1, <1>5, <1>8, <1>9, <1>10, <1>11, <1>12, <1>14, <1>15, OneCollectorMoves

\* The tap looks at the batch and flushes; the file stays as it is.
LEMMA TapKeeps ==
    ASSUME PipelineInv, NEW w \in Comps, Extract(w) \/ Flush(w)
    PROVE  PipelineInv'
  <1>1. UNCHANGED <<config, wg, main, batch, err, seq, jsonl, stash, hist, compFile, refused>>
    BY DEF Extract, Flush, daemon, snapshots
  <1>2. pc[w] \in Filed /\ pc[w] \in Working
    <2>1. w # "shutdown" /\ pc[w] # "armed"
      BY PipelineAssumption DEF PipelineInv, DataType
    <2> QED
      BY <2>1 DEF Extract, Flush, Filed, Working, Storing
  <1>3. PICK l \in Filed : pc' = [pc EXCEPT ![w] = l]
    <2>1. CASE Extract(w)
      BY <2>1 DEF Extract, Goto, Filed
    <2>2. CASE Flush(w)
      <3>1. w # "shutdown"
        BY PipelineAssumption
      <3>2. CASE pc' = pc
        <4>1. pc' = [pc EXCEPT ![w] = pc[w]]
          BY <3>2 DEF PipelineInv, DataType
        <4> QED
          BY <1>2, <4>1
      <3>3. CASE pc' # pc
        BY <2>2, <3>1, <3>3 DEF Flush, Goto, Filed
      <3> QED
        BY <3>2, <3>3
    <2> QED
      BY <2>1, <2>2
  <1>4. l \in Working
    BY DEF Working, Storing
  <1>5. GroupSound'
    BY <1>1, <1>2, <1>3, <1>4, GroupStays DEF PipelineInv
  <1> QED
    BY <1>1, <1>2, <1>3, <1>4, <1>5, MoveKeeps

\* A collector that has nothing to store waits.
LEMMA NothingCollectedKeeps ==
    ASSUME PipelineInv, NEW w \in Comps, NothingCollected(w)
    PROVE  PipelineInv'
  <1>1. /\ pc[w] = "start" /\ pc' = [pc EXCEPT ![w] = "wait"]
        /\ UNCHANGED <<config, wg, main, batch, err, seq, jsonl, stash, hist, compFile, refused>>
    BY DEF NothingCollected, Goto, daemon, snapshots
  <1>2. {"start", "wait"} \subseteq Working
    BY DEF Working
  <1>3. GroupSound'
    BY <1>1, <1>2, GroupStays DEF PipelineInv
  <1> QED
    BY <1>1, <1>2, <1>3, MoveKeeps

\* A collector that leaves is one less at work, and one less in the group.
LEMMA LeaveKeeps ==
    ASSUME PipelineInv, NEW w \in Comps, Leave(w)
    PROVE  PipelineInv'
  <1> DEFINE A == {v \in Comps : pc[v] \in Working}
             B == {v \in Comps : pc'[v] \in Working}
  <1>1. /\ pc[w] = "wait" /\ pc' = [pc EXCEPT ![w] = "done"] /\ wg' = wg - 1
        /\ UNCHANGED <<config, main, batch, err, seq, jsonl, stash, hist, compFile, refused>>
    BY DEF Leave, Goto, snapshots
  <1>2. "wait" \in Working /\ "done" \notin Working
    BY DEF Working, Storing, Filed
  <1>3. B = A \ {w} /\ w \in A
    BY <1>1, <1>2 DEF PipelineInv, DataType, Flushers
  <1>4. IsFiniteSet(A)
    BY PipelineAssumption, FS_Subset
  <1>5. Cardinality(B) = Cardinality(A) - 1
    BY <1>3, <1>4, FS_RemoveElement
  <1>6. \A v \in Comps : pc'[v] \in Working => pc[v] \in Working
    BY <1>3
  <1>7. GroupSound'
    BY <1>1, <1>5, <1>6 DEF PipelineInv, GroupSound
  <1> QED
    BY <1>1, <1>2, <1>7, MoveKeeps

\* The snapshot of a component takes the batch in, unless the chain below failed.
LEMMA WriteSnapshotKeeps ==
    ASSUME PipelineInv, NEW w \in Comps, WriteSnapshot(w)
    PROVE  PipelineInv'
  <1> DEFINE n == seq[w]
  <1>1. /\ pc[w] = "snap" /\ pc[w] \in Storing /\ pc[w] \in Filed
        /\ pc' = [pc EXCEPT ![w] = "wait"] /\ pc[w] \in Working /\ "wait" \in Working
        /\ "wait" \notin Storing /\ "wait" \notin Filed
        /\ UNCHANGED <<config, wg, main, batch, err, seq, jsonl, refused>>
    BY DEF WriteSnapshot, Goto, daemon, Storing, Filed, Working
  <1>2. /\ pc' \in [Flushers -> Working \cup {"done", "off", "armed"}]
        /\ pc'[w] = "wait" /\ \A v \in Comps \ {w} : pc'[v] = pc[v]
        /\ \A v \in Comps : pc'[v] # "armed"
    BY <1>1 DEF PipelineInv, DataType, Flushers
  <1>3. /\ n \in Nat /\ n >= 1 /\ batch[w].n = n /\ batch[w].lines = BatchLines(n)
        /\ stash[w] \in Nat /\ hist[w] \in Seq(Nat) /\ err[w] \in BOOLEAN
        /\ config.snapshot \in BOOLEAN
    BY <1>1 DEF PipelineInv, DataType, FileSound, Configs
  <1>4. HasStatic(batch[w]) <=> n = 1
    <2>1. CASE n = 1
      <3>1. BatchLines(n)[1] = "static" /\ 1 \in DOMAIN BatchLines(n)
        BY <2>1 DEF BatchLines
      <3> QED
        BY <1>3, <2>1, <3>1 DEF HasStatic
    <2>2. CASE n # 1
      <3>1. \A i \in DOMAIN BatchLines(n) : BatchLines(n)[i] = "reading"
        BY <2>2 DEF BatchLines
      <3> QED
        BY <1>3, <2>2, <3>1 DEF HasStatic
    <2> QED
      BY <2>1, <2>2
  <1>5. (SnapshotDue(w) <=> n >= 2) /\ SnapshotDue(w)'
    BY <1>1, <1>2, <1>3 DEF SnapshotDue
  <1>6. Swallows' <=> Swallows
    BY <1>1 DEF Swallows
  <1>7. GroupSound'
    BY <1>1, GroupStays DEF PipelineInv
  <1>8. FileSound(w)'
    BY <1>1, <1>2, <1>6 DEF PipelineInv, FileSound
  <1>9. CASE StopsHere(w)
    <2>1. UNCHANGED <<stash, hist, compFile>>
      BY <1>9 DEF WriteSnapshot, snapshots
    <2>2. DataType'
      BY <1>1, <1>2, <2>1 DEF PipelineInv, DataType
    <2>3. config.snapshot = TRUE /\ KindsIn(jsonl[w], 1) = Kind => n >= 2
      <3>1. config.snapshot = TRUE => ~Has(jsonl[w], n)
        BY <1>1, <1>3, <1>9 DEF StopsHere, PipelineInv, FileSound
      <3>2. KindsIn(jsonl[w], 1) = Kind => Has(jsonl[w], 1)
        BY DEF Has, Kind
      <3> QED
        BY <1>3, <3>1, <3>2
    <2>4. SnapshotSound(w)'
      BY <1>1, <1>5, <1>6, <2>1, <2>3 DEF PipelineInv, SnapshotSound
    <2> QED
      BY <1>1, <1>2, <1>7, <1>8, <2>1, <2>2, <2>4, OneCollectorMoves
  <1>10. CASE ~StopsHere(w)
    <2> DEFINE s == Stashed(w)
               h == Trend(hist[w], n)
               c == [n |-> n, static |-> s, hist |-> h]
    <2>1. /\ stash' = [stash EXCEPT ![w] = s]
          /\ hist' = [hist EXCEPT ![w] = h]
          /\ \/ compFile' = [compFile EXCEPT ![w] =
                    [n |-> batch[w].n, static |-> stash'[w], hist |-> hist'[w]]]
             \/ compFile' = compFile
      BY <1>3, <1>10 DEF WriteSnapshot
    <2>2. config.snapshot = TRUE /\ err[w] = FALSE
      BY <1>3, <1>10 DEF StopsHere
    <2>3. s \in Nat /\ (KindsIn(jsonl[w], 1) = Kind => s = 1)
      BY <1>3, <1>4, <1>5, <2>2 DEF Stashed, PipelineInv, SnapshotSound
    <2>4. h \in Seq(Nat) /\ \A x \in ToSet(h) : x \in ToSet(hist[w]) \/ x = n
      BY <1>3, TrendPoints
    <2> HIDE DEF s, h
    <2>5. /\ stash' \in [Comps -> Nat] /\ stash'[w] = s
          /\ hist' \in [Comps -> Seq(Nat)] /\ hist'[w] = h
          /\ \A v \in Comps \ {w} : stash'[v] = stash[v] /\ hist'[v] = hist[v]
      BY <2>1, <2>3, <2>4 DEF PipelineInv, DataType
    <2>6. c \in Snapshot /\ c.n = n /\ c.static = s /\ c.hist = h
      BY <1>3, <2>3, <2>4 DEF Snapshot
    <2>7. compFile' = [compFile EXCEPT ![w] = c] \/ compFile' = compFile
      BY <1>3, <2>1, <2>5
    <2> HIDE DEF c
    <2>8. /\ compFile' \in [Comps -> Snapshot \cup {None}]
          /\ \A v \in Comps \ {w} : compFile'[v] = compFile[v]
          /\ compFile'[w] = c \/ compFile'[w] = compFile[w]
      BY <2>6, <2>7 DEF PipelineInv, DataType
    <2>9. DataType'
      BY <1>1, <1>2, <2>5, <2>8 DEF PipelineInv, DataType
    <2>10. ~Swallows => \A x \in ToSet(hist'[w]) : Has(jsonl'[w], x)
      <3>1. ~Swallows => Has(jsonl[w], n)
        BY <1>1, <2>2 DEF PipelineInv, FileSound
      <3> QED
        BY <1>1, <2>4, <2>5, <3>1 DEF PipelineInv, SnapshotSound
    <2>11. ASSUME compFile'[w] # None, ~Swallows
           PROVE  \A x \in {compFile'[w].n} \cup ToSet(compFile'[w].hist) : Has(jsonl'[w], x)
      <3>1. CASE compFile'[w] = compFile[w]
        BY <1>1, <2>11, <3>1 DEF PipelineInv, SnapshotSound
      <3>2. CASE compFile'[w] = c
        <4>1. Has(jsonl'[w], n)
          BY <1>1, <2>2, <2>11 DEF PipelineInv, FileSound
        <4> QED
          BY <2>5, <2>6, <2>10, <2>11, <3>2, <4>1
      <3> QED
        BY <2>8, <3>1, <3>2
    <2>12. ASSUME compFile'[w] # None, KindsIn(jsonl'[w], 1) = Kind
           PROVE  compFile'[w].static = 1
      <3>1. CASE compFile'[w] = compFile[w]
        BY <1>1, <2>12, <3>1 DEF PipelineInv, SnapshotSound
      <3>2. CASE compFile'[w] = c
        BY <1>1, <2>3, <2>6, <2>12, <3>2
      <3> QED
        BY <2>8, <3>1, <3>2
    <2>13. SnapshotSound(w)'
      BY <1>1, <1>5, <1>6, <2>2, <2>3, <2>5, <2>10, <2>11, <2>12 DEF SnapshotSound
    <2> QED
      BY <1>1, <1>2, <1>7, <1>8, <2>5, <2>8, <2>9, <2>13, OneCollectorMoves
  <1> QED
    BY <1>9, <1>10

-----------------------------------------------------------------------------
\* The goroutine of the last flush, and main, leave every collector alone.
LEMMA NobodyMoves ==
    ASSUME PipelineInv, GroupSound',
           UNCHANGED <<config, batch, err, seq, jsonl, stash, hist, compFile, refused>>,
           pc' \in [Flushers -> Working \cup {"done", "off", "armed"}],
           \A w \in Comps : pc'[w] = pc[w]
    PROVE  PipelineInv'
  <1>1. DataType'
    BY DEF PipelineInv, DataType
  <1>2. ASSUME NEW w \in Comps PROVE FileSound(w)' /\ SnapshotSound(w)'
    BY OthersStay DEF PipelineInv
  <1> QED
    BY <1>1, <1>2 DEF PipelineInv

LEMMA LastFlushKeeps ==
    ASSUME PipelineInv, Flush("shutdown")
    PROVE  PipelineInv'
  <1>1. /\ UNCHANGED <<config, wg, main, batch, err, seq, jsonl, stash, hist, compFile, refused>>
        /\ pc' = pc \/ \E l \in {"append", "done"} : pc' = [pc EXCEPT !["shutdown"] = l]
    BY DEF Flush, Goto, daemon, snapshots
  <1>2. /\ pc' \in [Flushers -> Working \cup {"done", "off", "armed"}]
        /\ \A w \in Comps : pc'[w] = pc[w]
    BY <1>1, PipelineAssumption DEF PipelineInv, DataType, Flushers, Working, Storing, Filed
  <1>3. {w \in Comps : pc'[w] \in Working} = {w \in Comps : pc[w] \in Working}
    BY <1>2
  <1>4. GroupSound'
    BY <1>1, <1>2, <1>3 DEF PipelineInv, GroupSound
  <1> QED
    BY <1>1, <1>2, <1>4, NobodyMoves

\* Stop has returned only when the group was empty, and so was the work.
LEMMA MainKeeps ==
    ASSUME PipelineInv, Cancel \/ CloseStore \/ Exit
    PROVE  PipelineInv'
  <1>1. UNCHANGED <<config, wg, pc, batch, err, seq, jsonl, stash, hist, compFile, refused>>
    BY DEF Cancel, CloseStore, Exit, snapshots
  <1>2. pc \in [Flushers -> Working \cup {"done", "off", "armed"}]
    BY DEF PipelineInv, DataType
  <1>3. CASE CloseStore
    <2> DEFINE A == {w \in Comps : pc[w] \in Working}
    <2>1. IsFiniteSet(A)
      BY PipelineAssumption, FS_Subset
    <2>2. Cardinality(A) = 0
      BY <1>3 DEF CloseStore, Stopped, PipelineInv, GroupSound
    <2>3. A = {}
      BY <2>1, <2>2, FS_EmptySet
    <2>4. GroupSound'
      BY <1>1, <2>3 DEF PipelineInv, GroupSound
    <2> QED
      BY <1>1, <1>2, <2>4, NobodyMoves
  <1>4. CASE Cancel \/ Exit
    <2>1. GroupSound'
      BY <1>1, <1>4 DEF Cancel, Exit, PipelineInv, GroupSound
    <2> QED
      BY <1>1, <1>2, <2>1, NobodyMoves
  <1> QED
    BY <1>3, <1>4

LEMMA InvInit == Init => PipelineInv
  <1> SUFFICES ASSUME Init PROVE PipelineInv
    OBVIOUS
  <1>1. config.enabled \subseteq Comps
    BY DEF Init, Configs
  <1>2. /\ pc \in [Flushers -> Working \cup {"done", "off", "armed"}]
        /\ \A w \in Comps : pc[w] = IF w \in config.enabled THEN "start" ELSE "off"
    <2> DEFINE at(w) == CASE w \in config.enabled -> "start"
                          [] w = "shutdown" /\ config.straggler -> "armed"
                          [] OTHER -> "off"
    <2>1. pc = [w \in Flushers |-> at(w)]
      BY DEF Init
    <2>2. \A w \in Comps : w \in Flushers /\ w # "shutdown"
      BY PipelineAssumption DEF Flushers
    <2>3. \A w : at(w) \in Working \cup {"done", "off", "armed"}
      BY DEF Working
    <2>4. \A w \in Comps : at(w) = IF w \in config.enabled THEN "start" ELSE "off"
      BY <2>2
    <2> HIDE DEF at
    <2>5. pc \in [Flushers -> Working \cup {"done", "off", "armed"}]
      BY <2>1, <2>3
    <2>6. \A w \in Comps : pc[w] = at(w)
      BY <2>1, <2>2
    <2> QED
      BY <2>4, <2>5, <2>6
  <1>3. DataType
    <2>1. config \in Configs
      BY DEF Init
    <2>5. ASSUME NEW w \in Comps PROVE pc[w] # "armed"
      <3>1. pc[w] = IF w \in config.enabled THEN "start" ELSE "off"
        BY <1>2
      <3> QED
        BY <3>1
    <2>2. NoBatch \in [n : Nat, lines : Seq(Kind)]
      BY DEF NoBatch
    <2>3. /\ batch \in [Comps -> [n : Nat, lines : Seq(Kind)]]
          /\ jsonl \in [Comps -> Seq(LineRecord)] /\ hist \in [Comps -> Seq(Nat)]
      BY <2>2 DEF Init
    <2>4. /\ err \in [Comps -> BOOLEAN] /\ seq \in [Comps -> Nat] /\ stash \in [Comps -> Nat]
          /\ compFile \in [Comps -> Snapshot \cup {None}]
      BY DEF Init
    <2> QED
      BY <1>2, <2>1, <2>3, <2>4, <2>5 DEF DataType
  <1>4. {w \in Comps : pc[w] \in Working} = config.enabled
    BY <1>1, <1>2 DEF Working, Storing, Filed
  <1>5. GroupSound
    BY <1>4 DEF Init, GroupSound, Started
  <1>6. ASSUME NEW w \in Comps PROVE FileSound(w)
    BY <1>2 DEF Init, FileSound, Storing, Filed
  <1>7. ASSUME NEW w \in Comps PROVE SnapshotSound(w)
    BY <1>2 DEF Init, SnapshotSound, SnapshotDue, ToSet
  <1> QED
    BY <1>3, <1>5, <1>6, <1>7 DEF PipelineInv

LEMMA InvNext == PipelineInv /\ [Next]_vars => PipelineInv'
  <1> SUFFICES ASSUME PipelineInv, [Next]_vars PROVE PipelineInv'
    OBVIOUS
  <1>1. ASSUME NEW w \in Comps, NothingCollected(w) \/ Collect(w) \/ Write(w) \/ Leave(w)
        PROVE  PipelineInv'
    <2>1. CASE NothingCollected(w)
      BY <2>1, NothingCollectedKeeps
    <2>2. CASE Collect(w)
      BY <2>2, CollectKeeps
    <2>3. CASE WriteJSONL(w)
      BY <2>3, WriteJSONLKeeps
    <2>4. CASE Extract(w) \/ Flush(w)
      BY <2>4, TapKeeps
    <2>5. CASE WriteSnapshot(w)
      BY <2>5, WriteSnapshotKeeps
    <2>6. CASE Leave(w)
      BY <2>6, LeaveKeeps
    <2> QED
      BY <1>1, <2>1, <2>2, <2>3, <2>4, <2>5, <2>6 DEF Write
  <1>2. CASE Flush("shutdown")
    BY <1>2, LastFlushKeeps
  <1>3. CASE Cancel \/ CloseStore \/ Exit
    BY <1>3, MainKeeps
  <1>4. CASE UNCHANGED vars
    <2>1. UNCHANGED <<config, wg, main, pc, batch, err, seq, jsonl, stash, hist, compFile, refused>>
      BY <1>4 DEF vars, daemon, snapshots
    <2>2. GroupSound'
      BY <2>1 DEF PipelineInv, GroupSound
    <2>3. pc \in [Flushers -> Working \cup {"done", "off", "armed"}]
      BY DEF PipelineInv, DataType
    <2> QED
      BY <2>1, <2>2, <2>3, NobodyMoves
  <1> QED
    BY <1>1, <1>2, <1>3, <1>4 DEF Next

LEMMA InvHolds == Spec => []PipelineInv
  <1> QED
    BY InvInit, InvNext, PTL DEF Spec

-----------------------------------------------------------------------------
(* The straggler's samples.                                                *)

\* Any set of natural numbers that is not empty has a least element.
LEMMA LeastNatural ==
    ASSUME NEW T \in SUBSET Nat, T # {}
    PROVE  \E x \in T : \A y \in T : x <= y
  <1>1. PICK x \in T : \A y \in T : ~(<<y, x>> \in OpToRel(<, Nat))
    BY NatLessThanWellFounded, WFMin
  <1>2. \A y \in T : ~(y < x)
    BY <1>1 DEF OpToRel
  <1> QED
    BY <1>2

LEMMA UpperOfTwo ==
    ASSUME NEW b \in Nat, NEW x \in Int
    PROVE  \E c \in Nat : b <= c /\ x <= c
  <1>1. CASE x <= b
    <2>1. b <= b
      OBVIOUS
    <2> QED
      BY <1>1, <2>1
  <1>2. CASE ~(x <= b)
    <2>1. x \in Nat /\ b <= x /\ x <= x
      BY <1>2
    <2> QED
      BY <2>1
  <1> QED
    BY <1>1, <1>2

\* A finite set of integers has an upper bound: there is no least n for which
\* some n integers have none.
LEMMA FiniteIsBounded ==
    ASSUME NEW S \in SUBSET Int, IsFiniteSet(S)
    PROVE  \E b \in Nat : \A x \in S : x <= b
  <1> DEFINE Bounded(f, n) == \E b \in Nat : \A i \in 1..n : f[i] <= b
             T == {n \in Nat : \E f \in [1..n -> Int] : ~Bounded(f, n)}
  <1>1. T = {}
    <2> SUFFICES ASSUME T # {} PROVE FALSE
      OBVIOUS
    <2>1. PICK n \in T : \A m \in T : n <= m
      BY LeastNatural
    <2>2. PICK f \in [1..n -> Int] : ~Bounded(f, n)
      OBVIOUS
    <2>3. n # 0
      <3>1. CASE n = 0
        <4>1. \A i \in 1..n : f[i] <= 0
          BY <3>1
        <4> QED
          BY <2>2, <4>1
      <3> QED
        BY <3>1
    <2>4. n - 1 \in Nat /\ n - 1 \notin T
      <3>1. n \in Nat /\ n - 1 \in Nat /\ ~(n <= n - 1)
        BY <2>3
      <3> HIDE DEF T
      <3> QED
        BY <2>1, <3>1
    <2> DEFINE g == [i \in 1..(n - 1) |-> f[i]]
    <2>5. g \in [1..(n - 1) -> Int]
      BY <2>4
    <2>6. PICK b \in Nat : \A i \in 1..(n - 1) : g[i] <= b
      BY <2>4, <2>5
    <2>7. f[n] \in Int /\ \A i \in 1..(n - 1) : f[i] <= b
      BY <2>3, <2>6
    <2>8. PICK c \in Nat : b <= c /\ f[n] <= c
      BY <2>6, <2>7, UpperOfTwo
    <2>9. \A i \in 1..n : f[i] <= c
      <3>1. ASSUME NEW i \in 1..n PROVE f[i] <= c
        <4>1. i \in 1..(n - 1) \/ i = n
          BY <2>4
        <4>2. f[i] \in Int /\ b \in Nat /\ c \in Nat
          BY <2>2, <2>6, <2>8
        <4>3. CASE i = n
          BY <2>8, <4>3
        <4>4. CASE i \in 1..(n - 1)
          <5>1. f[i] <= b /\ b <= c
            BY <2>7, <2>8, <4>4
          <5> DEFINE x == f[i]
          <5> HIDE DEF x, T, g
          <5>2. x <= b /\ b <= c /\ x \in Int
            BY <4>2, <5>1 DEF x
          <5>3. x <= c
            BY <4>2, <5>2
          <5> QED
            BY <5>3 DEF x
        <4> QED
          BY <4>1, <4>3, <4>4
      <3> QED
        BY <3>1
    <2> QED
      BY <2>2, <2>9
  <1>2. Cardinality(S) \in Nat /\ ExistsBijection(1..Cardinality(S), S)
    BY FS_CardinalityType
  <1>3. PICK f : f \in Bijection(1..Cardinality(S), S)
    BY <1>2 DEF ExistsBijection
  <1> DEFINE n == Cardinality(S)
  <1>4. f \in [1..n -> Int] /\ \A x \in S : \E i \in 1..n : f[i] = x
    BY <1>3 DEF Bijection, Injection, Surjection
  <1>5. n \in Nat /\ n \notin T
    BY <1>1, <1>2
  <1> HIDE DEF n
  <1>6. PICK b \in Nat : \A i \in 1..n : f[i] <= b
    BY <1>4, <1>5
  <1> QED
    BY <1>4, <1>6

\* Max of a finite set is one of its elements, and none is greater.
LEMMA MaxIsGreatest ==
    ASSUME NEW S \in SUBSET Int, IsFiniteSet(S), S # {}
    PROVE  Max(S) \in S /\ \A x \in S : x <= Max(S)
  <1>1. PICK b \in Nat : \A x \in S : x <= b
    BY FiniteIsBounded
  <1> DEFINE T == {n \in Nat : \E x \in S : n = b - x}
  <1>2. T # {}
    <2>1. PICK x \in S : TRUE
      OBVIOUS
    <2>2. b - x \in Nat
      BY <1>1
    <2> QED
      BY <2>2
  <1>3. PICK n \in T : \A m \in T : n <= m
    BY <1>2, LeastNatural
  <1>4. PICK x \in S : n = b - x
    OBVIOUS
  <1>5. ASSUME NEW y \in S PROVE x >= y
    <2>1. b - y \in T
      BY <1>1
    <2>2. b - x <= b - y
      BY <1>3, <1>4, <2>1
    <2> QED
      BY <2>2
  <1>6. \E z \in S : \A y \in S : z >= y
    BY <1>5
  <1>7. Max(S) \in S /\ \A y \in S : Max(S) >= y
    BY <1>6 DEF Max
  <1> QED
    BY <1>7

\* Two readings in slots below the stride have different keys.
LEMMA KeysApart ==
    ASSUME NEW stride \in Nat, NEW a \in Int, NEW b \in Int,
           NEW x \in 0..(stride - 1), NEW y \in 0..(stride - 1),
           a * stride + x = b * stride + y
    PROVE  a = b /\ x = y
  <1>1. ASSUME NEW c \in Int, NEW d \in Int, c < d PROVE c * stride + stride <= d * stride
    <2>1. d - c - 1 \in Nat
      BY <1>1
    <2>2. (d - c - 1) * stride >= 0
      BY <2>1
    <2>3. (d - c - 1) * stride = d * stride - c * stride - stride
      OBVIOUS
    <2>4. c * stride \in Int /\ d * stride \in Int
      OBVIOUS
    <2> QED
      BY <2>2, <2>3, <2>4
  <1> DEFINE p == a * stride
             q == b * stride
  <1>2. p \in Int /\ q \in Int /\ p + x = q + y
    OBVIOUS
  <1>3. ~(a < b)
    <2>1. a < b => p + stride <= q
      BY <1>1
    <2> HIDE DEF p, q
    <2> QED
      BY <1>2, <2>1
  <1>4. ~(b < a)
    <2>1. b < a => q + stride <= p
      BY <1>1
    <2> HIDE DEF p, q
    <2> QED
      BY <1>2, <2>1
  <1>5. a = b
    BY <1>3, <1>4
  <1>6. p = q
    BY <1>5
  <1> HIDE DEF p, q
  <1> QED
    BY <1>2, <1>5, <1>6

-----------------------------------------------------------------------------
(* The samples of the straggler: a function from the places they can be in *)
(* to sequences of them.                                                   *)

SampleRecord == [comp : KpiComps, n : Nat, sure : BOOLEAN, keys : SUBSET (Int \X AllReadings)]

Elements(h) == UNION {ToSet(h[p]) : p \in Places}
Ids(h) == {Id(s) : s \in Elements(h)}
LostIds == {Id(s) : s \in lost}

\* No batch has two samples.
Single(h) ==
    \A p, q \in Places : \A i \in DOMAIN h[p], j \in DOMAIN h[q] :
        Id(h[p][i]) = Id(h[q][j]) => p = q /\ i = j

\* The keys every sample has that was made with the stride of the widest card.
SureKeys == {<<DeviceKey(r, Stride(maxChip)), r>> : r \in AllReadings}

TapType ==
    /\ Held \in [Places -> Seq(SampleRecord)]
    /\ pending \in [Flushers -> Seq(SampleRecord)]
    /\ lost \in SUBSET SampleRecord

HandsInv ==
    /\ \A w \in Flushers : pending[w] # <<>> => pc[w] = "append"
    /\ \A w \in Comps : pc[w] = "extract" => Tapped /\ w \in KpiComps

PlacesInv ==
    /\ Single(Held)
    /\ Ids(Held) \cap LostIds = {}
    /\ Ids(Held) \cup LostIds = Extracted

StrideInv ==
    /\ maxChip \in {-1} \cup {r.chip : r \in AllReadings}
    /\ widest \in BOOLEAN /\ (widest => \A r \in AllReadings : r.chip <= maxChip)
    /\ \A s \in Kept \cup lost : s.sure => widest /\ s.keys \subseteq SureKeys

TapInv == TapType /\ HandsInv /\ PlacesInv /\ StrideInv

-----------------------------------------------------------------------------
LEMMA ElementsAt ==
    ASSUME NEW h \in [Places -> Seq(SampleRecord)]
    PROVE  /\ \A p \in Places : \A i \in DOMAIN h[p] : h[p][i] \in Elements(h) /\ Id(h[p][i]) \in Ids(h)
           /\ \A s \in Elements(h) : \E p \in Places : \E i \in DOMAIN h[p] : h[p][i] = s
           /\ Elements(h) \subseteq SampleRecord
  <1>1. \A p \in Places : \A i \in DOMAIN h[p] : h[p][i] \in ToSet(h[p])
    BY DEF ToSet
  <1>2. \A p \in Places : \A s \in ToSet(h[p]) : \E i \in DOMAIN h[p] : h[p][i] = s
    BY DEF ToSet
  <1>3. \A p \in Places : \A i \in DOMAIN h[p] : h[p][i] \in SampleRecord
    OBVIOUS
  <1>4. \A p \in Places : \A i \in DOMAIN h[p] : h[p][i] \in Elements(h)
    BY <1>1 DEF Elements
  <1>5. \A s \in Elements(h) : \E p \in Places : \E i \in DOMAIN h[p] : h[p][i] = s
    BY <1>2 DEF Elements
  <1>6. \A p \in Places : \A i \in DOMAIN h[p] : Id(h[p][i]) \in Ids(h)
    BY <1>4 DEF Ids
  <1>7. Elements(h) \subseteq SampleRecord
    BY <1>3, <1>5
  <1> QED
    BY <1>4, <1>5, <1>6, <1>7

LEMMA ElementsWithin ==
    ASSUME NEW h \in [Places -> Seq(SampleRecord)], NEW T,
           \A p \in Places : \A i \in DOMAIN h[p] : h[p][i] \in T
    PROVE  Elements(h) \subseteq T
  <1> SUFFICES ASSUME NEW s \in Elements(h) PROVE s \in T
    OBVIOUS
  <1>1. PICK p \in Places : \E i \in DOMAIN h[p] : h[p][i] = s
    BY ElementsAt
  <1> QED
    BY <1>1

\* One place gets one more sample, the others have the same as before.
GrowsAt(h, g, at, s) ==
    g[at] = Append(h[at], s) /\ \A p \in Places \ {at} : g[p] = h[p]

\* One more sample in one place.
LEMMA OneMore ==
    ASSUME NEW h \in [Places -> Seq(SampleRecord)], NEW g \in [Places -> Seq(SampleRecord)],
           NEW at \in Places, NEW s \in SampleRecord,
           Single(h), Id(s) \notin Ids(h),
           GrowsAt(h, g, at, s)
    PROVE  Single(g) /\ Elements(g) = Elements(h) \cup {s}
  <1>1. /\ h[at] \in Seq(SampleRecord)
        /\ Len(h[at]) + 1 \in DOMAIN g[at] /\ g[at][Len(h[at]) + 1] = s
        /\ \A i \in DOMAIN g[at] : i \in DOMAIN h[at] \/ i = Len(h[at]) + 1
        /\ \A i \in DOMAIN h[at] : i \in DOMAIN g[at] /\ g[at][i] = h[at][i]
    BY DEF GrowsAt
  <1>2. \A p \in Places : \A i \in DOMAIN g[p] :
           \/ i \in DOMAIN h[p] /\ g[p][i] = h[p][i]
           \/ p = at /\ i = Len(h[at]) + 1 /\ g[p][i] = s
    BY <1>1 DEF GrowsAt
  <1>3. \A p \in Places : \A i \in DOMAIN h[p] : i \in DOMAIN g[p] /\ g[p][i] = h[p][i]
    BY <1>1 DEF GrowsAt
  <1>4. \A p \in Places : \A i \in DOMAIN h[p] : Id(h[p][i]) # Id(s)
    BY ElementsAt
  <1>5. Single(g)
    <2> SUFFICES ASSUME NEW p \in Places, NEW q \in Places,
                        NEW i \in DOMAIN g[p], NEW j \in DOMAIN g[q],
                        Id(g[p][i]) = Id(g[q][j])
                 PROVE  p = q /\ i = j
      BY DEF Single
    <2>1. CASE i \in DOMAIN h[p] /\ j \in DOMAIN h[q]
      BY <1>3, <2>1 DEF Single
    <2>2. CASE i \notin DOMAIN h[p] /\ j \notin DOMAIN h[q]
      BY <1>2, <2>2
    <2>3. CASE i \in DOMAIN h[p] /\ j \notin DOMAIN h[q]
      BY <1>2, <1>3, <1>4, <2>3
    <2>4. CASE i \notin DOMAIN h[p] /\ j \in DOMAIN h[q]
      BY <1>2, <1>3, <1>4, <2>4
    <2> QED
      BY <2>1, <2>2, <2>3, <2>4
  <1>6. Elements(g) \subseteq Elements(h) \cup {s}
    <2>1. \A p \in Places : \A i \in DOMAIN g[p] : g[p][i] \in Elements(h) \cup {s}
      BY <1>2, ElementsAt
    <2> QED
      BY <2>1, ElementsWithin
  <1>7. Elements(h) \cup {s} \subseteq Elements(g)
    <2>1. \A p \in Places : \A i \in DOMAIN h[p] : h[p][i] \in Elements(g)
      BY <1>3, ElementsAt
    <2>2. s \in Elements(g)
      BY <1>1, ElementsAt
    <2> QED
      BY <2>1, <2>2, ElementsWithin
  <1> QED
    BY <1>5, <1>6, <1>7

\* One place is without its first sample.
LEMMA OneLess ==
    ASSUME NEW h \in [Places -> Seq(SampleRecord)], NEW g \in [Places -> Seq(SampleRecord)],
           NEW at \in Places, h[at] # <<>>, Single(h),
           g[at] = Tail(h[at]), \A p \in Places \ {at} : g[p] = h[p]
    PROVE  /\ Single(g) /\ Elements(h) = Elements(g) \cup {Head(h[at])}
           /\ Head(h[at]) \in SampleRecord /\ Id(Head(h[at])) \notin Ids(g)
  <1>1. /\ h[at] \in Seq(SampleRecord)
        /\ 1 \in DOMAIN h[at] /\ h[at][1] = Head(h[at]) /\ Head(h[at]) \in SampleRecord
        /\ \A i \in DOMAIN g[at] : i \in Nat /\ i + 1 \in DOMAIN h[at] /\ g[at][i] = h[at][i + 1] /\ i + 1 # 1
        /\ \A i \in DOMAIN h[at] : i = 1 \/ (i - 1 \in DOMAIN g[at] /\ g[at][i - 1] = h[at][i])
    OBVIOUS
  <1> DEFINE from(p, i) == IF p = at THEN i + 1 ELSE i
  <1>2. \A p \in Places : \A i \in DOMAIN g[p] :
           from(p, i) \in DOMAIN h[p] /\ g[p][i] = h[p][from(p, i)]
    BY <1>1
  <1>3. \A p \in Places : \A i, j \in DOMAIN g[p] : from(p, i) = from(p, j) => i = j
    <2>1. \A i, j \in DOMAIN g[at] : i + 1 = j + 1 => i = j
      BY <1>1
    <2> QED
      BY <2>1
  <1>4. \A i \in DOMAIN g[at] : from(at, i) # 1
    BY <1>1
  <1> HIDE DEF from
  <1>5. Single(g)
    <2> SUFFICES ASSUME NEW p \in Places, NEW q \in Places,
                        NEW i \in DOMAIN g[p], NEW j \in DOMAIN g[q],
                        Id(g[p][i]) = Id(g[q][j])
                 PROVE  p = q /\ i = j
      BY DEF Single
    <2>1. p = q /\ from(p, i) = from(q, j)
      BY <1>2 DEF Single
    <2> QED
      BY <1>3, <2>1
  <1>6. \A p \in Places : \A i \in DOMAIN g[p] : Id(g[p][i]) # Id(h[at][1])
    <2> SUFFICES ASSUME NEW p \in Places, NEW i \in DOMAIN g[p], Id(g[p][i]) = Id(h[at][1])
                 PROVE  FALSE
      OBVIOUS
    <2>1. p = at /\ from(p, i) = 1
      BY <1>1, <1>2 DEF Single
    <2> QED
      BY <1>4, <2>1
  <1>7. Elements(g) \cup {Head(h[at])} \subseteq Elements(h)
    <2>1. \A p \in Places : \A i \in DOMAIN g[p] : g[p][i] \in Elements(h)
      <3>1. \A p \in Places : \A i \in DOMAIN h[p] : h[p][i] \in Elements(h)
        BY ElementsAt
      <3> QED
        BY <1>2, <3>1
    <2>2. Head(h[at]) \in Elements(h)
      <3>1. \A i \in DOMAIN h[at] : h[at][i] \in Elements(h)
        BY ElementsAt
      <3> QED
        BY <1>1, <3>1
    <2> QED
      BY <2>1, <2>2, ElementsWithin
  <1>8. Elements(h) \subseteq Elements(g) \cup {Head(h[at])}
    <2> SUFFICES ASSUME NEW p \in Places, NEW i \in DOMAIN h[p]
                 PROVE  h[p][i] \in Elements(g) \cup {Head(h[at])}
      BY ElementsWithin
    <2>1. CASE p = at
      BY <1>1, <2>1, ElementsAt
    <2>2. CASE p # at
      BY <2>2, ElementsAt
    <2> QED
      BY <2>1, <2>2
  <1>9. Id(Head(h[at])) \notin Ids(g)
    BY <1>1, <1>6, ElementsAt DEF Ids
  <1> QED
    BY <1>1, <1>5, <1>7, <1>8, <1>9

\* All that one place has goes to an empty one.
LEMMA AllMove ==
    ASSUME NEW h \in [Places -> Seq(SampleRecord)], NEW g \in [Places -> Seq(SampleRecord)],
           NEW at \in Places, NEW to \in Places, at # to, Single(h),
           h[to] = <<>>, g[to] = h[at], g[at] = <<>>,
           \A p \in Places \ {at, to} : g[p] = h[p]
    PROVE  Single(g) /\ Elements(g) = Elements(h)
  <1> DEFINE from(p) == IF p = to THEN at ELSE p
  <1>1. DOMAIN g[at] = {} /\ DOMAIN h[to] = {}
    OBVIOUS
  <1>2. \A p \in Places \ {at} : from(p) \in Places /\ from(p) # to /\ g[p] = h[from(p)]
    OBVIOUS
  <1>3. \A p, q \in Places \ {at} : from(p) = from(q) => p = q
    OBVIOUS
  <1>4. \A p \in Places \ {to} : \E q \in Places : g[q] = h[p]
    OBVIOUS
  <1> HIDE DEF from
  <1>5. Single(g)
    <2> SUFFICES ASSUME NEW p \in Places, NEW q \in Places,
                        NEW i \in DOMAIN g[p], NEW j \in DOMAIN g[q],
                        Id(g[p][i]) = Id(g[q][j])
                 PROVE  p = q /\ i = j
      BY DEF Single
    <2>1. p # at /\ q # at
      BY <1>1
    <2>2. from(p) = from(q) /\ i = j
      BY <1>2, <2>1 DEF Single
    <2> QED
      BY <1>3, <2>1, <2>2
  <1>6. Elements(g) \subseteq Elements(h)
    <2> SUFFICES ASSUME NEW p \in Places, NEW i \in DOMAIN g[p] PROVE g[p][i] \in Elements(h)
      BY ElementsWithin
    <2>1. p # at
      BY <1>1
    <2> QED
      BY <1>2, <2>1, ElementsAt
  <1>7. Elements(h) \subseteq Elements(g)
    <2> SUFFICES ASSUME NEW p \in Places, NEW i \in DOMAIN h[p] PROVE h[p][i] \in Elements(g)
      BY ElementsWithin
    <2>1. p # to
      BY <1>1
    <2> QED
      BY <1>4, <2>1, ElementsAt
  <1> QED
    BY <1>5, <1>6, <1>7
-----------------------------------------------------------------------------
LEMMA HeldIs ==
    /\ Held["buffer"] = buffer /\ Held["kpi"] = kpi
    /\ \A w \in Flushers : Held[w] = pending[w]
    /\ TapType => buffer \in Seq(SampleRecord) /\ kpi \in Seq(SampleRecord)
    /\ buffer \in Seq(SampleRecord) /\ kpi \in Seq(SampleRecord)
           /\ pending \in [Flushers -> Seq(SampleRecord)] => Held \in [Places -> Seq(SampleRecord)]
  <1>1. /\ "buffer" \in Places /\ "kpi" \in Places /\ Flushers \subseteq Places
        /\ "buffer" \notin Flushers /\ "kpi" \notin Flushers
        /\ Places = Flushers \cup {"buffer", "kpi"}
    BY PipelineAssumption DEF Places, Flushers
  <1> DEFINE of(p) == CASE p = "buffer" -> buffer [] p = "kpi" -> kpi [] OTHER -> pending[p]
  <1>2. Held = [p \in Places |-> of(p)]
    BY DEF Held
  <1>3. of("buffer") = buffer /\ of("kpi") = kpi /\ \A w \in Flushers : of(w) = pending[w]
    BY <1>1
  <1> HIDE DEF of
  <1>4. Held["buffer"] = buffer /\ Held["kpi"] = kpi /\ \A w \in Flushers : Held[w] = pending[w]
    BY <1>1, <1>2, <1>3
  <1>5. TapType => buffer \in Seq(SampleRecord) /\ kpi \in Seq(SampleRecord)
    BY <1>1, <1>4 DEF TapType
  <1>6. ASSUME buffer \in Seq(SampleRecord), kpi \in Seq(SampleRecord),
               pending \in [Flushers -> Seq(SampleRecord)]
        PROVE  Held \in [Places -> Seq(SampleRecord)]
    <2>1. \A p \in Places : of(p) \in Seq(SampleRecord)
      BY <1>1, <1>3, <1>6
    <2> QED
      BY <1>2, <2>1
  <1> QED
    BY <1>4, <1>5, <1>6

LEMMA HeldIsNext ==
    /\ Held'["buffer"] = buffer' /\ Held'["kpi"] = kpi'
    /\ \A w \in Flushers : Held'[w] = pending'[w]
    /\ buffer' \in Seq(SampleRecord) /\ kpi' \in Seq(SampleRecord)
           /\ pending' \in [Flushers -> Seq(SampleRecord)] => Held' \in [Places -> Seq(SampleRecord)]
  <1>1. /\ "buffer" \in Places /\ "kpi" \in Places /\ Flushers \subseteq Places
        /\ "buffer" \notin Flushers /\ "kpi" \notin Flushers
        /\ Places = Flushers \cup {"buffer", "kpi"}
    BY PipelineAssumption DEF Places, Flushers
  <1> DEFINE of(p) == CASE p = "buffer" -> buffer' [] p = "kpi" -> kpi' [] OTHER -> pending'[p]
  <1>2. Held' = [p \in Places |-> of(p)]
    BY DEF Held
  <1>3. of("buffer") = buffer' /\ of("kpi") = kpi' /\ \A w \in Flushers : of(w) = pending'[w]
    BY <1>1
  <1> HIDE DEF of
  <1>4. Held'["buffer"] = buffer' /\ Held'["kpi"] = kpi' /\ \A w \in Flushers : Held'[w] = pending'[w]
    BY <1>1, <1>2, <1>3
  <1>6. ASSUME buffer' \in Seq(SampleRecord), kpi' \in Seq(SampleRecord),
               pending' \in [Flushers -> Seq(SampleRecord)]
        PROVE  Held' \in [Places -> Seq(SampleRecord)]
    <2>1. \A p \in Places : of(p) \in Seq(SampleRecord)
      BY <1>1, <1>3, <1>6
    <2> QED
      BY <1>2, <2>1
  <1> QED
    BY <1>4, <1>6

\* The batches the tap has been through, element by element.
LEMMA ExtractedIs ==
    \A x : x \in Extracted <=> Tapped /\ \E w \in KpiComps : \E n \in 1..Through(w) : x = <<w, n>>
  BY DEF Extracted

LEMMA ExtractedStays ==
    ASSUME Tapped' <=> Tapped, \A w \in KpiComps : Tapped => Through(w)' = Through(w)
    PROVE  Extracted' = Extracted
  <1>1. CASE ~Tapped
    BY <1>1 DEF Extracted
  <1>2. CASE Tapped
    <2>1. \A w \in KpiComps : {<<w, n>> : n \in 1..Through(w)'} = {<<w, n>> : n \in 1..Through(w)}
      BY <1>2
    <2>2. Extracted = UNION {{<<w, n>> : n \in 1..Through(w)} : w \in KpiComps}
      BY <1>2 DEF Extracted
    <2>3. Extracted' = UNION {{<<w, n>> : n \in 1..Through(w)'} : w \in KpiComps}
      BY <1>2 DEF Extracted
    <2> QED
      BY <2>1, <2>2, <2>3
  <1> QED
    BY <1>1, <1>2

\* A step that leaves the samples where they are.
LEMMA SamplesStay ==
    ASSUME TapInv, UNCHANGED <<buffer, pending, kpi, lost, maxChip, widest>>,
           HandsInv', Extracted' = Extracted
    PROVE  TapInv'
  <1>1. Held' = Held
    BY DEF Held
  <1>2. TapType'
    BY <1>1 DEF TapInv, TapType
  <1>3. Elements(Held)' = Elements(Held) /\ (Single(Held)' <=> Single(Held))
    BY <1>1 DEF Elements, Single
  <1>4. Ids(Held)' = Ids(Held) /\ LostIds' = LostIds
    BY <1>3 DEF Ids, LostIds
  <1>5. PlacesInv'
    BY <1>3, <1>4 DEF TapInv, PlacesInv
  <1>6. Kept' = Kept /\ SureKeys' = SureKeys
    BY <1>1 DEF Kept, SureKeys
  <1>7. StrideInv'
    BY <1>6 DEF TapInv, StrideInv
  <1> QED
    BY <1>2, <1>5, <1>7 DEF TapInv

-----------------------------------------------------------------------------
\* The stride after a batch: what sure samples have for keys stays the same.
LEMMA StrideGrows ==
    ASSUME TapInv, NEW readings \in SUBSET AllReadings,
           maxChip' = Widest(maxChip, readings),
           widest' = (widest \/ \E r \in readings : \A q \in AllReadings : q.chip <= r.chip)
    PROVE  /\ maxChip' \in {-1} \cup {r.chip : r \in AllReadings}
           /\ widest' \in BOOLEAN
           /\ widest' => \A r \in AllReadings : r.chip <= maxChip'
           /\ widest => widest' /\ SureKeys' = SureKeys
           /\ Keyed(maxChip, readings) \subseteq SureKeys'
           /\ Keyed(maxChip, readings) \subseteq Int \X AllReadings
  <1> DEFINE S == {maxChip} \cup {c.chip : c \in readings}
  <1>1. \A c \in AllReadings : c \in Readings /\ c.chip \in Nat \cup {-1}
    BY PipelineAssumption DEF AllReadings, Readings, NoLabel
  <1>2. maxChip \in Int /\ maxChip \in {-1} \cup {c.chip : c \in AllReadings}
        /\ widest \in BOOLEAN /\ (widest => \A c \in AllReadings : c.chip <= maxChip)
    BY <1>1 DEF TapInv, StrideInv
  <1>3. S \in SUBSET Int /\ S # {}
    BY <1>1, <1>2
  <1>4. IsFiniteSet(S)
    <2>1. IsFiniteSet(readings)
      BY PipelineAssumption, FS_Subset DEF AllReadings
    <2>2. IsFiniteSet({c.chip : c \in readings})
      <3> DEFINE f(c) == c.chip
                 T == {f(c) : c \in readings}
      <3>1. [c \in readings |-> f(c)] \in Surjection(readings, T)
        BY DEF Surjection
      <3> QED
        BY <2>1, <3>1, FS_Surjection
    <2> QED
      BY <2>2, FS_AddElement
  <1>5. maxChip' = Max(S)
    BY DEF Widest
  <1>6. maxChip' \in S /\ \A x \in S : x <= maxChip'
    BY <1>3, <1>4, <1>5, MaxIsGreatest
  <1>7. maxChip <= maxChip' /\ \A c \in readings : c.chip <= maxChip'
    BY <1>6
  <1>8. maxChip' = maxChip \/ \E c \in readings : maxChip' = c.chip
    BY <1>6
  <1>9. maxChip' \in {-1} \cup {c.chip : c \in AllReadings} /\ maxChip' \in Int
    BY <1>1, <1>2, <1>8
  <1> HIDE DEF S
  <1>10. widest => maxChip' = maxChip
    <2>1. CASE \E c \in readings : maxChip' = c.chip
      BY <1>2, <1>7, <1>9, <2>1
    <2> QED
      BY <1>8, <2>1
  <1>11. widest' => \A d \in AllReadings : d.chip <= maxChip'
    <2>1. CASE widest
      BY <1>2, <1>10, <2>1
    <2>2. ASSUME NEW c \in readings, \A d \in AllReadings : d.chip <= c.chip, NEW d \in AllReadings
          PROVE  d.chip <= maxChip'
      <3>1. d.chip <= c.chip /\ c.chip <= maxChip' /\ d.chip \in Int /\ c.chip \in Int
        BY <1>1, <1>7, <2>2
      <3> DEFINE x == d.chip
                 y == c.chip
      <3> HIDE DEF x, y
      <3>2. x <= y /\ y <= maxChip' /\ x \in Int /\ y \in Int
        BY <3>1 DEF x, y
      <3>3. x <= maxChip'
        BY <1>9, <3>2
      <3> QED
        BY <3>3 DEF x
    <2> QED
      BY <2>1, <2>2
  <1>12. Keyed(maxChip, readings) \subseteq SureKeys'
    BY DEF Keyed, SureKeys
  <1>13. \A c \in AllReadings : DeviceKey(c, Stride(maxChip')) \in Int
    BY <1>1, <1>9 DEF DeviceKey, Stride, Readings, NoLabel
  <1>14. Keyed(maxChip, readings) \subseteq Int \X AllReadings
    <2>1. \A c \in readings : <<DeviceKey(c, Stride(maxChip')), c>> \in Int \X AllReadings
      BY <1>13
    <2> QED
      BY <2>1 DEF Keyed
  <1>15. widest => widest' /\ SureKeys' = SureKeys
    BY <1>10 DEF SureKeys
  <1>16. widest' \in BOOLEAN
    BY <1>2
  <1> QED
    BY <1>9, <1>11, <1>12, <1>14, <1>15, <1>16

\* A collector's batch gives one more sample.
LEMMA ExtractTaps ==
    ASSUME PipelineInv, TapInv, NEW w \in Comps, Extract(w)
    PROVE  TapInv'
  <1>1. /\ pc[w] = "extract" /\ Tapped /\ w \in KpiComps
        /\ UNCHANGED <<config, main, wg, batch, seq, pending, kpi, lost>>
    BY DEF Extract, daemon, TapInv, HandsInv
  <1>2. PICK readings \in SUBSET AllReadings : Sample(w, readings)
    BY DEF Extract, AllReadings
  <1> DEFINE s == [comp |-> w, n |-> batch[w].n, sure |-> widest', keys |-> Keyed(maxChip, readings)]
  <1>3. /\ maxChip' = Widest(maxChip, readings) /\ buffer' = Append(buffer, s)
        /\ widest' = (widest \/ \E r \in readings : \A q \in AllReadings : q.chip <= r.chip)
    BY <1>2 DEF Sample
  <1>4. /\ maxChip' \in {-1} \cup {r.chip : r \in AllReadings}
        /\ widest' \in BOOLEAN
        /\ widest' => \A r \in AllReadings : r.chip <= maxChip'
        /\ widest => widest' /\ SureKeys' = SureKeys
        /\ Keyed(maxChip, readings) \subseteq SureKeys'
        /\ Keyed(maxChip, readings) \subseteq Int \X AllReadings
    BY <1>3, StrideGrows
  <1>5. batch[w].n = seq[w] /\ seq[w] \in Nat /\ seq[w] >= 1
    BY <1>1 DEF PipelineInv, DataType, FileSound, Storing, Filed
  <1>6. s \in SampleRecord /\ Id(s) = <<w, seq[w]>> /\ (s.sure => widest') /\ s.keys \subseteq SureKeys'
    BY <1>1, <1>4, <1>5 DEF SampleRecord, Id
  <1> HIDE DEF s
  <1>7. \E l \in {"flush", "snap"} : pc' = [pc EXCEPT ![w] = l]
    BY DEF Extract, Goto
  <1>8. /\ pc'[w] \in {"flush", "snap"} /\ \A v \in Flushers \ {w} : pc'[v] = pc[v]
    BY <1>7 DEF PipelineInv, DataType, Flushers
  <1>9. Through(w)' = seq[w] /\ Through(w) = seq[w] - 1
        /\ \A v \in KpiComps \ {w} : Through(v)' = Through(v)
    BY <1>1, <1>8, PipelineAssumption DEF Through, Flushers
  <1>10. Tapped' <=> Tapped
    BY <1>1 DEF Tapped
  <1>11. Id(s) \notin Extracted
    <2>1. seq[w] \notin 1..(seq[w] - 1)
      BY <1>5
    <2> QED
      BY <1>6, <1>9, <2>1, ExtractedIs
  <1>12. Extracted' = Extracted \cup {Id(s)}
    <2>1. \A n : n \in 1..seq[w] <=> n \in 1..(seq[w] - 1) \/ n = seq[w]
      BY <1>5
    <2>2. \A x : x \in Extracted' <=> \E v \in KpiComps : \E n \in 1..Through(v)' : x = <<v, n>>
      <3>1. Extracted' = UNION {{<<v, n>> : n \in 1..Through(v)'} : v \in KpiComps}
        BY <1>1, <1>10 DEF Extracted
      <3> QED
        BY <3>1
    <2>3. \A x : x \in Extracted <=> \E v \in KpiComps : \E n \in 1..Through(v) : x = <<v, n>>
      BY <1>1, ExtractedIs
    <2>4. ASSUME NEW x \in Extracted' PROVE x \in Extracted \cup {Id(s)}
      <3>0. PICK v \in KpiComps : \E n \in 1..Through(v)' : x = <<v, n>>
        BY <2>2, <2>4
      <3>1. PICK n \in 1..Through(v)' : x = <<v, n>>
        BY <3>0
      <3>2. CASE v = w /\ n = seq[w]
        BY <1>6, <3>1, <3>2
      <3>3. CASE ~(v = w /\ n = seq[w])
        <4>1. n \in 1..Through(v)
          BY <1>9, <2>1, <3>1, <3>3
        <4> QED
          BY <2>3, <3>1, <4>1
      <3> QED
        BY <3>2, <3>3
    <2>5. ASSUME NEW x \in Extracted PROVE x \in Extracted'
      <3>0. PICK v \in KpiComps : \E n \in 1..Through(v) : x = <<v, n>>
        BY <2>3, <2>5
      <3>1. PICK n \in 1..Through(v) : x = <<v, n>>
        BY <3>0
      <3>2. n \in 1..Through(v)'
        BY <1>9, <2>1, <3>1
      <3> QED
        BY <2>2, <3>1, <3>2
    <2>6. Id(s) \in Extracted'
      BY <1>1, <1>6, <1>9, <2>1, <2>2
    <2> QED
      BY <2>4, <2>5, <2>6
  <1>13. /\ Held \in [Places -> Seq(SampleRecord)] /\ Held' \in [Places -> Seq(SampleRecord)]
         /\ "buffer" \in Places /\ Held'["buffer"] = Append(Held["buffer"], s)
         /\ \A p \in Places \ {"buffer"} : Held'[p] = Held[p]
    <2>1. buffer' \in Seq(SampleRecord)
      <3>1. buffer \in Seq(SampleRecord)
        BY HeldIs DEF TapInv
      <3> QED
        BY <1>3, <1>6, <3>1
    <2>2. Held' \in [Places -> Seq(SampleRecord)] /\ Held \in [Places -> Seq(SampleRecord)]
      BY <1>1, <2>1, HeldIs, HeldIsNext DEF TapInv, TapType
    <2>3. \A p \in Places : p = "buffer" \/ p = "kpi" \/ p \in Flushers
      BY DEF Places
    <2> QED
      BY <1>1, <1>3, <2>2, <2>3, HeldIs, HeldIsNext DEF Places
  <1>14. Single(Held') /\ Elements(Held') = Elements(Held) \cup {s}
    <2>1. Single(Held) /\ Id(s) \notin Ids(Held)
      BY <1>11 DEF TapInv, PlacesInv
    <2>2. GrowsAt(Held, Held', "buffer", s)
      BY <1>13 DEF GrowsAt
    <2>3. /\ Held \in [Places -> Seq(SampleRecord)] /\ Held' \in [Places -> Seq(SampleRecord)]
          /\ "buffer" \in Places
      BY <1>13
    <2>4. s \in SampleRecord
      BY <1>6
    <2> QED
      BY <2>1, <2>2, <2>3, <2>4, OneMore
  <1>15. TapType'
    BY <1>1, <1>13 DEF TapInv, TapType
  <1>16. HandsInv'
    BY <1>1, <1>8, <1>10 DEF TapInv, HandsInv, Flushers
  <1>17. Ids(Held') = Ids(Held) \cup {Id(s)} /\ LostIds' = LostIds
    BY <1>1, <1>14 DEF Ids, LostIds
  <1>18. PlacesInv'
    <2>1. Single(Held)' /\ Ids(Held)' = Ids(Held) \cup {Id(s)}
      BY <1>14, <1>17 DEF Single, Ids, Elements
    <2> QED
      BY <1>11, <1>12, <1>17, <2>1 DEF TapInv, PlacesInv
  <1>19. StrideInv'
    <2>1. Kept' = Kept \cup {s}
      BY <1>14 DEF Kept, Elements
    <2>2. \A x \in Kept' \cup lost' : x.sure => widest' /\ x.keys \subseteq SureKeys'
      BY <1>1, <1>4, <1>6, <2>1 DEF TapInv, StrideInv
    <2> QED
      BY <1>4, <2>2 DEF StrideInv
  <1> QED
    BY <1>15, <1>16, <1>18, <1>19 DEF TapInv

\* A flusher takes the whole buffer: it had nothing in hand.
LEMMA TakeTaps ==
    ASSUME PipelineInv, TapInv, NEW w \in Flushers, pc[w] \in {"flush", "armed"}, Take(w),
           pc' = [pc EXCEPT ![w] = "append"],
           UNCHANGED <<config, seq, kpi, lost, maxChip, widest>>
    PROVE  TapInv'
  <1>1. pending' = [pending EXCEPT ![w] = buffer] /\ buffer' = <<>>
    BY DEF Take
  <1>2. pending[w] = <<>>
    BY DEF TapInv, HandsInv
  <1>3. pc'[w] = "append" /\ \A v \in Flushers \ {w} : pc'[v] = pc[v]
    BY DEF PipelineInv, DataType
  <1>4. /\ buffer \in Seq(SampleRecord) /\ kpi \in Seq(SampleRecord)
        /\ pending \in [Flushers -> Seq(SampleRecord)] /\ Held \in [Places -> Seq(SampleRecord)]
    BY HeldIs DEF TapInv, TapType
  <1>5. /\ pending' \in [Flushers -> Seq(SampleRecord)] /\ buffer' \in Seq(SampleRecord)
        /\ pending'[w] = buffer /\ \A v \in Flushers \ {w} : pending'[v] = pending[v]
    BY <1>1, <1>4
  <1>6. Held' \in [Places -> Seq(SampleRecord)]
    BY <1>4, <1>5, HeldIsNext
  <1>7. /\ "buffer" \in Places /\ w \in Places /\ "buffer" # w
        /\ Held[w] = <<>> /\ Held'[w] = Held["buffer"] /\ Held'["buffer"] = <<>>
    BY <1>1, <1>2, <1>5, HeldIs, HeldIsNext, PipelineAssumption DEF Places, Flushers
  <1>8. \A p \in Places \ {"buffer", w} : Held'[p] = Held[p]
    <2>1. \A p \in Places : p = "buffer" \/ p = "kpi" \/ p \in Flushers
      BY DEF Places
    <2> QED
      BY <1>5, <2>1, HeldIs, HeldIsNext
  <1>9. Single(Held') /\ Elements(Held') = Elements(Held)
    BY <1>4, <1>6, <1>7, <1>8, AllMove DEF TapInv, PlacesInv
  <1>10. TapType'
    BY <1>5, <1>6 DEF TapInv, TapType
  <1>11. Tapped' <=> Tapped
    BY DEF Tapped
  <1>12. HandsInv'
    BY <1>3, <1>5, <1>11 DEF TapInv, HandsInv, Flushers
  <1>13. Extracted' = Extracted
    <2>1. \A v \in KpiComps : Through(v)' = Through(v)
      BY <1>3, PipelineAssumption DEF Through, Flushers
    <2> QED
      BY <1>11, <2>1, ExtractedStays
  <1>14. PlacesInv'
    <2>1. Single(Held)' /\ Ids(Held)' = Ids(Held) /\ LostIds' = LostIds
      BY <1>9 DEF Single, Ids, Elements, LostIds
    <2> QED
      BY <1>13, <2>1 DEF TapInv, PlacesInv
  <1>15. StrideInv'
    <2>1. Kept' = Kept /\ SureKeys' = SureKeys
      BY <1>9 DEF Kept, Elements, SureKeys
    <2> QED
      BY <2>1 DEF TapInv, StrideInv
  <1> QED
    BY <1>10, <1>12, <1>14, <1>15 DEF TapInv

\* A flusher appends its next sample, or loses it.
LEMMA AppendTaps ==
    ASSUME PipelineInv, TapInv, NEW w \in Flushers, pc[w] = "append", AppendSample(w),
           UNCHANGED <<config, seq, pc>>
    PROVE  TapInv'
  <1> DEFINE s == Head(pending[w])
  <1>1. /\ pending[w] # <<>> /\ pending' = [pending EXCEPT ![w] = Tail(@)]
        /\ UNCHANGED <<buffer, maxChip, widest>>
        /\ \/ kpi' = Append(kpi, s) /\ lost' = lost
           \/ kpi' = kpi /\ lost' = lost \cup {s}
    BY DEF AppendSample
  <1>2. /\ buffer \in Seq(SampleRecord) /\ kpi \in Seq(SampleRecord)
        /\ pending \in [Flushers -> Seq(SampleRecord)] /\ Held \in [Places -> Seq(SampleRecord)]
        /\ lost \in SUBSET SampleRecord
    BY HeldIs DEF TapInv, TapType
  <1>3. /\ pending' \in [Flushers -> Seq(SampleRecord)] /\ pending'[w] = Tail(pending[w])
        /\ \A v \in Flushers \ {w} : pending'[v] = pending[v]
    BY <1>1, <1>2
  <1> DEFINE mid == [Held EXCEPT ![w] = Tail(Held[w])]
  <1>4. /\ "kpi" \in Places /\ "buffer" \in Places /\ w \in Places
        /\ w # "kpi" /\ w # "buffer" /\ Held[w] = pending[w]
        /\ \A p \in Places : p = "buffer" \/ p = "kpi" \/ p \in Flushers
    BY HeldIs, PipelineAssumption DEF Places, Flushers
  <1>5. /\ mid \in [Places -> Seq(SampleRecord)] /\ mid[w] = Tail(Held[w])
        /\ \A p \in Places \ {w} : mid[p] = Held[p]
    <2>1. Held[w] \in Seq(SampleRecord) /\ Held[w] # <<>>
      BY <1>1, <1>2, <1>4
    <2>2. Tail(Held[w]) \in Seq(SampleRecord)
      BY <2>1
    <2> QED
      BY <1>2, <1>4, <2>2
  <1> HIDE DEF mid
  <1>6. /\ Single(mid) /\ Elements(Held) = Elements(mid) \cup {s}
        /\ s \in SampleRecord /\ Id(s) \notin Ids(mid)
    <2>1. Single(Held) /\ Held[w] # <<>>
      BY <1>1, <1>4 DEF TapInv, PlacesInv
    <2>2. /\ Single(mid) /\ Elements(Held) = Elements(mid) \cup {Head(Held[w])}
          /\ Head(Held[w]) \in SampleRecord /\ Id(Head(Held[w])) \notin Ids(mid)
      BY <1>2, <1>4, <1>5, <2>1, OneLess
    <2> QED
      BY <1>4, <2>2
  <1> HIDE DEF s
  <1>7. Tapped' <=> Tapped
    BY DEF Tapped
  <1>8. HandsInv'
    BY <1>3, <1>7 DEF TapInv, HandsInv
  <1>9. Extracted' = Extracted
    <2>1. \A v \in KpiComps : Through(v)' = Through(v)
      BY DEF Through
    <2> QED
      BY <1>7, <2>1, ExtractedStays
  <1>10. SureKeys' = SureKeys /\ Kept = Elements(Held) /\ Kept' = Elements(Held')
    BY <1>1 DEF SureKeys, Kept, Elements
  <1>11. CASE kpi' = Append(kpi, s) /\ lost' = lost
    <2>1. kpi' \in Seq(SampleRecord)
      BY <1>2, <1>6, <1>11
    <2>2. Held' \in [Places -> Seq(SampleRecord)]
      BY <1>1, <1>2, <1>3, <2>1, HeldIsNext
    <2>3. Held'["kpi"] = Append(mid["kpi"], s) /\ \A p \in Places \ {"kpi"} : Held'[p] = mid[p]
      <3>1. Held'["buffer"] = mid["buffer"] /\ Held'["kpi"] = Append(mid["kpi"], s)
        BY <1>1, <1>4, <1>5, <1>11, HeldIs, HeldIsNext
      <3>2. \A v \in Flushers \ {w} : Held'[v] = mid[v]
        <4>1. \A v \in Flushers \ {w} : v \in Places \ {w}
          BY DEF Places
        <4> QED
          BY <1>3, <1>5, <4>1, HeldIs, HeldIsNext
      <3>3. Held'[w] = mid[w]
        BY <1>3, <1>4, <1>5, HeldIsNext
      <3> QED
        BY <1>4, <3>1, <3>2, <3>3
    <2>4. Single(Held') /\ Elements(Held') = Elements(mid) \cup {s}
      <3>1. GrowsAt(mid, Held', "kpi", s)
        BY <2>3 DEF GrowsAt
      <3>2. "kpi" \in Places /\ mid \in [Places -> Seq(SampleRecord)]
        BY <1>4, <1>5
      <3>3. Single(mid) /\ s \in SampleRecord /\ Id(s) \notin Ids(mid)
        BY <1>6
      <3> QED
        BY <2>2, <3>1, <3>2, <3>3, OneMore
    <2>5. Elements(Held') = Elements(Held)
      BY <1>6, <2>4
    <2>6. TapType'
      BY <1>2, <1>3, <1>11, <2>2 DEF TapType
    <2>7. PlacesInv'
      <3>1. Single(Held)' /\ Ids(Held)' = Ids(Held) /\ LostIds' = LostIds
        BY <1>11, <2>4, <2>5 DEF Single, Ids, Elements, LostIds
      <3> QED
        BY <1>9, <3>1 DEF TapInv, PlacesInv
    <2>8. StrideInv'
      BY <1>1, <1>10, <1>11, <2>5 DEF TapInv, StrideInv
    <2> QED
      BY <1>8, <2>6, <2>7, <2>8 DEF TapInv
  <1>12. CASE kpi' = kpi /\ lost' = lost \cup {s}
    <2>1. Held' \in [Places -> Seq(SampleRecord)]
      BY <1>1, <1>2, <1>3, <1>12, HeldIsNext
    <2>2. \A p \in Places : Held'[p] = mid[p]
      <3>1. Held'["buffer"] = mid["buffer"] /\ Held'["kpi"] = mid["kpi"]
        BY <1>1, <1>4, <1>5, <1>12, HeldIs, HeldIsNext
      <3>2. \A v \in Flushers \ {w} : Held'[v] = mid[v]
        <4>1. \A v \in Flushers \ {w} : v \in Places \ {w}
          BY DEF Places
        <4> QED
          BY <1>3, <1>5, <4>1, HeldIs, HeldIsNext
      <3>3. Held'[w] = mid[w]
        BY <1>3, <1>4, <1>5, HeldIsNext
      <3> QED
        BY <1>4, <3>1, <3>2, <3>3
    <2>3. Held' = mid
      BY <1>5, <2>1, <2>2
    <2>4. TapType'
      BY <1>2, <1>3, <1>6, <1>12, <2>1 DEF TapType
    <2>5. PlacesInv'
      <3>1. Ids(Held) = Ids(mid) \cup {Id(s)} /\ LostIds' = LostIds \cup {Id(s)}
        BY <1>6, <1>12 DEF Ids, LostIds
      <3>2. Single(Held)' /\ Ids(Held)' = Ids(mid)
        BY <1>6, <2>3 DEF Single, Ids, Elements
      <3> QED
        BY <1>6, <1>9, <3>1, <3>2 DEF TapInv, PlacesInv
    <2>6. StrideInv'
      <3>1. Kept' \cup lost' = Kept \cup lost
        BY <1>6, <1>10, <1>12, <2>3
      <3> QED
        BY <1>1, <1>10, <3>1 DEF TapInv, StrideInv
    <2> QED
      BY <1>8, <2>4, <2>5, <2>6 DEF TapInv
  <1> QED
    BY <1>1, <1>11, <1>12 DEF s

-----------------------------------------------------------------------------
LEMMA TapInit == Init => TapInv
  <1> SUFFICES ASSUME Init PROVE TapInv
    OBVIOUS
  <1>1. /\ buffer = <<>> /\ kpi = <<>> /\ pending = [w \in Flushers |-> <<>>]
        /\ lost = {} /\ maxChip = -1 /\ widest = FALSE
        /\ \A w \in Comps : seq[w] = 0
    BY DEF Init
  <1>2. \A w \in Flushers : pc[w] \in {"start", "off", "armed"}
    BY DEF Init
  <1>3. Held \in [Places -> Seq(SampleRecord)] /\ \A p \in Places : Held[p] = <<>>
    <2>1. \A p \in Places : p = "buffer" \/ p = "kpi" \/ p \in Flushers
      BY DEF Places
    <2> QED
      BY <1>1, <2>1, HeldIs
  <1>4. TapType
    BY <1>1, <1>3 DEF TapType
  <1>5. HandsInv
    BY <1>1, <1>2 DEF HandsInv, Flushers
  <1>6. Elements(Held) = {} /\ Single(Held)
    BY <1>3 DEF Elements, Single, ToSet
  <1>7. Extracted = {}
    <2>1. \A w \in KpiComps : Through(w) = 0
      BY <1>1, <1>2, PipelineAssumption DEF Through, Flushers
    <2> QED
      BY <2>1 DEF Extracted
  <1>8. PlacesInv
    BY <1>1, <1>6, <1>7 DEF PlacesInv, Ids, LostIds
  <1>9. StrideInv
    BY <1>1, <1>6 DEF StrideInv, Kept, Elements
  <1> QED
    BY <1>4, <1>5, <1>8, <1>9 DEF TapInv

\* A collector goes on without the tap.
LEMMA OthersTap ==
    ASSUME PipelineInv, TapInv, NEW w \in Comps,
           NothingCollected(w) \/ Collect(w) \/ WriteJSONL(w) \/ WriteSnapshot(w) \/ Leave(w)
    PROVE  TapInv'
  <1>1. /\ UNCHANGED <<config, buffer, pending, kpi, lost, maxChip, widest>>
        /\ \A v \in Comps \ {w} : seq'[v] = seq[v]
    BY DEF NothingCollected, Collect, WriteJSONL, WriteSnapshot, Leave, straggler, daemon, PipelineInv, DataType
  <1>2. PICK l \in {"jsonl", "extract", "snap", "wait", "done"} : pc' = [pc EXCEPT ![w] = l]
    BY DEF NothingCollected, Collect, WriteJSONL, WriteSnapshot, Leave, Goto
  <1>3. pc'[w] = l /\ \A v \in Flushers \ {w} : pc'[v] = pc[v]
    BY <1>2 DEF PipelineInv, DataType, Flushers
  <1>4. Tapped' <=> Tapped
    BY <1>1 DEF Tapped
  <1>5. l = "extract" => Tapped /\ w \in KpiComps
    <2>1. CASE WriteJSONL(w)
      <3>1. pc' = [pc EXCEPT ![w] = IF Tapped /\ w \in KpiComps THEN "extract" ELSE "snap"]
        BY <2>1 DEF WriteJSONL, Goto
      <3> QED
        BY <1>3, <3>1 DEF PipelineInv, DataType, Flushers
    <2>2. CASE ~WriteJSONL(w)
      <3>1. \E m \in {"jsonl", "wait", "done"} : pc' = [pc EXCEPT ![w] = m]
        BY <2>2 DEF NothingCollected, Collect, WriteSnapshot, Leave, Goto
      <3> QED
        BY <1>3, <3>1 DEF PipelineInv, DataType, Flushers
    <2> QED
      BY <2>1, <2>2
  <1>6. pc[w] # "append"
    BY DEF NothingCollected, Collect, WriteJSONL, WriteSnapshot, Leave
  <1>7. HandsInv'
    BY <1>1, <1>3, <1>4, <1>5, <1>6 DEF TapInv, HandsInv, Flushers
  <1>8. \A v \in Comps \ {w} : Through(v)' = Through(v)
    BY <1>1, <1>3 DEF Through, Flushers
  <1>9. Tapped /\ w \in KpiComps => Through(w)' = Through(w)
    <2> SUFFICES ASSUME Tapped, w \in KpiComps PROVE Through(w)' = Through(w)
      OBVIOUS
    <2>1. CASE Collect(w)
      <3>1. pc'[w] = "jsonl" /\ pc[w] \in {"start", "wait"} /\ seq[w] \in Nat /\ seq'[w] = seq[w] + 1
        BY <2>1 DEF Collect, Goto, PipelineInv, DataType, Flushers
      <3> QED
        BY <3>1 DEF Through
    <2>2. CASE WriteJSONL(w)
      <3>1. pc'[w] = "extract" /\ pc[w] = "jsonl" /\ seq' = seq
        BY <2>2 DEF WriteJSONL, Goto, PipelineInv, DataType, Flushers
      <3> QED
        BY <3>1 DEF Through
    <2>3. CASE NothingCollected(w) \/ WriteSnapshot(w) \/ Leave(w)
      <3>1. pc'[w] \in {"wait", "done"} /\ pc[w] \in {"start", "snap", "wait"} /\ seq' = seq
        BY <2>3 DEF NothingCollected, WriteSnapshot, Leave, Goto, PipelineInv, DataType, Flushers
      <3> QED
        BY <3>1 DEF Through
    <2> QED
      BY <2>1, <2>2, <2>3
  <1>10. Extracted' = Extracted
    BY <1>4, <1>8, <1>9, ExtractedStays, PipelineAssumption
  <1> QED
    BY <1>1, <1>7, <1>10, SamplesStay

\* A flush: the buffer is taken, a sample appended, or nothing is left.
LEMMA FlushTaps ==
    ASSUME PipelineInv, TapInv, NEW w \in Flushers, Flush(w)
    PROVE  TapInv'
  <1>1. UNCHANGED <<config, seq>>
    BY DEF Flush, daemon
  <1>2. CASE /\ pc[w] \in {"flush", "armed"} /\ Take(w) /\ Goto(w, "append")
             /\ UNCHANGED <<maxChip, kpi, lost, widest>>
    BY <1>1, <1>2, TakeTaps DEF Goto
  <1>3. CASE pc[w] = "append" /\ AppendSample(w) /\ UNCHANGED pc
    BY <1>1, <1>3, AppendTaps
  <1>4. CASE /\ pc[w] = "append" /\ pending[w] = <<>> /\ UNCHANGED straggler
             /\ Goto(w, IF w = "shutdown" THEN "done" ELSE "snap")
    <2>1. UNCHANGED <<buffer, pending, kpi, lost, maxChip, widest>>
      BY <1>4 DEF straggler
    <2>2. pc'[w] \in {"done", "snap"} /\ \A v \in Flushers \ {w} : pc'[v] = pc[v]
      BY <1>4 DEF Goto, PipelineInv, DataType
    <2>3. Tapped' <=> Tapped
      BY <1>1 DEF Tapped
    <2>4. HandsInv'
      BY <1>4, <2>1, <2>2, <2>3 DEF TapInv, HandsInv, Flushers
    <2>5. \A v \in KpiComps : Through(v)' = Through(v)
      BY <1>1, <1>4, <2>2, PipelineAssumption DEF Through, Flushers
    <2> QED
      BY <2>1, <2>3, <2>4, <2>5, ExtractedStays, SamplesStay
  <1> QED
    BY <1>2, <1>3, <1>4 DEF Flush

LEMMA TapNext == PipelineInv /\ TapInv /\ [Next]_vars => TapInv'
  <1> SUFFICES ASSUME PipelineInv, TapInv, [Next]_vars PROVE TapInv'
    OBVIOUS
  <1>1. ASSUME NEW w \in Comps, NothingCollected(w) \/ Collect(w) \/ Write(w) \/ Leave(w)
        PROVE  TapInv'
    <2>1. w \in Flushers
      BY DEF Flushers
    <2>2. CASE Extract(w)
      BY <2>2, ExtractTaps
    <2>3. CASE Flush(w)
      BY <2>1, <2>3, FlushTaps
    <2>4. CASE NothingCollected(w) \/ Collect(w) \/ WriteJSONL(w) \/ WriteSnapshot(w) \/ Leave(w)
      BY <2>4, OthersTap
    <2> QED
      BY <1>1, <2>2, <2>3, <2>4 DEF Write
  <1>2. CASE Flush("shutdown")
    BY <1>2, FlushTaps DEF Flushers
  <1>3. CASE Cancel \/ CloseStore \/ Exit \/ UNCHANGED vars
    <2>1. UNCHANGED <<config, pc, seq, buffer, pending, kpi, lost, maxChip, widest>>
      BY <1>3 DEF Cancel, CloseStore, Exit, vars, daemon, straggler
    <2>2. HandsInv'
      BY <2>1 DEF TapInv, HandsInv, Tapped
    <2>3. Extracted' = Extracted
      BY <2>1 DEF Extracted, Tapped, Through
    <2> QED
      BY <2>1, <2>2, <2>3, SamplesStay
  <1> QED
    BY <1>1, <1>2, <1>3 DEF Next

LEMMA TapHolds == Spec => []TapInv
  <1> QED
    BY TapInit, TapNext, InvHolds, PTL DEF Spec

-----------------------------------------------------------------------------
\* No snapshot shows a batch that the files do not have, whichever writes
\* fail and wherever the other collectors are (comp.go:60-100): PublishedIsStored.
THEOREM SnapshotsShowTheFiles == Spec => []PublishedIsStored
  <1>1. PipelineInv => PublishedIsStored
    BY DEF PipelineInv, SnapshotSound, PublishedIsStored, Whole, Lines, Has, KindsIn
  <1> QED
    BY <1>1, InvHolds, PTL

\* The identity of a device, emitted once, stays in its snapshots for as long
\* as the daemon runs (comp.go:78-82): StaticsSurvive.
THEOREM StaticsAreKept == Spec => []StaticsSurvive
  <1>1. PipelineInv => StaticsSurvive
    BY DEF PipelineInv, SnapshotSound, StaticsSurvive, Lines, KindsIn, Kind
  <1> QED
    BY <1>1, InvHolds, PTL

\* A store that was closed has every batch, or the failure of its write: the
\* wait group is zero only when nobody has a batch in hand (scheduler.go:118-124).
THEOREM ShutdownKeepsBatches == Spec => []CleanExitKeepsBatches
  <1>1. PipelineInv => CleanExitKeepsBatches
    <2> SUFFICES ASSUME PipelineInv, main \in {"closed", "exited"},
                        NEW w \in Comps, NEW n \in 1..seq[w]
                 PROVE  Whole(w, n) \/ <<w, n>> \in refused
      BY DEF CleanExitKeepsBatches
    <2>1. pc[w] # "jsonl"
      BY DEF PipelineInv, GroupSound, Working, Storing
    <2>2. Has(jsonl[w], n) \/ <<w, n>> \in refused
      BY <2>1 DEF PipelineInv, FileSound
    <2> QED
      BY <2>2 DEF Whole, Lines, Has, KindsIn
  <1> QED
    BY <1>1, InvHolds, PTL

\* The sample of a batch is in the buffer, with one of the flushers, in the
\* file or lost to the Append that failed, and in one of them only, whoever
\* flushes while others collect (sample.go, writer.go): SampleInOnePlace.
THEOREM SamplesMoveWhole == Spec => []SampleInOnePlace
  <1>1. TapInv => SampleInOnePlace
    <2> SUFFICES ASSUME TapInv PROVE SampleInOnePlace
      OBVIOUS
    <2>1. Kept = Elements(Held)
      BY DEF Kept, Elements
    <2>2. Single(Held) /\ Ids(Held) \cap LostIds = {} /\ Ids(Held) \cup LostIds = Extracted
      BY DEF TapInv, PlacesInv
    <2>3. \A s \in Kept, t \in lost : Id(s) # Id(t)
      BY <2>1, <2>2 DEF Ids, LostIds
    <2>4. {Id(s) : s \in Kept \cup lost} = Extracted
      BY <2>1, <2>2 DEF Ids, LostIds
    <2> QED
      BY <2>2, <2>3, <2>4 DEF SampleInOnePlace, Single
  <1> QED
    BY <1>1, TapHolds, PTL

\* Readings of one level have the same key exactly when they are about the
\* same thing: a label or a card number is its own key, and a stride above
\* every slot keeps the chips apart.
LEMMA KeysTellApart ==
    ASSUME NEW c \in Readings, NEW d \in Readings, NEW stride \in Nat,
           c.chip < stride, d.chip < stride, Level(c) = Level(d)
    PROVE  DeviceKey(c, stride) = DeviceKey(d, stride) <=> Subject(c) = Subject(d)
  <1>0. /\ c.card \in Nat /\ c.chip \in Nat \cup {-1} /\ c.dev \in Nat \cup {-1}
        /\ d.card \in Nat /\ d.chip \in Nat \cup {-1} /\ d.dev \in Nat \cup {-1}
    BY DEF Readings, NoLabel
  <1>1. CASE c.dev # -1
    <2>1. d.dev # -1 /\ Level(c) = "device" /\ Level(d) = "device"
      BY <1>1 DEF Level, NoLabel
    <2>2. Subject(c) = <<c.dev>> /\ Subject(d) = <<d.dev>>
      BY <2>1 DEF Subject
    <2>3. DeviceKey(c, stride) = c.dev /\ DeviceKey(d, stride) = d.dev
      BY <1>1, <2>1 DEF DeviceKey, NoLabel
    <2> QED
      BY <2>2, <2>3
  <1>2. CASE c.dev = -1 /\ c.chip = -1
    <2>1. d.dev = -1 /\ d.chip = -1 /\ Level(c) = "card" /\ Level(d) = "card"
      BY <1>2 DEF Level, NoLabel
    <2>2. Subject(c) = <<c.card>> /\ Subject(d) = <<d.card>>
      BY <2>1 DEF Subject
    <2>3. DeviceKey(c, stride) = c.card /\ DeviceKey(d, stride) = d.card
      BY <1>2, <2>1 DEF DeviceKey, NoLabel
    <2> QED
      BY <2>2, <2>3
  <1>3. CASE c.dev = -1 /\ c.chip # -1
    <2>1. d.dev = -1 /\ d.chip # -1 /\ Level(c) = "chip" /\ Level(d) = "chip"
      BY <1>3 DEF Level, NoLabel
    <2>2. Subject(c) = <<c.card, c.chip>> /\ Subject(d) = <<d.card, d.chip>>
      BY <2>1 DEF Subject
    <2>3. stride > 0 /\ c.chip \in 0..(stride - 1) /\ d.chip \in 0..(stride - 1)
      BY <1>0, <1>3, <2>1
    <2>4. /\ DeviceKey(c, stride) = c.card * stride + c.chip
          /\ DeviceKey(d, stride) = d.card * stride + d.chip
      BY <1>3, <2>1, <2>3 DEF DeviceKey, NoLabel
    <2>5. ASSUME DeviceKey(c, stride) = DeviceKey(d, stride) PROVE c.card = d.card /\ c.chip = d.chip
      <3>1. c.card * stride + c.chip = d.card * stride + d.chip
        BY <2>4, <2>5
      <3>2. c.card \in Int /\ d.card \in Int
        BY <1>0
      <3> QED
        BY <2>3, <3>1, <3>2, KeysApart
    <2> QED
      BY <2>2, <2>4, <2>5
  <1> QED
    BY <1>1, <1>2, <1>3

\* Once the widest card has been seen the stride no longer changes, so a key
\* names one chip for the rest of the file (sample.go:178): KeysStable.
THEOREM KeysNameOneChip == Spec => []KeysStable
  <1>1. TapInv => KeysStable
    <2> SUFFICES ASSUME TapInv,
                        NEW s \in {u \in Kept \cup lost : u.sure},
                        NEW t \in {u \in Kept \cup lost : u.sure},
                        NEW k \in s.keys, NEW l \in t.keys,
                        Level(k[2]) = Level(l[2])
                 PROVE  k[1] = l[1] <=> Subject(k[2]) = Subject(l[2])
      BY DEF KeysStable
    <2>1. widest /\ k \in SureKeys /\ l \in SureKeys
      BY DEF TapInv, StrideInv
    <2>2. PICK c \in AllReadings : k = <<DeviceKey(c, Stride(maxChip)), c>>
      BY <2>1 DEF SureKeys
    <2>3. PICK d \in AllReadings : l = <<DeviceKey(d, Stride(maxChip)), d>>
      BY <2>1 DEF SureKeys
    <2>4. c \in Readings /\ d \in Readings
      BY PipelineAssumption DEF AllReadings
    <2>5. c.chip <= maxChip /\ d.chip <= maxChip
      BY <2>1 DEF TapInv, StrideInv
    <2>6. maxChip \in Nat \cup {-1}
      BY PipelineAssumption DEF TapInv, StrideInv, AllReadings, Readings, NoLabel
    <2>7. c.chip \in Int /\ d.chip \in Int
      BY <2>4 DEF Readings, NoLabel
    <2>8. Stride(maxChip) \in Nat /\ c.chip < Stride(maxChip) /\ d.chip < Stride(maxChip)
      BY <2>5, <2>6, <2>7 DEF Stride
    <2>9. DeviceKey(c, Stride(maxChip)) = DeviceKey(d, Stride(maxChip)) <=> Subject(c) = Subject(d)
      <3>1. Level(c) = Level(d)
        BY <2>2, <2>3
      <3> QED
        BY <2>4, <2>8, <3>1, KeysTellApart
    <2> QED
      BY <2>2, <2>3, <2>9
  <1> QED
    BY <1>1, TapHolds, PTL
=============================================================================
