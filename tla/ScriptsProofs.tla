---------------------------- MODULE ScriptsProofs -----------------------------
(***************************************************************************)
(* What holds of the regression gate (Gate) and of the failure miner       *)
(* (Miner) for every table, job and number of restarts.                    *)
(***************************************************************************)
EXTENDS AnalysisProofs, Gate, Miner

-----------------------------------------------------------------------------
(* The gate.                                                               *)

\* The gate's bookkeeping: executions are counted, a row is of an execution that was
\* started, scripts/gate.py files it under its own number and scripts/analyze.py under 0,
\* and what may still be inserted joins rows of this execution only.
GateInv ==
  /\ exec \in Nat
  /\ script \in {"gate", "analyze"}
  /\ pc \in {"start", "decide", "delete", "insert", "done"}
  /\ pc \in {"start", "decide", "delete"} => todo = <<>>
  /\ \A r \in gate_results : r.exec <= exec /\ r.exec \in Nat
  /\ script = "gate" => \A r \in gate_results : r.id = r.exec
  /\ script = "analyze" => \A r \in gate_results : r.id = 0
  /\ todo # <<>> => \A r \in gate_results : r.id = GateId => r.exec = exec
  /\ StoredCellsAreOfOneGate

\* The bookkeeping holds at the start, when nothing is stored.
LEMMA GateInvInit == GateInit => GateInv
  BY DEF GateInit, GateInv, StoredCellsAreOfOneGate

\* Every step keeps it: Delete empties the gate's own rows before the first Insert, and a
\* restart forgets what was still to be inserted.
LEMMA GateInvNext == GateInv /\ [GateNext]_gateVars => GateInv'
<1> SUFFICES ASSUME GateInv, [GateNext]_gateVars PROVE GateInv'
  OBVIOUS
<1> USE DEF GateInv, StoredCellsAreOfOneGate, GateId
<1>1. ASSUME NEW status, End(status), pc \in {"start", "insert"} PROVE GateInv'
  BY <1>1 DEF End
<1>2. CASE NoClasses
  BY <1>1, <1>2 DEF NoClasses
<1>3. CASE UnknownColumn
  BY <1>1, <1>3 DEF UnknownColumn
<1>4. CASE NotComparable
  BY <1>1, <1>4 DEF NotComparable
<1>5. CASE Compare
  BY <1>5 DEF Compare
<1>6. CASE Decide
  BY <1>6 DEF Decide
<1>7. CASE Delete
  BY <1>7 DEF Delete
<1>8. CASE Insert
  <2> DEFINE row == [id |-> GateId, exec |-> exec, scope |-> Head(todo).scope,
                     metric |-> Head(todo).metric, verdict |-> Head(todo).verdict]
  <2>1. gate_results' = gate_results \cup {row} /\ row.id = GateId /\ row.exec = exec
    BY <1>8 DEF Insert
  <2>2. \A r \in gate_results : r.id = GateId => r.exec = exec
    BY <1>8 DEF Insert
  <2> HIDE DEF row
  <2>3. UNCHANGED <<script, exec, pc>> /\ pc = "insert"
    BY <1>8 DEF Insert
  <2>4. QED
    BY <2>1, <2>2, <2>3
<1>9. CASE Finish
  BY <1>1, <1>9 DEF Finish
<1>10. CASE GateRestart
  BY <1>10 DEF GateRestart, StartedAgain
<1>11. CASE InsertRefused
  BY <1>1, <1>11 DEF InsertRefused
<1>12. CASE UNCHANGED gateVars
  BY <1>12 DEF gateVars
<1>13. QED
  BY <1>2, <1>3, <1>4, <1>5, <1>6, <1>7, <1>8, <1>9, <1>10, <1>11, <1>12 DEF GateNext

\* For every comparison, every interleaving of statements with kills, and any number of
\* executions, no reader of gate_results sees the rows of two executions under one gate.
THEOREM GateStoresOneExecution == GateSpec => []StoredCellsAreOfOneGate
<1>1. GateInv => StoredCellsAreOfOneGate
  BY DEF GateInv
<1>2. QED
  BY <1>1, GateInvInit, GateInvNext, PTL DEF GateSpec

-----------------------------------------------------------------------------
(* The exit status of the gate and the rows it leaves.                     *)

\* The row a cell becomes.
RowOf(c) == [id |-> GateId, exec |-> exec, scope |-> c.scope, metric |-> c.metric,
             verdict |-> c.verdict]

\* The cells are laid out scope by scope, metric by metric, and no scope comes twice.
Placed ==
  /\ cells \in Seq(ToSet(cells))
  /\ Len(cells) = Len(Scopes) * Len(args.metrics)
  /\ \A i, j \in DOMAIN Scopes : Scopes[i].name = Scopes[j].name => i = j
  /\ \A n \in DOMAIN cells :
       /\ {"scope", "metric", "verdict"} \subseteq DOMAIN cells[n]
       /\ cells[n].scope = Scopes[((n - 1) \div Len(args.metrics)) + 1].name
       /\ cells[n].metric = args.metrics[((n - 1) % Len(args.metrics)) + 1]

\* The first k cells are stored, under this id nothing else is, and the others wait.
StoredUpTo(k) ==
  /\ todo = [i \in 1 .. Len(cells) - k |-> cells[k + i]]
  /\ \A i \in 1 .. k : RowOf(cells[i]) \in gate_results
  /\ \A r \in gate_results : r.id = GateId => \E i \in 1 .. k : r = RowOf(cells[i])

\* What the exit status rests on: before Delete nothing of this execution is stored, and
\* from then on the rows of this id are a beginning of the cells.
RecordInv ==
  /\ args \in [base : Baselines, cand : Candidates, metrics : MetricLists, job : Jobs,
               settings : Settings]
  /\ exit # {} => pc = "done" /\ script = "gate"
  /\ pc \in {"start", "decide", "delete"} => \A r \in gate_results : r.exec < exec
  /\ pc \in {"decide", "delete", "insert"} => Placed
  /\ pc = "insert" /\ ~args.settings.no_write => \E k \in 0 .. Len(cells) : StoredUpTo(k)
  /\ StatusIsOnRecord

\* A function on 1 .. M is a sequence of what it holds.
LEMMA ItsOwnSequence ==
  ASSUME NEW M \in Nat, NEW f, f = [n \in 1 .. M |-> f[n]]
  PROVE  f \in Seq(ToSet(f)) /\ Len(f) = M /\ DOMAIN f = 1 .. M
<1>1. DOMAIN f = 1 .. M
  OBVIOUS
<1>2. \A n \in 1 .. M : f[n] \in ToSet(f)
  BY <1>1 DEF ToSet
<1>3. QED
  BY <1>1, <1>2

\* The row and the column of position n in a grid with rows of L.
GridRow(n, L)    == ((n - 1) \div L) + 1
GridColumn(n, L) == ((n - 1) % L) + 1

\* The cells are a grid, a row for each scope and a column for each metric.
IsGrid(cs, base, cand, scopes, metrics) ==
  cs = [n \in 1 .. Len(scopes) * Len(metrics) |->
          Cell(base, cand, scopes[GridRow(n, Len(metrics))], metrics[GridColumn(n, Len(metrics))])]

\* They come out as they are laid out.
LEMMA CellsAre ==
  ASSUME NEW base, NEW cand, NEW scopes, NEW metrics, Len(scopes) * Len(metrics) \in Nat
  PROVE  IsGrid(CellsOf(base, cand, scopes, metrics), base, cand, scopes, metrics)
<1> DEFINE size == Len(scopes) * Len(metrics)
           at(n) == Cell(base, cand, scopes[GridRow(n, Len(metrics))], metrics[GridColumn(n, Len(metrics))])
           f == [n \in 1 .. size |-> at(n)]
<1>1. CellsOf(base, cand, scopes, metrics) = SubSeq(f, 1, size)
  BY Zenon DEF CellsOf, GridRow, GridColumn
<1> HIDE DEF at, size
<1>2. \A g, M : M \in Nat /\ g = [n \in 1 .. M |-> g[n]] => SubSeq(g, 1, M) = g
  OBVIOUS
<1>3. f = [n \in 1 .. size |-> f[n]]
  OBVIOUS
<1> HIDE DEF f
<1>4. SubSeq(f, 1, size) = f
  BY <1>2, <1>3 DEF size
<1>5. QED
  BY <1>1, <1>4 DEF f, at, size, IsGrid

\* The scopes of a call are "overall" and what the job covers, and there is a metric.
LEMMA Arguments ==
  ASSUME args \in [base : Baselines, cand : Candidates, metrics : MetricLists, job : Jobs,
                   settings : Settings]
  PROVE  /\ Len(Scopes) \in Nat \ {0} /\ DOMAIN Scopes = 1 .. Len(Scopes)
         /\ Len(args.metrics) \in Nat \ {0}
         /\ DOMAIN args.metrics = 1 .. Len(args.metrics)
<1> DEFINE jobScopes == args.job.scopes
           first == <<[name |-> "overall", ids |-> Paired(args.base, args.cand)]>>
<1>1. jobScopes \in Seq(ToSet(jobScopes)) /\ args.metrics \in Seq(ToSet(args.metrics))
      /\ args.metrics # <<>>
  BY GateAssumption
<1>2. Scopes = first \o jobScopes
  BY DEF Scopes
<1>3. first \in Seq({first[1]}) /\ Len(first) = 1
  OBVIOUS
<1> DEFINE all == {first[1]} \cup ToSet(jobScopes)
<1> HIDE DEF first, jobScopes
<1>4. first \in Seq(all) /\ jobScopes \in Seq(all)
  BY <1>1, <1>3
<1> HIDE DEF all
<1>5. Scopes \in Seq(all) /\ Len(Scopes) = 1 + Len(jobScopes)
  BY <1>2, <1>3, <1>4, ConcatProperties
<1>6. Len(args.metrics) \in Nat /\ DOMAIN args.metrics = 1 .. Len(args.metrics)
      /\ Len(args.metrics) # 0
  BY <1>1
<1>7. Len(jobScopes) \in Nat
  BY <1>1
<1>8. QED
  BY <1>5, <1>6, <1>7

\* A cell, thin or not, names its scope and its metric.
LEMMA CellNamesItsPlace ==
  ASSUME NEW base, NEW cand, NEW scope, NEW metric
  PROVE  LET c == Cell(base, cand, scope, metric) IN
         /\ {"scope", "metric", "verdict"} \subseteq DOMAIN c
         /\ c.scope = scope.name /\ c.metric = metric /\ c.verdict = "inconclusive"
<1>1. \A s, m, n, d, i, p, v : LET c == [scope |-> s, metric |-> m, n |-> n, delta |-> d, ci |-> i,
                                         p |-> p, verdict |-> v]
                               IN /\ {"scope", "metric", "verdict"} \subseteq DOMAIN c
                                  /\ c.scope = s /\ c.metric = m /\ c.verdict = v
  OBVIOUS
<1>2. QED
  BY <1>1, Zenon DEF Cell, ThinCell

\* Setting the verdict of a cell leaves its place.
LEMMA VerdictKeepsPlace ==
  ASSUME NEW c, {"scope", "metric", "verdict"} \subseteq DOMAIN c, NEW v
  PROVE  LET d == [c EXCEPT !.verdict = v] IN
         /\ {"scope", "metric", "verdict"} \subseteq DOMAIN d
         /\ d.scope = c.scope /\ d.metric = c.metric
  OBVIOUS

\* The comparison lays the cells out.
LEMMA ComparePlaces ==
  ASSUME args \in [base : Baselines, cand : Candidates, metrics : MetricLists, job : Jobs,
                   settings : Settings], Compare
  PROVE  Placed'
<1> DEFINE L == Len(args.metrics)
           M == Len(Scopes) * L
           at(n) == Cell(args.base, args.cand, Scopes[GridRow(n, L)], args.metrics[GridColumn(n, L)])
<1>1. cells' = CellsOf(args.base, args.cand, Scopes, args.metrics) /\ UNCHANGED args
  BY DEF Compare
<1>2. L \in Nat \ {0} /\ Len(Scopes) \in Nat /\ M \in Nat
  BY Arguments
<1>3. cells' = [n \in 1 .. M |-> at(n)]
  BY <1>1, <1>2, CellsAre DEF IsGrid
<1>4. \A n : /\ {"scope", "metric", "verdict"} \subseteq DOMAIN at(n)
             /\ at(n).scope = Scopes[((n - 1) \div L) + 1].name
             /\ at(n).metric = args.metrics[((n - 1) % L) + 1]
  BY CellNamesItsPlace DEF GridRow, GridColumn
<1>5. Scopes' = Scopes
  BY <1>1 DEF Scopes, Paired
<1>6. \A i, j \in DOMAIN Scopes : Scopes[i].name = Scopes[j].name => i = j
  BY DEF Compare, Comparable
<1> HIDE DEF at, M
<1>7. cells' = [n \in 1 .. M |-> cells'[n]] /\ \A n \in 1 .. M : cells'[n] = at(n)
  BY <1>3
<1>8. cells' \in Seq(ToSet(cells')) /\ Len(cells') = M /\ DOMAIN cells' = 1 .. M
  BY <1>2, <1>7, ItsOwnSequence
<1>9. \A n \in DOMAIN cells' :
        /\ {"scope", "metric", "verdict"} \subseteq DOMAIN cells'[n]
        /\ cells'[n].scope = Scopes[((n - 1) \div L) + 1].name
        /\ cells'[n].metric = args.metrics[((n - 1) % L) + 1]
  BY <1>4, <1>7, <1>8, Zenon
<1>10. QED
  BY <1>1, <1>5, <1>6, <1>8, <1>9 DEF Placed, M

\* The verdicts leave them where they are.
LEMMA DecidePlaces == ASSUME Placed, Decide PROVE Placed'
<1> DEFINE M == Len(cells)
<1>1. cells' = Decided(cells) /\ UNCHANGED args
  BY DEF Decide
<1>2. M \in Nat /\ DOMAIN cells = 1 .. M
  BY DEF Placed
<1>3. DOMAIN Decided(cells) = DOMAIN cells /\ Decided(cells) = [n \in DOMAIN cells |-> Decided(cells)[n]]
  BY DEF Decided
<1>4. \A n \in DOMAIN cells : \/ Decided(cells)[n] = cells[n]
                              \/ \E v : Decided(cells)[n] = [cells[n] EXCEPT !.verdict = v]
  BY Zenon DEF Decided
<1>5. \A n \in DOMAIN cells : {"scope", "metric", "verdict"} \subseteq DOMAIN cells[n]
  BY DEF Placed
<1>6. \A n \in DOMAIN cells :
        /\ {"scope", "metric", "verdict"} \subseteq DOMAIN cells'[n]
        /\ cells'[n].scope = cells[n].scope /\ cells'[n].metric = cells[n].metric
  BY <1>1, <1>4, <1>5, VerdictKeepsPlace
<1>7. cells' \in Seq(ToSet(cells')) /\ Len(cells') = M /\ DOMAIN cells' = 1 .. M
  BY <1>1, <1>2, <1>3, ItsOwnSequence
<1>8. Scopes' = Scopes
  BY <1>1 DEF Scopes, Paired
<1>9. QED
  BY <1>1, <1>2, <1>6, <1>7, <1>8 DEF Placed

\* A sequence in which a value comes twice has fewer values than positions.
LEMMA ComesTwice ==
  ASSUME NEW L \in Nat, NEW s, DOMAIN s = 1 .. L, NEW a \in 1 .. L, NEW b \in 1 .. L, a # b, s[a] = s[b]
  PROVE  Cardinality({s[i] : i \in 1 .. L}) < L
<1> DEFINE T == {s[i] : i \in 1 .. L}
           rest == (1 .. L) \ {b}
           f == [i \in rest |-> s[i]]
<1>1. IsFiniteSet(1 .. L) /\ Cardinality(1 .. L) = L
  BY FS_Interval
<1>2. IsFiniteSet(rest) /\ Cardinality(rest) = L - 1
  BY <1>1, FS_RemoveElement
<1>3. f \in Surjection(rest, T)
  <2>1. f \in [rest -> T]
    OBVIOUS
  <2>2. ASSUME NEW t \in T PROVE \E i \in rest : f[i] = t
    <3>1. PICK i \in 1 .. L : t = s[i]
      OBVIOUS
    <3>2. CASE i = b
      BY <3>1, <3>2
    <3>3. CASE i # b
      BY <3>1, <3>3
    <3>4. QED
      BY <3>2, <3>3
  <2>3. QED
    BY <2>1, <2>2 DEF Surjection
<1>4. IsFiniteSet(T) /\ Cardinality(T) <= Cardinality(rest)
  BY <1>2, <1>3, FS_Surjection
<1>5. QED
  BY <1>2, <1>4, FS_CardinalityType

\* Position n of a grid of S rows of L is in one row and one column, and in no other's.
LEMMA GridPlaces ==
  ASSUME NEW L \in Nat \ {0}, NEW S \in Nat \ {0}, NEW n \in 1 .. S * L, NEW k \in 1 .. S * L
  PROVE  /\ ((n - 1) \div L) + 1 \in 1 .. S /\ ((n - 1) % L) + 1 \in 1 .. L
         /\ /\ ((n - 1) \div L) + 1 = ((k - 1) \div L) + 1
            /\ ((n - 1) % L) + 1 = ((k - 1) % L) + 1
            => n = k
<1>1. PICK q, r : q = (n - 1) \div L /\ r = (n - 1) % L
  OBVIOUS
<1>2. PICK t, u : t = (k - 1) \div L /\ u = (k - 1) % L
  OBVIOUS
<1>3. S * L \in Nat
  OBVIOUS
<1>4. n - 1 \in Nat /\ k - 1 \in Nat /\ n - 1 < S * L
  BY <1>3
<1>5. n - 1 = L * q + r /\ r \in 0 .. L - 1 /\ q \in Nat
  BY <1>1, <1>4, DivMod
<1>6. k - 1 = L * t + u /\ u \in 0 .. L - 1 /\ t \in Nat
  BY <1>2, <1>4, DivMod
<1>7. q < S
  <2>1. CASE q >= S
    <3>1. L * q >= S * L
      BY <1>5, <2>1
    <3>2. QED
      BY <1>3, <1>4, <1>5, <3>1
  <2>2. QED
    BY <1>5, <2>1
<1>8. q + 1 \in 1 .. S /\ r + 1 \in 1 .. L
  BY <1>5, <1>7
<1>9. q + 1 = t + 1 /\ r + 1 = u + 1 => n = k
  BY <1>5, <1>6
<1>10. QED
  BY <1>1, <1>2, <1>8, <1>9, Zenon

\* The database refuses a cell only if a metric was asked for twice: two cells of one scope
\* and one metric would otherwise be at the same place.
LEMMA RefusedIsTwice ==
  ASSUME args \in [base : Baselines, cand : Candidates, metrics : MetricLists, job : Jobs,
                   settings : Settings],
         Placed, NEW k \in 0 .. Len(cells), StoredUpTo(k), todo # <<>>, KeyTaken(Head(todo))
  PROVE  MetricTwice
<1> DEFINE L == Len(args.metrics)
           S == Len(Scopes)
           s(n) == ((n - 1) \div L) + 1
           m(n) == ((n - 1) % L) + 1
<1>1. Len(cells) \in Nat /\ DOMAIN cells = 1 .. Len(cells)
  BY DEF Placed
<1>2. PICK j \in 1 .. Len(cells) : j = k + 1 /\ Head(todo) = cells[j]
  BY <1>1 DEF StoredUpTo
<1>3. PICK i \in 1 .. k : RowOf(cells[i]).scope = cells[j].scope /\ RowOf(cells[i]).metric = cells[j].metric
  BY <1>2 DEF KeyTaken, StoredUpTo
<1>4. cells[i].scope = cells[j].scope /\ cells[i].metric = cells[j].metric
  BY <1>3 DEF RowOf
<1>5. L \in Nat \ {0} /\ S \in Nat \ {0} /\ DOMAIN Scopes = 1 .. S /\ DOMAIN args.metrics = 1 .. L
  BY Arguments
<1>6. i \in 1 .. Len(cells) /\ i # j /\ Len(cells) = S * L
  BY <1>1, <1>2 DEF Placed
<1>7. \A n \in 1 .. Len(cells) : cells[n].scope = Scopes[s(n)].name /\ cells[n].metric = args.metrics[m(n)]
  BY <1>1, Zenon DEF Placed
<1>8. \A x, y \in 1 .. S * L : s(x) \in 1 .. S /\ m(x) \in 1 .. L
                               /\ (s(x) = s(y) /\ m(x) = m(y) => x = y)
  <2>1. \A M \in Nat \ {0}, R \in Nat \ {0} : \A x, y \in 1 .. R * M :
          /\ ((x - 1) \div M) + 1 \in 1 .. R /\ ((x - 1) % M) + 1 \in 1 .. M
          /\ /\ ((x - 1) \div M) + 1 = ((y - 1) \div M) + 1
             /\ ((x - 1) % M) + 1 = ((y - 1) % M) + 1
             => x = y
    BY GridPlaces
  <2> HIDE DEF L, S
  <2>2. QED
    BY <1>5, <2>1, Zenon
<1>9. \A n, o \in DOMAIN Scopes : Scopes[n].name = Scopes[o].name => n = o
  BY DEF Placed
<1> HIDE DEF s, m, L, S
<1>10. s(i) \in 1 .. S /\ s(j) \in 1 .. S /\ m(i) \in 1 .. L /\ m(j) \in 1 .. L
       /\ ~(s(i) = s(j) /\ m(i) = m(j))
  BY <1>6, <1>8
<1>11. s(i) = s(j)
  BY <1>4, <1>5, <1>6, <1>7, <1>9, <1>10, Zenon
<1>12. m(i) # m(j) /\ args.metrics[m(i)] = args.metrics[m(j)]
  BY <1>4, <1>6, <1>7, <1>10, <1>11, Zenon
<1>13. Cardinality({args.metrics[n] : n \in 1 .. L}) < L
  BY <1>5, <1>10, <1>12, ComesTwice
<1>14. QED
  BY <1>5, <1>13 DEF MetricTwice, Asked, L

\* A program that ends leaves what the record says of its status.
LEMMA EndKeepsRecord ==
  ASSUME NEW status, End(status),
         script = "gate" /\ ~args.settings.no_write => RecordSays(status)
  PROVE  StatusIsOnRecord'
<1>1. exit' \subseteq {status} /\ (exit' # {} => script = "gate")
      /\ UNCHANGED <<script, args, exec, cells, gate_results>>
  BY DEF End
<1>2. RecordSays(status) => RecordSays(status)'
  BY <1>1 DEF RecordSays, GateId, KeyTaken, Asked, MetricTwice
<1>3. QED
  BY <1>1, <1>2 DEF StatusIsOnRecord

\* Before Delete a gate has stored nothing under its id.
LEMMA NothingStoredYet ==
  ASSUME GateInv, RecordInv, pc = "start", script = "gate"
  PROVE  {r \in gate_results : r.id = GateId} = {}
  BY DEF GateInv, RecordInv, GateId

\* At the start nothing is stored and nothing has ended.
LEMMA RecordInvInit == GateInit => RecordInv
  BY DEF GateInit, RecordInv, StatusIsOnRecord

\* The cells stay in place as long as nothing touches them.
LEMMA PlacedStays == Placed /\ UNCHANGED <<cells, args>> => Placed'
<1>1. ASSUME UNCHANGED args PROVE Scopes' = Scopes
  BY <1>1 DEF Scopes, Paired
<1>2. QED
  BY <1>1 DEF Placed

\* What follows the first of a sequence.
LEMMA TailIs ==
  ASSUME NEW n \in Nat, NEW f, NEW s, s = [i \in 1 .. n + 1 |-> f[i]]
  PROVE  Tail(s) = [i \in 1 .. n |-> f[i + 1]]
<1>1. s \in Seq({f[i] : i \in 1 .. n + 1}) /\ Len(s) = n + 1
  OBVIOUS
<1>2. s # <<>>
  BY <1>1
<1>3. Tail(s) = [i \in 1 .. n |-> s[i + 1]]
  BY <1>1, <1>2
<1>4. \A i \in 1 .. n : s[i + 1] = f[i + 1]
  OBVIOUS
<1>5. QED
  BY <1>3, <1>4

\* Inserting the next cell stores one more.
LEMMA InsertStores ==
  ASSUME Placed, NEW k \in 0 .. Len(cells), StoredUpTo(k), Insert
  PROVE  k + 1 \in 0 .. Len(cells) /\ StoredUpTo(k + 1)'
<1>1. Len(cells) \in Nat
  BY DEF Placed
<1>2. /\ UNCHANGED <<script, args, exec, cells>> /\ todo # <<>> /\ todo' = Tail(todo)
      /\ gate_results' = gate_results \cup {RowOf(Head(todo))}
  BY DEF Insert, RowOf
<1>3. todo = [i \in 1 .. Len(cells) - k |-> cells[k + i]]
  BY DEF StoredUpTo
<1>4. Len(cells) - k \in Nat \ {0}
  BY <1>1, <1>2, <1>3
<1>5. Head(todo) = cells[k + 1]
  BY <1>3, <1>4
<1>6. todo' = [i \in 1 .. Len(cells) - (k + 1) |-> cells[k + 1 + i]]
  <2>1. PICK n \in Nat : Len(cells) - k = n + 1
    <3>1. \A l \in Nat \ {0} : l - 1 \in Nat /\ l = (l - 1) + 1
      OBVIOUS
    <3>2. QED
      BY <1>4, <3>1
  <2>2. Len(cells) - (k + 1) = n
    BY <1>1, <2>1
  <2>3. PICK f : f = [i \in 1 .. n + 1 |-> cells[k + i]]
    OBVIOUS
  <2>4. todo = [i \in 1 .. n + 1 |-> f[i]]
    BY <1>3, <2>1, <2>3
  <2>5. Tail(todo) = [i \in 1 .. n |-> f[i + 1]]
    BY <2>4, TailIs
  <2>6. \A i \in 1 .. n : f[i + 1] = cells[k + 1 + i]
    <3>1. \A i \in 1 .. n : i + 1 \in 1 .. n + 1 /\ k + (i + 1) = k + 1 + i
      OBVIOUS
    <3>2. QED
      BY <2>3, <3>1
  <2>7. QED
    BY <1>2, <2>2, <2>5, <2>6
<1>7. \A c : RowOf(c)' = RowOf(c)
  BY <1>2 DEF RowOf, GateId
<1>8. GateId' = GateId
  BY <1>2 DEF GateId
<1>9. \A i \in 1 .. k + 1 : RowOf(cells[i]) \in gate_results'
  BY <1>1, <1>2, <1>5 DEF StoredUpTo
<1>10. \A r \in gate_results' : r.id = GateId => \E i \in 1 .. k + 1 : r = RowOf(cells[i])
  BY <1>1, <1>2, <1>5 DEF StoredUpTo
<1>11. QED
  BY <1>1, <1>2, <1>4, <1>6, <1>7, <1>8, <1>9, <1>10 DEF StoredUpTo

\* When all cells are stored, the status Finish chooses is on record.
LEMMA FinishIsOnRecord ==
  ASSUME args \in [base : Baselines, cand : Candidates, metrics : MetricLists, job : Jobs,
                   settings : Settings],
         Placed, StoredUpTo(Len(cells))
  PROVE  RecordSays(IF Passed \/ args.settings.no_fail THEN 0 ELSE 1)
<1> DEFINE mine == {r \in gate_results : r.id = GateId}
<1>1. Len(cells) \in Nat \ {0} /\ DOMAIN cells = 1 .. Len(cells)
  BY Arguments DEF Placed
<1>2. \A i \in DOMAIN cells : RowOf(cells[i]) \in mine
  BY <1>1 DEF StoredUpTo, RowOf
<1>3. \A i \in DOMAIN cells : KeyTaken(cells[i])
  BY <1>2 DEF KeyTaken, RowOf
<1>4. mine # {}
  <2>1. 1 \in DOMAIN cells
    BY <1>1
  <2>2. QED
    BY <1>2, <2>1
<1>5. \A r \in mine : r.verdict = "regression" => ~Passed
  BY <1>1 DEF StoredUpTo, RowOf, Passed
<1>6. ~Passed => \E r \in mine : r.verdict = "regression"
  BY <1>2 DEF Passed, RowOf
<1>7. QED
  BY <1>3, <1>4, <1>5, <1>6 DEF RecordSays

\* Every step keeps it.
LEMMA RecordInvNext == GateInv /\ RecordInv /\ [GateNext]_gateVars => RecordInv'
<1> SUFFICES ASSUME GateInv, RecordInv, [GateNext]_gateVars PROVE RecordInv'
  OBVIOUS
<1> USE DEF RecordInv
<1>1. ASSUME NEW status, End(status), pc # "done",
             script = "gate" /\ ~args.settings.no_write => RecordSays(status)
      PROVE RecordInv'
  <2>1. StatusIsOnRecord'
    BY <1>1, EndKeepsRecord
  <2>2. QED
    BY <1>1, <2>1 DEF End
<1>2. CASE NoClasses
  BY <1>1, <1>2, NothingStoredYet DEF NoClasses, RecordSays
<1>3. CASE UnknownColumn
  BY <1>1, <1>3, NothingStoredYet DEF UnknownColumn, RecordSays
<1>4. CASE NotComparable
  BY <1>1, <1>4, NothingStoredYet DEF NotComparable, RecordSays
<1>5. CASE Compare
  <2>1. Placed'
    BY <1>5, ComparePlaces
  <2>2. QED
    BY <1>5, <2>1 DEF Compare, StatusIsOnRecord
<1>6. CASE Decide
  <2>1. Placed'
    BY <1>6, DecidePlaces DEF Decide
  <2>2. UNCHANGED <<script, args, exec, todo, exit, gate_results>> /\ exit = {}
        /\ pc' = IF args.settings.no_write THEN "insert" ELSE "delete"
    BY <1>6 DEF Decide
  <2>3. pc = "decide"
    BY <1>6 DEF Decide
  <2>4. QED
    BY <2>1, <2>2, <2>3 DEF StatusIsOnRecord
<1>7. CASE Delete
  <2>1. /\ UNCHANGED <<script, args, exec, cells, exit>> /\ exit = {} /\ pc' = "insert"
        /\ todo' = cells /\ gate_results' = {r \in gate_results : r.id # GateId} /\ Placed
    BY <1>7 DEF Delete
  <2>2. Placed'
    BY <2>1, PlacedStays
  <2>3. Len(cells) \in Nat /\ cells = [i \in 1 .. Len(cells) |-> cells[i]]
    BY <2>1 DEF Placed
  <2>4. 0 \in 0 .. Len(cells') /\ StoredUpTo(0)'
    BY <2>1, <2>3 DEF StoredUpTo, GateId
  <2>5. \E k \in 0 .. Len(cells') : StoredUpTo(k)'
    BY <2>4
  <2>6. QED
    BY <2>1, <2>2, <2>5 DEF StatusIsOnRecord
<1>8. CASE Insert
  <2>1. UNCHANGED <<script, args, exec, pc, cells, exit>> /\ exit = {} /\ pc = "insert" /\ Placed
    BY <1>8 DEF Insert
  <2>2. Placed'
    BY <2>1, PlacedStays
  <2>3. ~args.settings.no_write => \E k \in 0 .. Len(cells') : StoredUpTo(k)'
    BY <1>8, <2>1, InsertStores
  <2>4. QED
    BY <2>1, <2>2, <2>3 DEF StatusIsOnRecord
<1>9. CASE InsertRefused
  <2>1. pc = "insert" /\ Placed /\ todo # <<>> /\ KeyTaken(Head(todo)) /\ End(1)
    BY <1>9 DEF InsertRefused
  <2>2. ~args.settings.no_write => MetricTwice
    BY <2>1, RefusedIsTwice
  <2>3. QED
    BY <1>1, <2>1, <2>2 DEF RecordSays
<1>10. CASE Finish
  <2>1. pc = "insert" /\ Placed /\ todo = <<>> /\ End(IF Passed \/ args.settings.no_fail THEN 0 ELSE 1)
    BY <1>10 DEF Finish
  <2>2. ASSUME ~args.settings.no_write PROVE StoredUpTo(Len(cells))
    <3>1. PICK k \in 0 .. Len(cells) : StoredUpTo(k)
      BY <2>1, <2>2
    <3>2. Len(cells) \in Nat /\ todo = [i \in 1 .. Len(cells) - k |-> cells[k + i]]
      BY <2>1, <3>1 DEF Placed, StoredUpTo
    <3>3. k = Len(cells)
      <4>1. DOMAIN todo = 1 .. Len(cells) - k
        BY <3>2
      <4>2. DOMAIN todo = {}
        BY <2>1
      <4>3. k # Len(cells) => 1 \in 1 .. Len(cells) - k
        BY <3>2
      <4>4. QED
        BY <4>1, <4>2, <4>3
    <3>4. QED
      BY <3>1, <3>3
  <2>3. QED
    BY <1>1, <2>1, <2>2, FinishIsOnRecord
<1>11. CASE GateRestart
  BY <1>11 DEF GateRestart, StartedAgain, StatusIsOnRecord, GateInv
<1>12. CASE UNCHANGED gateVars
  <2>1. Placed => Placed'
    BY <1>12, PlacedStays DEF gateVars
  <2>2. \A k : StoredUpTo(k) => StoredUpTo(k)'
    BY <1>12 DEF gateVars, StoredUpTo, RowOf, GateId
  <2>3. StatusIsOnRecord'
    BY <1>12 DEF gateVars, StatusIsOnRecord, RecordSays, GateId, KeyTaken, Asked, MetricTwice
  <2>4. QED
    BY <1>12, <2>1, <2>2, <2>3 DEF gateVars
<1>13. QED
  BY <1>2, <1>3, <1>4, <1>5, <1>6, <1>7, <1>8, <1>9, <1>10, <1>11, <1>12 DEF GateNext

\* The exit status of scripts/gate.py and the rows it leaves agree, for every comparison,
\* after any number of kills and repetitions.
THEOREM GateStatusIsOnRecord == GateSpec => []StatusIsOnRecord
<1>1. RecordInv => StatusIsOnRecord
  BY DEF RecordInv
<1>2. QED
  BY <1>1, GateInvInit, GateInvNext, RecordInvInit, RecordInvNext, PTL DEF GateSpec

-----------------------------------------------------------------------------
(* The verdicts of the gate: what a resample of differences can say.       *)

\* A sum of numbers is positive only if one of them is, and negative only if one is; a sum of
\* 0 over anything but zeros has some of either sign.
LEMMA SumHasAWitness ==
  ASSUME NEW f, IsFiniteSet(DOMAIN f), \A x \in DOMAIN f : f[x] \in Int
  PROVE  /\ Total(f) \in Int
         /\ Total(f) > 0 => \E x \in DOMAIN f : f[x] > 0
         /\ Total(f) < 0 => \E x \in DOMAIN f : f[x] < 0
         /\ Total(f) = 0 /\ (\E x \in DOMAIN f : f[x] # 0) =>
              /\ \E x \in DOMAIN f : f[x] > 0
              /\ \E x \in DOMAIN f : f[x] < 0
<1> DEFINE S == DOMAIN f
           F == {T \in SUBSET S : /\ (\A x \in T : f[x] <= 0) => SumOver(f, T) <= 0
                                  /\ (\A x \in T : f[x] >= 0) => SumOver(f, T) >= 0
                                  /\ (\A x \in T : f[x] <= 0) /\ (\E x \in T : f[x] < 0) => SumOver(f, T) < 0
                                  /\ (\A x \in T : f[x] >= 0) /\ (\E x \in T : f[x] > 0) => SumOver(f, T) > 0}
<1>1. Total(f) = SumOver(f, S)
  BY Zenon DEF Total, SumOver, MapThenSumSet, MapThenFoldSet
<1> HIDE DEF S
<1>2. /\ SumOver(f, {}) = 0 /\ \A T \in SUBSET S : SumOver(f, T) \in Int
      /\ \A T \in SUBSET S, x \in S : x \notin T => SumOver(f, T \cup {x}) = f[x] + SumOver(f, T)
  BY SumTakes DEF S
<1>3. {} \in F
  BY <1>2
<1>4. ASSUME NEW T \in F, NEW y \in S, T \subseteq S, y \notin T PROVE T \cup {y} \in F
  <2>1. SumOver(f, T \cup {y}) = f[y] + SumOver(f, T) /\ SumOver(f, T) \in Int /\ f[y] \in Int
    BY <1>2, <1>4 DEF S
  <2>2. /\ (\A x \in T : f[x] <= 0) => SumOver(f, T) <= 0
        /\ (\A x \in T : f[x] >= 0) => SumOver(f, T) >= 0
        /\ (\A x \in T : f[x] <= 0) /\ (\E x \in T : f[x] < 0) => SumOver(f, T) < 0
        /\ (\A x \in T : f[x] >= 0) /\ (\E x \in T : f[x] > 0) => SumOver(f, T) > 0
    OBVIOUS
  <2>3. T \cup {y} \in SUBSET S
    BY <1>4
  <2> HIDE DEF F
  <2>4. PICK U : U = T \cup {y}
    OBVIOUS
  <2>5. \A x : x \in U <=> x \in T \/ x = y
    BY <2>4
  <2>6. SumOver(f, U) = f[y] + SumOver(f, T)
    BY <2>1, <2>4, Zenon
  <2>7. /\ (\A x \in U : f[x] <= 0) => SumOver(f, U) <= 0
        /\ (\A x \in U : f[x] >= 0) => SumOver(f, U) >= 0
    BY <2>1, <2>2, <2>5, <2>6
  <2>8. /\ (\A x \in U : f[x] <= 0) /\ (\E x \in U : f[x] < 0) => SumOver(f, U) < 0
        /\ (\A x \in U : f[x] >= 0) /\ (\E x \in U : f[x] > 0) => SumOver(f, U) > 0
    BY <2>1, <2>2, <2>5, <2>6
  <2>9. U \in SUBSET S
    BY <2>3, <2>4
  <2>10. U \in F
    BY <2>7, <2>8, <2>9 DEF F
  <2>11. QED
    BY <2>4, <2>10
<1> HIDE DEF F
<1>5. \A T \in SUBSET S : T \in F
  BY <1>3, <1>4, FiniteSetInduction DEF S
<1>6. S \in F
  BY <1>5
<1>7. SumOver(f, S) \in Int
  BY <1>2
<1>8. /\ (\A x \in S : f[x] <= 0) => SumOver(f, S) <= 0
      /\ (\A x \in S : f[x] >= 0) => SumOver(f, S) >= 0
      /\ (\A x \in S : f[x] <= 0) /\ (\E x \in S : f[x] < 0) => SumOver(f, S) < 0
      /\ (\A x \in S : f[x] >= 0) /\ (\E x \in S : f[x] > 0) => SumOver(f, S) > 0
  BY <1>6 DEF F
<1>9. \A x \in S : f[x] \in Int
  BY DEF S
<1>10. /\ SumOver(f, S) > 0 => \E x \in S : f[x] > 0
       /\ SumOver(f, S) < 0 => \E x \in S : f[x] < 0
  BY <1>7, <1>8, <1>9
<1>11. ASSUME SumOver(f, S) = 0, NEW z \in S, f[z] # 0
       PROVE  (\E x \in S : f[x] > 0) /\ (\E x \in S : f[x] < 0)
  <2>1. f[z] > 0 \/ f[z] < 0
    BY <1>9, <1>11
  <2>2. CASE f[z] > 0
    BY <1>8, <1>9, <1>11, <2>2
  <2>3. CASE f[z] < 0
    BY <1>8, <1>9, <1>11, <2>3
  <2>4. QED
    BY <2>1, <2>2, <2>3
<1>12. QED
  BY <1>1, <1>7, <1>10, <1>11 DEF S

\* Replicates that are all 0 do not exclude 0.
LEMMA ZerosExcludeNothing ==
  ASSUME NEW bag, IsBag(bag), DOMAIN bag \subseteq {0}
  PROVE  ~ExcludesZero(PercentileCI(bag, Alpha, Unit))
<1> DEFINE n == Replicates(bag)
           lo == Percentile(bag, Alpha, 2 * Unit)
           hi == Percentile(bag, 2 * Unit - Alpha, 2 * Unit)
<1>1. /\ Alpha \in Nat /\ 2 * Unit - Alpha \in Nat /\ 2 * Unit \in Nat \ {0}
      /\ Alpha <= 2 * Unit /\ 2 * Unit - Alpha <= 2 * Unit
  BY LevelAssumption
<1>2. CASE n = 0
  BY <1>2 DEF PercentileCI, ExcludesZero, NoInterval
<1>3. CASE n # 0
  <2>1. n \in Nat \ {0}
    BY <1>3, AtMostGrows
  <2>2. AtMost(bag, 0) = n /\ AtMost(bag, -1) = 0
    <3>1. {u \in DOMAIN bag : u <= 0} = DOMAIN bag /\ {u \in DOMAIN bag : u <= -1} = {}
      OBVIOUS
    <3>2. AtMost(bag, 0) = SumOver(bag, {u \in DOMAIN bag : u <= 0})
          /\ AtMost(bag, -1) = SumOver(bag, {u \in DOMAIN bag : u <= -1})
      BY Zenon DEF AtMost, SumOver, MapThenSumSet, MapThenFoldSet
    <3>3. n = SumOver(bag, DOMAIN bag)
      BY Zenon DEF Replicates, Total, SumOver, MapThenSumSet, MapThenFoldSet
    <3>4. SumOver(bag, {}) = 0
      <4>1. IsFiniteSet(DOMAIN bag) /\ \A x \in DOMAIN bag : bag[x] \in Int
        BY DEF IsBag
      <4>2. QED
        BY <4>1, SumTakes
    <3>5. QED
      BY <3>1, <3>2, <3>3, <3>4, Zenon
  <2>3. /\ lo \in Int /\ hi \in Int
        /\ lo > 0 => AtMost(bag, 0) <= PosAbove(n, Alpha, 2 * Unit)
        /\ hi < 0 => AtMost(bag, -1) > PosBelow(n, 2 * Unit - Alpha, 2 * Unit)
    BY <1>1, <2>1, PercentileSign
  <2>4. PosAbove(n, Alpha, 2 * Unit) \in 0 .. n - 1 /\ PosBelow(n, 2 * Unit - Alpha, 2 * Unit) \in 0 .. n - 1
    <3> HIDE DEF n
    <3>1. QED
      BY <1>1, <2>1, Positions
  <2>5. PercentileCI(bag, Alpha, Unit) = [finite |-> TRUE, lo |-> lo, hi |-> hi]
    <3>1. ~(Replicates(bag) = 0)
      BY <1>3
    <3>2. QED
      BY <3>1, Zenon DEF PercentileCI
  <2> HIDE DEF lo, hi, n
  <2>6. ~(lo > 0) /\ ~(hi < 0)
    BY <2>1, <2>2, <2>3, <2>4
  <2>7. QED
    BY <2>5, <2>6 DEF ExcludesZero
<1>4. QED
  BY <1>2, <1>3

\* How many of the vectors counted in `before` one more draw i from d takes to the position s.
ReachedFrom(before, d, s, width) ==
  [i \in DOMAIN d |-> IF s - d[i] \in 1 .. width THEN before[s - d[i]] ELSE 0]

\* g counts draw by draw.
CountedBy(g, d, bound, last) ==
  /\ g[0] = [s \in 1 .. 2 * bound + 1 |-> IF s = bound + 1 THEN 1 ELSE 0]
  /\ \A k \in 0 .. last : g[k] \in [1 .. 2 * bound + 1 -> Nat]
  /\ \A k \in 1 .. last : \A s \in 1 .. 2 * bound + 1 :
       g[k][s] = Total(ReachedFrom(g[k - 1], d, s, 2 * bound + 1))

\* The replicates of a bootstrap are counted draw by draw.
LEMMA DrawByDraw ==
  ASSUME NEW d, IsFiniteSet(DOMAIN d), \A i \in DOMAIN d : d[i] \in Int, NEW bound \in Nat
  PROVE  /\ Cardinality(DOMAIN d) \in Nat
         /\ \E g : /\ CountedBy(g, d, bound, Cardinality(DOMAIN d))
                   /\ DrawCounts(d, bound) = g[Cardinality(DOMAIN d)]
<1> DEFINE width == 2 * bound + 1
           last == Cardinality(DOMAIN d)
           at(counts, s) == IF s \in 1 .. width THEN counts[s] ELSE 0
           first == [s \in 1 .. width |-> IF s = bound + 1 THEN 1 ELSE 0]
           ways(before, s) == [i \in DOMAIN d |-> at(before, s - d[i])]
           counted(before) == [s \in 1 .. width |-> Total(ways(before, s))]
           next(before) == SubSeq(counted(before), 1, width)
           step(g) == [k \in 0 .. last |-> IF k = 0 THEN first ELSE next(g[k - 1])]
           drawn == CHOOSE g : g = step(g)
           X == [1 .. width -> Nat]
           onward == [p \in X \X (Nat \ {0}) |-> next(p[1])]
<1>1. DrawCounts(d, bound) = drawn[last]
  BY Zenon DEF DrawCounts
<1>2. last \in Nat /\ width \in Nat
  BY FS_CardinalityType
<1>3. first \in X
  OBVIOUS
<1>4. ASSUME NEW before \in X
      PROVE  /\ next(before) \in X
             /\ \A s \in 1 .. width : next(before)[s] = Total(ways(before, s))
  <2>1. \A s \in 1 .. width : \A i \in DOMAIN d : ways(before, s)[i] \in Nat
    OBVIOUS
  <2>2. ASSUME NEW s \in 1 .. width PROVE Total(ways(before, s)) \in Nat
    <3> DEFINE w == ways(before, s)
    <3>1. DOMAIN w = DOMAIN d /\ \A i \in DOMAIN d : w[i] \in Nat
      OBVIOUS
    <3> HIDE DEF w
    <3>2. Total(w) = SumOver(w, DOMAIN d)
      BY <3>1, Zenon DEF Total, SumOver, MapThenSumSet, MapThenFoldSet
    <3>3. \A T \in SUBSET (DOMAIN d) : SumOver(w, T) \in Nat
      BY <3>1, SumOfNat
    <3>4. Total(w) \in Nat
      BY <3>2, <3>3
    <3>5. QED
      BY <3>4 DEF w
  <2> HIDE DEF ways
  <2>3. counted(before) \in [1 .. width -> Nat] /\ \A s \in 1 .. width : counted(before)[s] = Total(ways(before, s))
    BY <2>2
  <2> HIDE DEF counted, width
  <2>4. next(before) = counted(before)
    BY <1>2, <2>3
  <2>5. QED
    BY <2>3, <2>4
<1>5. \A before \in X : \A n \in Nat \ {0} : onward[<<before, n>>] = next(before)
  <2> HIDE DEF X, next
  <2>1. QED
    BY Zenon
<1> HIDE DEF X, first, next, onward, width, last
<1>6. StaysIn(onward, X, last)
  <2>1. \A n \in 1 .. last : n \in Nat \ {0}
    BY <1>2
  <2>2. QED
    BY <1>4, <1>5, <2>1, Zenon DEF StaysIn
<1>7. PICK h : Recursion(h, X, last, first, onward)
  BY <1>2, <1>3, <1>6, RecursionExists
<1>8. \A k \in 0 .. last : h[k] \in X
  BY <1>7 DEF Recursion
<1>9. \A k \in 1 .. last : k - 1 \in 0 .. last /\ h[k] = next(h[k - 1])
  <2> TAKE k \in 1 .. last
  <2>1. k - 1 \in 0 .. last /\ k \in Nat \ {0}
    BY <1>2
  <2>2. h[k] = onward[<<h[k - 1], k>>]
    BY <1>7 DEF Recursion
  <2>3. QED
    BY <1>5, <1>8, <2>1, <2>2
<1>10. h = step(h)
  <2>1. h = [k \in 0 .. last |-> h[k]]
    BY <1>7 DEF Recursion
  <2>2. h[0] = first
    BY <1>7 DEF Recursion
  <2>3. \A k \in 0 .. last : k = 0 \/ k \in 1 .. last
    BY <1>2
  <2>4. ASSUME NEW k \in 0 .. last PROVE h[k] = IF k = 0 THEN first ELSE next(h[k - 1])
    BY <1>9, <2>2, <2>3
  <2>5. QED
    BY <2>1, <2>4
<1>11. drawn = step(drawn)
  <2> HIDE DEF step
  <2>1. QED
    BY <1>10
<1> HIDE DEF drawn
<1>12. /\ drawn[0] = first
       /\ \A k \in 1 .. last : drawn[k] = next(drawn[k - 1])
  <2>1. /\ step(drawn)[0] = first
        /\ \A k \in 1 .. last : step(drawn)[k] = next(drawn[k - 1])
    BY <1>2
  <2> HIDE DEF step
  <2>2. QED
    BY <1>11, <2>1
<1> DEFINE Q == {m \in Nat : m <= last => drawn[m] \in X}
<1>13. 0 \in Q
  BY <1>3, <1>12
<1>14. ASSUME NEW m \in Q PROVE m + 1 \in Q
  <2>1. m + 1 <= last => drawn[m + 1] = next(drawn[m]) /\ drawn[m] \in X
    BY <1>2, <1>12
  <2>2. QED
    BY <1>4, <2>1
<1>15. Q = Nat
  <2>1. Q \in SUBSET Nat
    OBVIOUS
  <2> HIDE DEF Q
  <2>2. QED
    BY <1>13, <1>14, <2>1, NatSetInduction
<1>16. \A k \in 0 .. last : drawn[k] \in X
  BY <1>2, <1>15
<1>17. ASSUME NEW k \in 1 .. last, NEW s \in 1 .. width
       PROVE  drawn[k][s] = Total(ReachedFrom(drawn[k - 1], d, s, width))
  <2>1. k - 1 \in 0 .. last
    BY <1>2
  <2>2. drawn[k][s] = Total(ways(drawn[k - 1], s))
    BY <1>4, <1>12, <1>16, <2>1
  <2>3. ways(drawn[k - 1], s) = ReachedFrom(drawn[k - 1], d, s, width)
    BY DEF ReachedFrom
  <2>4. QED
    BY <2>2, <2>3
<1>18. CountedBy(drawn, d, bound, last)
  BY <1>12, <1>16, <1>17 DEF CountedBy, X, first, width
<1>19. QED
  BY <1>1, <1>2, <1>18 DEF last

\* Every sum has a number of draws, and when all that is drawn from is 0 no sum but 0 has
\* any.
LEMMA DrawsAreCounted ==
  ASSUME NEW d, IsFiniteSet(DOMAIN d), \A i \in DOMAIN d : d[i] \in Int, NEW bound \in Nat
  PROVE  /\ DrawCounts(d, bound) \in [1 .. 2 * bound + 1 -> Nat]
         /\ (\A i \in DOMAIN d : d[i] = 0) =>
              \A s \in 1 .. 2 * bound + 1 : s # bound + 1 => DrawCounts(d, bound)[s] = 0
<1> DEFINE width == 2 * bound + 1
           last == Cardinality(DOMAIN d)
           zero(counts) == \A s \in 1 .. width : s # bound + 1 => counts[s] = 0
<1>1. PICK g : CountedBy(g, d, bound, last) /\ DrawCounts(d, bound) = g[last]
  BY DrawByDraw
<1>2. last \in Nat /\ width \in Nat
  BY FS_CardinalityType
<1> HIDE DEF last
<1>3. DrawCounts(d, bound) \in [1 .. width -> Nat]
  BY <1>1, <1>2 DEF CountedBy
<1>4. ASSUME \A i \in DOMAIN d : d[i] = 0 PROVE zero(g[last])
  <2> DEFINE Q == {m \in Nat : m <= last => zero(g[m])}
  <2>1. 0 \in Q
    BY <1>1 DEF CountedBy
  <2>2. ASSUME NEW m \in Q PROVE m + 1 \in Q
    <3> SUFFICES ASSUME m + 1 <= last, NEW s \in 1 .. width, s # bound + 1 PROVE g[m + 1][s] = 0
      OBVIOUS
    <3> DEFINE w == ReachedFrom(g[m], d, s, width)
    <3>1. m + 1 \in 1 .. last /\ zero(g[m]) /\ m + 1 - 1 = m
      BY <1>2
    <3>2. g[m + 1][s] = Total(w)
      BY <1>1, <3>1 DEF CountedBy
    <3>3. DOMAIN w = DOMAIN d /\ \A i \in DOMAIN d : w[i] = 0
      <4>1. DOMAIN w = DOMAIN d
        BY DEF ReachedFrom
      <4>2. ASSUME NEW i \in DOMAIN d PROVE w[i] = 0
        <5>1. s - d[i] = s /\ g[m][s] = 0
          BY <1>2, <1>4, <3>1
        <5>2. QED
          BY <5>1 DEF ReachedFrom
      <4>3. QED
        BY <4>1, <4>2
    <3> HIDE DEF w
    <3>4. Total(w) = SumOver(w, DOMAIN d)
      BY <3>3, Zenon DEF Total, SumOver, MapThenSumSet, MapThenFoldSet
    <3>5. SumOver(w, DOMAIN d) \in Nat /\ (SumOver(w, DOMAIN d) > 0 => \E i \in DOMAIN d : w[i] > 0)
      BY <3>3, SumOfNat
    <3>6. QED
      BY <3>2, <3>3, <3>4, <3>5
  <2>3. Q = Nat
    <3>1. Q \in SUBSET Nat
      OBVIOUS
    <3> HIDE DEF Q
    <3>2. QED
      BY <2>1, <2>2, <3>1, NatSetInduction
  <2>4. QED
    BY <1>2, <2>3
<1>5. QED
  BY <1>1, <1>3, <1>4

\* The differences of a cell whose interval excludes 0 are not all 0.
LEMMA ExcludedHasADifference ==
  ASSUME NEW d, IsFiniteSet(DOMAIN d), \A i \in DOMAIN d : d[i] \in Int,
         ExcludesZero(PairedBootstrap(d, Alpha, Unit, Bound).ci)
  PROVE  \E i \in DOMAIN d : d[i] # 0
<1> SUFFICES ASSUME \A i \in DOMAIN d : d[i] = 0 PROVE FALSE
  OBVIOUS
<1> DEFINE counts == DrawCounts(d, Bound)
           bag == ReplicateBag(d, Bound)
<1>1. Bound \in Nat
  BY GateAssumption
<1>2. /\ counts \in [1 .. 2 * Bound + 1 -> Nat]
      /\ \A s \in 1 .. 2 * Bound + 1 : s # Bound + 1 => counts[s] = 0
  BY <1>1, DrawsAreCounted
<1>3. bag = [v \in {v \in -Bound .. Bound : counts[v + Bound + 1] > 0} |-> counts[v + Bound + 1]]
  BY Zenon DEF ReplicateBag
<1> HIDE DEF counts, bag
<1>4. DOMAIN bag \subseteq {0}
  <2>1. \A v \in -Bound .. Bound : v + Bound + 1 \in 1 .. 2 * Bound + 1 /\ (v # 0 => v + Bound + 1 # Bound + 1)
    BY <1>1
  <2>2. \A v \in DOMAIN bag : v \in -Bound .. Bound /\ counts[v + Bound + 1] > 0
    BY <1>3
  <2>3. QED
    BY <1>2, <2>1, <2>2
<1>5. \A v \in DOMAIN bag : v \in Int /\ bag[v] \in Nat
  <2>1. \A v \in -Bound .. Bound : v \in Int /\ v + Bound + 1 \in 1 .. 2 * Bound + 1
    BY <1>1
  <2>2. \A v \in DOMAIN bag : v \in -Bound .. Bound /\ bag[v] = counts[v + Bound + 1]
    BY <1>3
  <2>3. QED
    BY <1>2, <2>1, <2>2
<1>6. IsBag(bag)
  <2>1. IsFiniteSet(DOMAIN bag)
    BY <1>4, FS_Singleton, FS_Subset
  <2>2. QED
    BY <1>5, <2>1 DEF IsBag
<1>7. ~ExcludesZero(PercentileCI(bag, Alpha, Unit))
  BY <1>4, <1>6, ZerosExcludeNothing
<1>8. ~ExcludesZero(NoInterval)
  BY DEF ExcludesZero, NoInterval
<1>9. \A x, y : [ci |-> x, p |-> y].ci = x
  OBVIOUS
<1>10. \/ PairedBootstrap(d, Alpha, Unit, Bound).ci = NoInterval
       \/ PairedBootstrap(d, Alpha, Unit, Bound).ci = PercentileCI(bag, Alpha, Unit)
  BY <1>9, Zenon DEF PairedBootstrap, bag
<1>11. QED
  BY <1>7, <1>8, <1>10, Zenon

-----------------------------------------------------------------------------
(* What a verdict rests on.                                                *)

\* The paired differences of a metric in a scope.
Differences(scope, metric) ==
  [s \in PairedValues(args.base, args.cand, metric, scope.ids) |->
     The(args.cand[s][metric]) - The(args.base[s][metric])]

\* A cell is of a scope and a metric of the call, and was measured on their differences.
IsMeasured(c) ==
  /\ {"scope", "metric", "delta", "ci", "p", "verdict"} \subseteq DOMAIN c
  /\ c.metric \in Asked
  /\ \E k \in DOMAIN Scopes :
       /\ c.scope = Scopes[k].name
       /\ c.p # {} =>
            /\ c.delta = Total(Differences(Scopes[k], c.metric))
            /\ c.ci = PairedBootstrap(Differences(Scopes[k], c.metric), Alpha, Unit, Bound).ci

\* A cell that is not inconclusive was tested, excludes 0 and is judged by its sign.
Justified(c) ==
  c.verdict # "inconclusive" =>
    c.p # {} /\ ExcludesZero(c.ci) /\ c.verdict = IF Worse(c) THEN "regression" ELSE "improvement"

\* What the verdicts rest on: the cells of this comparison as they were measured, without
\* a verdict until they are decided.
VerdictInv ==
  /\ args \in [base : Baselines, cand : Candidates, metrics : MetricLists, job : Jobs,
               settings : Settings]
  /\ pc \in {"decide", "delete", "insert"} => Comparable /\ \A n \in DOMAIN cells : IsMeasured(cells[n])
  /\ pc = "decide" => \A n \in DOMAIN cells : cells[n].verdict = "inconclusive"
  /\ Judged => \A n \in DOMAIN cells : Justified(cells[n])

\* One cell is measured on the differences of its scope and metric.
LEMMA CellMeasures ==
  ASSUME NEW k \in DOMAIN Scopes, NEW metric \in Asked
  PROVE  LET c == Cell(args.base, args.cand, Scopes[k], metric)
         IN IsMeasured(c) /\ c.verdict = "inconclusive"
<1> DEFINE scope == Scopes[k]
           c == Cell(args.base, args.cand, scope, metric)
           d == Differences(scope, metric)
           boot == PairedBootstrap(d, Alpha, Unit, Bound)
           ids == PairedValues(args.base, args.cand, metric, scope.ids)
           size == Cardinality(ids)
           ways == Cardinality([ids -> ids])
           fields == {"scope", "metric", "delta", "ci", "p", "verdict"}
<1>1. \A s, m, n, e, i, p, v : LET r == [scope |-> s, metric |-> m, n |-> n, delta |-> e, ci |-> i,
                                         p |-> p, verdict |-> v]
                               IN /\ fields \subseteq DOMAIN r
                                  /\ r.scope = s /\ r.metric = m /\ r.delta = e /\ r.ci = i
                                  /\ r.p = p /\ r.verdict = v
  OBVIOUS
<1> HIDE DEF fields
<1>2. \/ c = ThinCell(scope.name, metric, size)
      \/ c = [scope |-> scope.name, metric |-> metric, n |-> size, delta |-> Total(d), ci |-> boot.ci,
              p |-> {boot.p * (Unit \div ways)}, verdict |-> "inconclusive"]
  BY Zenon DEF Cell, Differences
<1> HIDE DEF c, d, boot, size, ways, ids
<1>3. /\ fields \subseteq DOMAIN c /\ c.scope = scope.name /\ c.metric = metric
      /\ c.verdict = "inconclusive"
      /\ c.p = {} \/ (c.delta = Total(d) /\ c.ci = boot.ci)
  <2>1. CASE c = ThinCell(scope.name, metric, size)
    <3>1. c = [scope |-> scope.name, metric |-> metric, n |-> size, delta |-> 0, ci |-> NoInterval,
               p |-> {}, verdict |-> "inconclusive"]
      BY <2>1, Zenon DEF ThinCell
    <3>2. QED
      BY <1>1, <3>1
  <2>2. CASE c = [scope |-> scope.name, metric |-> metric, n |-> size, delta |-> Total(d), ci |-> boot.ci,
                  p |-> {boot.p * (Unit \div ways)}, verdict |-> "inconclusive"]
    <3>1. PICK p : p = {boot.p * (Unit \div ways)}
      OBVIOUS
    <3>2. c = [scope |-> scope.name, metric |-> metric, n |-> size, delta |-> Total(d), ci |-> boot.ci,
               p |-> p, verdict |-> "inconclusive"]
      BY <2>2, <3>1, Zenon
    <3>3. QED
      BY <1>1, <3>2
  <2>3. QED
    BY <1>2, <2>1, <2>2
<1>4. IsMeasured(c)
  BY <1>3, Zenon DEF IsMeasured, fields, d, boot
<1>5. QED
  BY <1>3, <1>4 DEF c

\* The comparison measures its cells.
LEMMA CompareMeasures ==
  ASSUME VerdictInv, Compare
  PROVE  \A n \in DOMAIN cells' : IsMeasured(cells'[n]) /\ cells'[n].verdict = "inconclusive"
<1> DEFINE L == Len(args.metrics)
           S == Len(Scopes)
           at(n) == Cell(args.base, args.cand, Scopes[GridRow(n, L)], args.metrics[GridColumn(n, L)])
<1>1. L \in Nat \ {0} /\ S \in Nat \ {0} /\ DOMAIN Scopes = 1 .. S /\ DOMAIN args.metrics = 1 .. L
  BY Arguments DEF VerdictInv
<1>2. cells' = [n \in 1 .. S * L |-> at(n)]
  <2>1. cells' = CellsOf(args.base, args.cand, Scopes, args.metrics)
    BY DEF Compare
  <2>2. S * L \in Nat
    BY <1>1
  <2>3. IsGrid(cells', args.base, args.cand, Scopes, args.metrics)
    BY <2>1, <2>2, CellsAre
  <2>4. QED
    BY <2>3 DEF IsGrid
<1>3. ASSUME NEW n \in 1 .. S * L PROVE IsMeasured(at(n)) /\ at(n).verdict = "inconclusive"
  <2>1. GridRow(n, L) \in DOMAIN Scopes /\ GridColumn(n, L) \in DOMAIN args.metrics
    <3> HIDE DEF L, S
    <3>1. GridRow(n, L) \in 1 .. S /\ GridColumn(n, L) \in 1 .. L
      BY <1>1, GridPlaces DEF GridRow, GridColumn
    <3>2. QED
      BY <1>1, <3>1
  <2>2. args.metrics[GridColumn(n, L)] \in Asked
    BY <2>1 DEF Asked
  <2>3. QED
    BY <2>1, <2>2, CellMeasures
<1> HIDE DEF at, S, L
<1>4. QED
  BY <1>2, <1>3

\* What a verdict says of its cell.
LEMMA VerdictSays ==
  ASSUME NEW c, NEW q
  PROVE  \/ Verdict(c, q) = "inconclusive"
         \/ /\ ExcludesZero(c.ci)
            /\ Verdict(c, q) = IF Worse(c) THEN "regression" ELSE "improvement"
<1> DEFINE good == args.settings.correction = "bh" => Clears(q, Alpha)
<1>1. CASE ~ExcludesZero(c.ci)
  BY <1>1 DEF Verdict
<1>2. CASE ExcludesZero(c.ci) /\ ~good
  BY <1>2 DEF Verdict
<1>3. CASE ExcludesZero(c.ci) /\ good
  <2> DEFINE size == IF c.delta < 0 THEN -c.delta ELSE c.delta
  <2>1. Verdict(c, q) = IF 100 * size < args.settings.min_effect * c.n THEN "inconclusive"
                        ELSE IF Worse(c) THEN "regression" ELSE "improvement"
    BY <1>3, Zenon DEF Verdict
  <2>2. QED
    BY <1>3, <2>1, Zenon
<1>4. QED
  BY <1>1, <1>2, <1>3

\* Deciding leaves what was measured.
LEMMA DecideJustifies ==
  ASSUME \A n \in DOMAIN cells : IsMeasured(cells[n]) /\ cells[n].verdict = "inconclusive", Decide
  PROVE  \A n \in DOMAIN cells' : IsMeasured(cells'[n]) /\ Justified(cells'[n])
<1>1. cells' = Decided(cells) /\ DOMAIN cells' = DOMAIN cells
  BY DEF Decide, Decided
<1>2. \A n \in DOMAIN cells :
        \/ cells'[n] = cells[n]
        \/ \E q : cells[n].p # {} /\ cells'[n] = [cells[n] EXCEPT !.verdict = Verdict(cells[n], q)]
  BY <1>1, Zenon DEF Decided
<1>3. ASSUME NEW n \in DOMAIN cells PROVE IsMeasured(cells'[n]) /\ Justified(cells'[n])
  <2> DEFINE c == cells[n]
             e == cells'[n]
  <2>1. CASE e = c
    BY <2>1 DEF Justified
  <2>2. CASE \E q : c.p # {} /\ e = [c EXCEPT !.verdict = Verdict(c, q)]
    <3>1. PICK q : c.p # {} /\ e = [c EXCEPT !.verdict = Verdict(c, q)]
      BY <2>2
    <3>2. IsMeasured(c)
      OBVIOUS
    <3> HIDE DEF c, e
    <3>3. PICK v : v = Verdict(c, q)
      OBVIOUS
    <3>4. {"scope", "metric", "delta", "ci", "p", "verdict"} \subseteq DOMAIN c
      BY <3>2 DEF IsMeasured
    <3>5. /\ DOMAIN e = DOMAIN c /\ e.verdict = v
          /\ e.scope = c.scope /\ e.metric = c.metric /\ e.delta = c.delta /\ e.ci = c.ci /\ e.p = c.p
      BY <3>1, <3>3, <3>4
    <3>6. IsMeasured(e)
      BY <3>2, <3>5, Zenon DEF IsMeasured
    <3>7. Worse(e) <=> Worse(c)
      BY <3>5, Zenon DEF Worse
    <3>8. v = "inconclusive" \/ (ExcludesZero(c.ci) /\ v = IF Worse(c) THEN "regression" ELSE "improvement")
      BY <3>3, VerdictSays
    <3>9. Justified(e)
      BY <3>1, <3>5, <3>7, <3>8, Zenon DEF Justified
    <3>10. QED
      BY <3>6, <3>9 DEF e
  <2>3. QED
    BY <1>2, <2>1, <2>2
<1>4. QED
  BY <1>1, <1>3

\* No step changes what a cell is or was measured on but through cells.
LEMMA VerdictInvNext == VerdictInv /\ [GateNext]_gateVars => VerdictInv'
<1> SUFFICES ASSUME VerdictInv, [GateNext]_gateVars PROVE VerdictInv'
  OBVIOUS
<1>1. args' = args
  BY DEF GateNext, gateVars, NoClasses, UnknownColumn, NotComparable, Compare, Decide, Delete, Insert,
         InsertRefused, Finish, GateRestart, StartedAgain, End
<1>2. /\ Comparable => Comparable'
      /\ \A c : IsMeasured(c) => IsMeasured(c)'
      /\ \A c : Justified(c) => Justified(c)'
  <2>1. Scopes' = Scopes /\ Asked' = Asked
    BY <1>1 DEF Scopes, Asked, Paired
  <2>2. \A scope, metric : (Differences(scope, metric))' = Differences(scope, metric)
    BY <1>1 DEF Differences, PairedValues, Paired, The
  <2>3. Comparable => Comparable'
    BY <1>1, <2>1 DEF Comparable, Paired
  <2>4. ASSUME NEW c, IsMeasured(c) PROVE IsMeasured(c)'
    BY <2>1, <2>2, <2>4, Zenon DEF IsMeasured
  <2>5. ASSUME NEW c, Justified(c) PROVE Justified(c)'
    BY <2>5 DEF Justified, Worse
  <2>6. QED
    BY <2>3, <2>4, <2>5
<1>3. CASE pc' \notin {"decide", "delete", "insert"}
  BY <1>1, <1>3 DEF VerdictInv, Judged
<1>4. CASE Compare
  <2>1. pc' = "decide" /\ Comparable
    BY <1>4 DEF Compare
  <2>2. \A n \in DOMAIN cells' : IsMeasured(cells'[n]) /\ cells'[n].verdict = "inconclusive"
    BY <1>4, CompareMeasures
  <2>3. \A n \in DOMAIN cells' : (IsMeasured(cells[n]))'
    BY <1>2, <2>2
  <2>4. QED
    BY <1>1, <1>2, <2>1, <2>2, <2>3 DEF VerdictInv, Judged
<1>5. CASE Decide
  <2>1. pc = "decide" /\ pc' \in {"delete", "insert"}
    BY <1>5 DEF Decide
  <2>2. \A n \in DOMAIN cells' : IsMeasured(cells'[n]) /\ Justified(cells'[n])
    BY <1>5, <2>1, DecideJustifies DEF VerdictInv
  <2>3. \A n \in DOMAIN cells' : (IsMeasured(cells[n]))' /\ (Justified(cells[n]))'
    BY <1>2, <2>2
  <2>4. QED
    BY <1>1, <1>2, <2>1, <2>3 DEF VerdictInv, Judged
<1>6. CASE Delete \/ Insert \/ UNCHANGED gateVars
  <2>1. cells' = cells /\ (pc' = pc \/ (pc = "delete" /\ pc' = "insert"))
    BY <1>6 DEF Delete, Insert, gateVars
  <2>2. \A n \in DOMAIN cells : IsMeasured(cells[n]) => (IsMeasured(cells[n]))'
    BY <1>2, <2>1
  <2>3. \A n \in DOMAIN cells : Justified(cells[n]) => (Justified(cells[n]))'
    BY <1>2, <2>1
  <2>4. QED
    BY <1>1, <1>2, <2>1, <2>2, <2>3 DEF VerdictInv, Judged
<1>7. CASE NoClasses \/ UnknownColumn \/ NotComparable \/ InsertRefused \/ Finish \/ GateRestart
  BY <1>3, <1>7 DEF NoClasses, UnknownColumn, NotComparable, InsertRefused, Finish, GateRestart, StartedAgain, End
<1>8. QED
  BY <1>4, <1>5, <1>6, <1>7 DEF GateNext

\* Every verdict of the gate has a witness among the scenarios of its cell, for all runs,
\* metrics, scopes and levels: the sum of the differences decides the side, and an interval
\* that excludes 0 is not one of differences that are all 0.
THEOREM GateVerdictHasAWitness == GateSpec => []VerdictHasAWitness
<1>1. GateInit => VerdictInv
  BY DEF GateInit, VerdictInv, Judged
<1>2. VerdictInv => VerdictHasAWitness
  <2> SUFFICES ASSUME VerdictInv, Judged, NEW n \in DOMAIN cells
               PROVE  LET c == cells[n]
                          gain(s) == Direction[c.metric]
                                       * (The(args.cand[s][c.metric]) - The(args.base[s][c.metric]))
                          ids == PairedValues(args.base, args.cand, c.metric, ScopeOf(c).ids)
                      IN /\ c.verdict = "regression"  => \E s \in ids : gain(s) < 0
                         /\ c.verdict = "improvement" => \E s \in ids : gain(s) > 0
    BY DEF VerdictHasAWitness
  <2> DEFINE c == cells[n]
             d == Differences(ScopeOf(c), c.metric)
             ids == PairedValues(args.base, args.cand, c.metric, ScopeOf(c).ids)
             w == Direction[c.metric]
  <2>1. Comparable /\ IsMeasured(c) /\ Justified(c)
    BY DEF VerdictInv, Judged
  <2> HIDE DEF c
  <2>2. PICK k \in DOMAIN Scopes :
          /\ c.scope = Scopes[k].name
          /\ c.p # {} => /\ c.delta = Total(Differences(Scopes[k], c.metric))
                         /\ c.ci = PairedBootstrap(Differences(Scopes[k], c.metric), Alpha, Unit, Bound).ci
    BY <2>1 DEF IsMeasured
  <2>3. ScopeOf(c) = Scopes[k]
    <3> DEFINE all == {Scopes[i] : i \in DOMAIN Scopes}
    <3>1. \A s \in all : s.name = c.scope => s = Scopes[k]
      BY <2>1, <2>2 DEF Comparable
    <3>2. Scopes[k] \in all /\ Scopes[k].name = c.scope
      BY <2>2
    <3> HIDE DEF all
    <3>3. (CHOOSE s \in all : s.name = c.scope) = Scopes[k]
      BY <3>1, <3>2
    <3>4. QED
      BY <3>3 DEF ScopeOf, all
  <2>4. c.p # {} => c.delta = Total(d) /\ c.ci = PairedBootstrap(d, Alpha, Unit, Bound).ci
    BY <2>2, <2>3, Zenon
  <2>5. /\ DOMAIN d = ids
        /\ \A s \in ids : d[s] = The(args.cand[s][c.metric]) - The(args.base[s][c.metric])
    BY DEF Differences
  <2>6. c.metric \in Columns /\ w \in {-1, 1}
    BY <2>1, GateAssumption DEF Comparable, IsMeasured
  <2>7. args.base \in Baselines /\ args.cand \in Candidates
    BY DEF VerdictInv
  <2>8. IsFiniteSet(ids)
    <3>1. ids \subseteq DOMAIN args.base
      BY DEF PairedValues, Paired
    <3>2. IsFiniteSet(DOMAIN args.base)
      BY <2>7, GateAssumption
    <3>3. QED
      BY <3>1, <3>2, FS_Subset
  <2>9. \A s \in ids : d[s] \in Int
    <3> SUFFICES ASSUME NEW s \in ids PROVE d[s] \in Int
      OBVIOUS
    <3>1. /\ s \in DOMAIN args.base /\ s \in DOMAIN args.cand
          /\ args.base[s][c.metric] # {} /\ args.cand[s][c.metric] # {}
      BY DEF PairedValues, Paired
    <3>2. args.base[s][c.metric] \subseteq Int /\ args.cand[s][c.metric] \subseteq Int
      BY <2>6, <2>7, <3>1, GateAssumption
    <3>3. The(args.base[s][c.metric]) \in Int /\ The(args.cand[s][c.metric]) \in Int
      BY <3>1, <3>2 DEF The
    <3>4. QED
      BY <2>5, <3>3
  <2> HIDE DEF ids, d, w
  <2>10. /\ Total(d) \in Int
         /\ Total(d) > 0 => \E s \in ids : d[s] > 0
         /\ Total(d) < 0 => \E s \in ids : d[s] < 0
         /\ Total(d) = 0 /\ (\E s \in ids : d[s] # 0) =>
              (\E s \in ids : d[s] > 0) /\ (\E s \in ids : d[s] < 0)
    BY <2>5, <2>8, <2>9, SumHasAWitness
  <2>11. ASSUME ExcludesZero(c.ci), c.p # {} PROVE \E s \in ids : d[s] # 0
    BY <2>4, <2>5, <2>8, <2>9, <2>11, ExcludedHasADifference
  <2>12. c.p # {} => (Worse(c) <=> IF w > 0 THEN Total(d) < 0 ELSE Total(d) > 0)
    BY <2>4 DEF Worse, w
  <2>13. /\ c.verdict = "regression" => \E s \in ids : w * d[s] < 0
         /\ c.verdict = "improvement" => \E s \in ids : w * d[s] > 0
    <3>1. c.verdict = "regression" => c.p # {} /\ ExcludesZero(c.ci) /\ Worse(c)
      BY <2>1 DEF Justified
    <3>2. c.verdict = "improvement" => c.p # {} /\ ExcludesZero(c.ci) /\ ~Worse(c)
      BY <2>1 DEF Justified
    <3>3. CASE w = 1
      <4>1. \A s \in ids : w * d[s] = d[s]
        BY <2>9, <3>3
      <4>2. c.verdict = "regression" => \E s \in ids : d[s] < 0
        BY <2>10, <2>12, <3>1, <3>3
      <4>3. c.verdict = "improvement" => \E s \in ids : d[s] > 0
        BY <2>10, <2>11, <2>12, <3>2, <3>3
      <4>4. QED
        BY <4>1, <4>2, <4>3
    <3>4. CASE w = -1
      <4>1. \A s \in ids : w * d[s] = -d[s] /\ d[s] \in Int
        BY <2>9, <3>4
      <4>2. c.verdict = "regression" => \E s \in ids : d[s] > 0
        BY <2>10, <2>12, <3>1, <3>4
      <4>3. c.verdict = "improvement" => \E s \in ids : d[s] < 0
        BY <2>10, <2>11, <2>12, <3>2, <3>4
      <4>4. QED
        BY <4>1, <4>2, <4>3
    <3>5. QED
      BY <2>6, <3>3, <3>4
  <2>14. QED
    BY <2>5, <2>13 DEF c, ids, w
<1>3. QED
  BY <1>1, <1>2, VerdictInvNext, PTL DEF GateSpec

-----------------------------------------------------------------------------
(* The gate: the family a cell is judged in.                               *)

\* The cells that are tested, and their p-values.
Family(cs) == {n \in DOMAIN cs : cs[n].p # {}}
PsIn(cs)   == [n \in DOMAIN cs |-> The(cs[n].p)]

\* What a cell becomes: untested it is left, tested it is judged by a q-value that clears the
\* level when its p-value survives the correction over the family.
DecidedAs(cs, n, e) ==
  /\ cs[n].p = {} => e = cs[n]
  /\ cs[n].p # {} =>
       \E q : /\ e = [cs[n] EXCEPT !.verdict = Verdict(cs[n], q)]
              /\ Clears(q, Alpha) <=> Survives(PsIn(cs), Family(cs), The(cs[n].p))

\* The q-values of the family find their way back to its cells.
LEMMA DecidedIs ==
  ASSUME NEW M \in Nat, NEW cs, DOMAIN cs = 1 .. M,
         \A n \in 1 .. M : cs[n].p # {} => The(cs[n].p) \in Nat
  PROVE  DOMAIN Decided(cs) = 1 .. M /\ \A n \in 1 .. M : DecidedAs(cs, n, Decided(cs)[n])
<1> DEFINE F == Family(cs)
           size == Cardinality(F)
           order == Arranged(F, <)
           ps == [k \in DOMAIN order |-> The(cs[order[k]].p)]
           q == QValues(ps, Unit)
           place(n) == CHOOSE k \in DOMAIN order : order[k] = n
<1>1. Decided(cs) = [n \in DOMAIN cs |-> IF n \in F THEN [cs[n] EXCEPT !.verdict = Verdict(cs[n], q[place(n)])]
                                         ELSE cs[n]]
  BY Zenon DEF Decided, Family
<1>2. /\ F \in SUBSET Int /\ F \in SUBSET (1 .. M) /\ \A n \in F : The(cs[n].p) \in Nat
      /\ \A n \in 1 .. M : n \in F <=> cs[n].p # {}
  BY DEF Family
<1>3. IsFiniteSet(F)
  <2>1. IsFiniteSet(1 .. M)
    BY FS_Interval
  <2>2. QED
    BY <1>2, <2>1, FS_Subset
<1> HIDE DEF F
<1>4. PICK g : g = order
  OBVIOUS
<1>5. /\ size \in Nat /\ g \in [1 .. size -> F]
      /\ \A x \in F : \E n \in 1 .. size : g[n] = x
      /\ \A m, n \in 1 .. size : m < n => g[m] < g[n]
  BY <1>2, <1>3, <1>4, NumbersArranged, Zenon
<1>6. PICK p : p = ps
  OBVIOUS
<1>7. p = [k \in 1 .. size |-> The(cs[g[k]].p)]
  <2>1. DOMAIN g = 1 .. size
    BY <1>5
  <2>2. p = [k \in DOMAIN g |-> The(cs[g[k]].p)]
    BY <1>4, <1>6, Zenon
  <2>3. QED
    BY <2>1, <2>2
<1>8. p \in Seq(Nat) /\ DOMAIN p = 1 .. size
  <2>1. p \in [1 .. size -> Nat]
    BY <1>2, <1>5, <1>7
  <2>2. QED
    BY <1>5, <2>1
<1>9. SamePs(g, 1 .. size, p, F, PsIn(cs))
  <2>1. \A k, l \in 1 .. size : g[k] = g[l] => k = l
    <3>1. \A k \in 1 .. size : g[k] \in Int
      BY <1>2, <1>5
    <3>2. QED
      BY <1>5, <3>1
  <2>2. \A k \in 1 .. size : p[k] = PsIn(cs)[g[k]]
    BY <1>2, <1>5, <1>7 DEF PsIn
  <2>3. QED
    BY <1>5, <2>1, <2>2 DEF SamePs
<1>10. IsFiniteSet(1 .. size)
  BY <1>5, FS_Interval
<1> HIDE DEF ps, size
<1>11. ASSUME NEW n \in F
       PROVE  Clears(q[place(n)], Alpha) <=> Survives(PsIn(cs), F, The(cs[n].p))
  <2>1. place(n) = CHOOSE k \in DOMAIN g : g[k] = n
    BY <1>4, Zenon
  <2>2. PICK k : k = place(n)
    OBVIOUS
  <2>3. k \in 1 .. size /\ g[k] = n
    <3>1. DOMAIN g = 1 .. size
      BY <1>5
    <3>2. \E x \in DOMAIN g : g[x] = n
      BY <1>5, <3>1
    <3>3. QED
      BY <2>1, <2>2, <3>1, <3>2
  <2>4. p[k] = The(cs[n].p)
    BY <1>7, <2>3
  <2>5. Clears(QValues(p, Unit)[k], Alpha) <=> Survives(p, 1 .. size, p[k])
    BY <1>8, <2>3, ClearsIsSurviving
  <2>6. Survives(p, 1 .. size, p[k]) <=> Survives(PsIn(cs), F, p[k])
    BY <1>9, <1>10, SurvivesSame
  <2>7. q[place(n)] = QValues(p, Unit)[k]
    BY <1>6, <2>2, Zenon
  <2> HIDE DEF q, place
  <2>8. QED
    BY <2>4, <2>5, <2>6, <2>7
<1> HIDE DEF q, place
<1>12. DOMAIN Decided(cs) = 1 .. M
  BY <1>1
<1>13. ASSUME NEW n \in 1 .. M PROVE DecidedAs(cs, n, Decided(cs)[n])
  <2>1. CASE n \in F
    <3>1. Decided(cs)[n] = [cs[n] EXCEPT !.verdict = Verdict(cs[n], q[place(n)])]
      BY <1>1, <2>1
    <3>2. QED
      BY <1>2, <1>11, <2>1, <3>1, Zenon DEF DecidedAs, F
  <2>2. CASE n \notin F
    BY <1>1, <1>2, <2>2 DEF DecidedAs
  <2>3. QED
    BY <2>1, <2>2
<1>14. QED
  BY <1>12, <1>13

\* Of the q-value a verdict takes only whether it clears the level.
LEMMA VerdictByLevel ==
  ASSUME NEW c, NEW q, NEW r, Clears(q, Alpha) <=> Clears(r, Alpha)
  PROVE  Verdict(c, q) = Verdict(c, r)
BY DEF Verdict

-----------------------------------------------------------------------------
(* The gate: the runs of a comparison exchanged.                           *)

\* The replicates of a bootstrap are a bag, and their p-value is a number of them.
LEMMA ReplicatesAreABag ==
  ASSUME NEW d, IsFiniteSet(DOMAIN d), \A i \in DOMAIN d : d[i] \in Int, NEW bound \in Nat
  PROVE  IsBag(ReplicateBag(d, bound)) /\ TwoSidedP(ReplicateBag(d, bound)) \in Nat
<1> DEFINE counts == DrawCounts(d, bound)
           bag == ReplicateBag(d, bound)
<1>1. counts \in [1 .. 2 * bound + 1 -> Nat]
  BY DrawsAreCounted
<1>2. bag = [v \in {v \in -bound .. bound : counts[v + bound + 1] > 0} |-> counts[v + bound + 1]]
  BY Zenon DEF ReplicateBag
<1> HIDE DEF counts, bag
<1>3. \A v \in -bound .. bound : v \in Int /\ v + bound + 1 \in 1 .. 2 * bound + 1
  OBVIOUS
<1>4. \A v \in DOMAIN bag : v \in -bound .. bound /\ bag[v] = counts[v + bound + 1]
  BY <1>2
<1>5. \A v \in DOMAIN bag : v \in Int /\ bag[v] \in Nat
  BY <1>1, <1>3, <1>4
<1>6. IsFiniteSet(DOMAIN bag)
  <2>1. -bound \in Int /\ bound \in Int /\ DOMAIN bag \in SUBSET (-bound .. bound)
    BY <1>4
  <2>2. IsFiniteSet(-bound .. bound)
    BY <2>1, FS_Interval
  <2>3. QED
    BY <2>1, <2>2, FS_Subset
<1>7. IsBag(bag)
  BY <1>5, <1>6 DEF IsBag
<1>8. TwoSidedP(bag) \in Nat
  <2>1. /\ Replicates(bag) \in Nat /\ AtMost(bag, 0) \in Nat
        /\ AtMost(bag, -1) \in Nat /\ AtMost(bag, -1) <= Replicates(bag)
    BY <1>7, AtMostGrows
  <2>2. PICK n \in Nat, a \in Nat, b \in Nat : n = Replicates(bag) /\ a = AtMost(bag, 0) /\ b = AtMost(bag, -1) /\ b <= n
    BY <2>1
  <2> DEFINE twice == 2 * (IF a < n - b THEN a ELSE n - b)
  <2>3. TwoSidedP(bag) = IF twice = 0 THEN 1 ELSE IF twice > n THEN n ELSE twice
    BY <2>2 DEF TwoSidedP
  <2>4. twice \in Nat
    BY <2>2
  <2> HIDE DEF twice
  <2>5. QED
    BY <2>3, <2>4
<1>9. QED
  BY <1>7, <1>8 DEF bag

\* The differences of the exchanged runs.
Opposite(e, d) == DOMAIN e = DOMAIN d /\ \A i \in DOMAIN d : e[i] = -d[i]

\* They are drawn as often, and to the opposite sum.
LEMMA DrawsMirror ==
  ASSUME NEW d, IsFiniteSet(DOMAIN d), \A i \in DOMAIN d : d[i] \in Int, NEW bound \in Nat,
         NEW e, Opposite(e, d)
  PROVE  \A s \in 1 .. 2 * bound + 1 :
           DrawCounts(e, bound)[s] = DrawCounts(d, bound)[2 * bound + 2 - s]
<1> DEFINE width == 2 * bound + 1
           last == Cardinality(DOMAIN d)
           mirrored(x, y) == \A s \in 1 .. width : x[s] = y[2 * bound + 2 - s]
<1>1. PICK g : CountedBy(g, d, bound, last) /\ DrawCounts(d, bound) = g[last]
  BY DrawByDraw
<1>2. /\ DOMAIN e = DOMAIN d /\ \A i \in DOMAIN d : e[i] = -d[i]
      /\ \A i \in DOMAIN e : e[i] \in Int
  BY DEF Opposite
<1>3. PICK h : CountedBy(h, e, bound, last) /\ DrawCounts(e, bound) = h[last]
  BY <1>2, DrawByDraw
<1>4. last \in Nat /\ width \in Nat
  BY FS_CardinalityType
<1>5. \A s \in 1 .. width : 2 * bound + 2 - s \in 1 .. width /\ (s = bound + 1 <=> 2 * bound + 2 - s = bound + 1)
  OBVIOUS
<1> HIDE DEF last
<1> DEFINE Q == {m \in Nat : m <= last => mirrored(h[m], g[m])}
<1>6. 0 \in Q
  <2>1. /\ g[0] = [s \in 1 .. width |-> IF s = bound + 1 THEN 1 ELSE 0]
        /\ h[0] = [s \in 1 .. width |-> IF s = bound + 1 THEN 1 ELSE 0]
    BY <1>1, <1>3 DEF CountedBy
  <2>2. QED
    BY <1>5, <2>1
<1>7. ASSUME NEW m \in Q PROVE m + 1 \in Q
  <2> SUFFICES ASSUME m + 1 <= last, NEW s \in 1 .. width
               PROVE  h[m + 1][s] = g[m + 1][2 * bound + 2 - s]
    OBVIOUS
  <2>1. m + 1 \in 1 .. last /\ m + 1 - 1 = m /\ mirrored(h[m], g[m])
    BY <1>4
  <2>2. PICK t \in 1 .. width : t = 2 * bound + 2 - s
    BY <1>5
  <2>3. /\ h[m + 1][s] = Total(ReachedFrom(h[m], e, s, width))
        /\ g[m + 1][t] = Total(ReachedFrom(g[m], d, t, width))
    BY <1>1, <1>3, <2>1 DEF CountedBy
  <2>4. ASSUME NEW i \in DOMAIN d
        PROVE  /\ s - e[i] \in 1 .. width <=> t - d[i] \in 1 .. width
               /\ s - e[i] \in 1 .. width => h[m][s - e[i]] = g[m][t - d[i]]
    <3>1. PICK x \in Int : x = d[i] /\ s - e[i] = s + x
      BY <1>2
    <3>2. s + x \in 1 .. width <=> t - x \in 1 .. width
      BY <2>2
    <3>3. 2 * bound + 2 - (s + x) = t - x
      BY <2>2
    <3>4. QED
      BY <2>1, <3>1, <3>2, <3>3
  <2>5. ReachedFrom(h[m], e, s, width) = ReachedFrom(g[m], d, t, width)
    BY <1>2, <2>4 DEF ReachedFrom
  <2>6. QED
    BY <2>2, <2>3, <2>5
<1>8. Q = Nat
  <2>1. Q \in SUBSET Nat
    OBVIOUS
  <2> HIDE DEF Q
  <2>2. QED
    BY <1>6, <1>7, <2>1, NatSetInduction
<1>9. mirrored(h[last], g[last])
  BY <1>4, <1>8
<1>10. QED
  BY <1>1, <1>3, <1>9

LEMMA ReplicatesMirror ==
  ASSUME NEW d, IsFiniteSet(DOMAIN d), \A i \in DOMAIN d : d[i] \in Int, NEW bound \in Nat,
         NEW e, Opposite(e, d)
  PROVE  Mirrors(ReplicateBag(e, bound), ReplicateBag(d, bound)) /\ Total(e) = -Total(d)
<1>1. PICK x, y : x = DrawCounts(d, bound) /\ y = DrawCounts(e, bound)
  OBVIOUS
<1>2. PICK f, g : f = ReplicateBag(d, bound) /\ g = ReplicateBag(e, bound)
  OBVIOUS
<1>3. \A s \in 1 .. 2 * bound + 1 : y[s] = x[2 * bound + 2 - s]
  BY <1>1, DrawsMirror
<1>4. /\ f = [v \in {v \in -bound .. bound : x[v + bound + 1] > 0} |-> x[v + bound + 1]]
      /\ g = [v \in {v \in -bound .. bound : y[v + bound + 1] > 0} |-> y[v + bound + 1]]
  BY <1>1, <1>2, Zenon DEF ReplicateBag
<1>5. ASSUME NEW v \in -bound .. bound
      PROVE  -v \in -bound .. bound /\ v = -(-v) /\ y[-v + bound + 1] = x[v + bound + 1]
  <2>1. -v \in -bound .. bound /\ v = -(-v)
    OBVIOUS
  <2>2. -v + bound + 1 \in 1 .. 2 * bound + 1 /\ 2 * bound + 2 - (-v + bound + 1) = v + bound + 1
    OBVIOUS
  <2>3. QED
    BY <1>3, <2>1, <2>2
<1>6. DOMAIN g = {-v : v \in DOMAIN f} /\ \A v \in DOMAIN f : g[-v] = f[v]
  <2>1. /\ \A v : v \in DOMAIN f <=> v \in -bound .. bound /\ x[v + bound + 1] > 0
        /\ \A v : v \in DOMAIN g <=> v \in -bound .. bound /\ y[v + bound + 1] > 0
        /\ \A v \in DOMAIN f : f[v] = x[v + bound + 1]
        /\ \A v \in DOMAIN g : g[v] = y[v + bound + 1]
    BY <1>4
  <2>2. ASSUME NEW v \in DOMAIN f PROVE -v \in DOMAIN g /\ g[-v] = f[v]
    BY <1>5, <2>1
  <2>3. ASSUME NEW w \in DOMAIN g PROVE \E v \in DOMAIN f : w = -v
    <3>1. w \in -bound .. bound
      BY <2>1
    <3>2. PICK v \in -bound .. bound : v = -w /\ -v = w
      BY <1>5, <3>1
    <3>3. v \in DOMAIN f
      BY <1>5, <2>1, <3>2
    <3>4. QED
      BY <3>2, <3>3
  <2>4. QED
    BY <2>2, <2>3
<1>7. Total(e) = -Total(d)
  <2>1. DOMAIN e = DOMAIN d /\ \A i \in DOMAIN d : d[i] \in Int /\ e[i] \in Int /\ e[i] = -1 * d[i]
    BY DEF Opposite
  <2>2. Total(e) = SumOver(e, DOMAIN d) /\ Total(d) = SumOver(d, DOMAIN d)
    BY <2>1, Zenon DEF Total, SumOver, MapThenSumSet, MapThenFoldSet
  <2>3. PICK m \in Int : m = -1
    OBVIOUS
  <2>4. \A i \in DOMAIN d : m * d[i] <= e[i] /\ e[i] <= m * d[i]
    BY <2>1, <2>3
  <2>5. m * SumOver(d, DOMAIN d) <= SumOver(e, DOMAIN d) /\ SumOver(e, DOMAIN d) <= m * SumOver(d, DOMAIN d)
    BY <2>1, <2>4, SumScaled
  <2>6. SumOver(d, DOMAIN d) \in Int /\ SumOver(e, DOMAIN d) \in Int
    BY <2>1, SumTakes
  <2>7. QED
    BY <2>2, <2>3, <2>5, <2>6
<1>8. QED
  BY <1>2, <1>6, <1>7 DEF Mirrors

\* Neither the interval nor the p-value favours a side.
LEMMA BootstrapMirrors ==
  ASSUME NEW d, IsFiniteSet(DOMAIN d), \A i \in DOMAIN d : d[i] \in Int, NEW e, Opposite(e, d)
  PROVE  /\ PairedBootstrap(e, Alpha, Unit, Bound).p = PairedBootstrap(d, Alpha, Unit, Bound).p
         /\ ExcludesZero(PairedBootstrap(e, Alpha, Unit, Bound).ci)
              <=> ExcludesZero(PairedBootstrap(d, Alpha, Unit, Bound).ci)
         /\ Total(e) = -Total(d)
<1>1. Bound \in Nat
  BY GateAssumption
<1>2. PICK f, g : f = ReplicateBag(d, Bound) /\ g = ReplicateBag(e, Bound)
  OBVIOUS
<1>3. IsBag(f) /\ Mirrors(g, f) /\ Total(e) = -Total(d)
  BY <1>1, <1>2, ReplicatesAreABag, ReplicatesMirror
<1>4. /\ TwoSidedP(g) = TwoSidedP(f)
      /\ ExcludesZero(PercentileCI(g, Alpha, Unit)) <=> ExcludesZero(PercentileCI(f, Alpha, Unit))
  <2>1. CASE PercentileCI(f, Alpha, Unit) = NoInterval
    BY <1>3, <2>1, IntervalMirrors
  <2>2. CASE PercentileCI(f, Alpha, Unit) # NoInterval
    <3>1. PICK lo, hi \in Int : /\ PercentileCI(f, Alpha, Unit) = [finite |-> TRUE, lo |-> lo, hi |-> hi]
                                /\ PercentileCI(g, Alpha, Unit) = [finite |-> TRUE, lo |-> -hi, hi |-> -lo]
      BY <1>3, <2>2, IntervalMirrors
    <3>2. TwoSidedP(g) = TwoSidedP(f)
      BY <1>3, IntervalMirrors
    <3>3. QED
      BY <3>1, <3>2 DEF ExcludesZero
  <2>3. QED
    BY <2>1, <2>2
<1>5. DOMAIN e = DOMAIN d
  BY DEF Opposite
<1>6. \A x, y : [ci |-> x, p |-> y].ci = x /\ [ci |-> x, p |-> y].p = y
  OBVIOUS
<1>7. \A b : /\ PairedBootstrap(b, Alpha, Unit, Bound).p = TwoSidedP(ReplicateBag(b, Bound))
             /\ PairedBootstrap(b, Alpha, Unit, Bound).ci
                  = IF Cardinality(DOMAIN b) < MinClusters THEN NoInterval
                    ELSE PercentileCI(ReplicateBag(b, Bound), Alpha, Unit)
  BY <1>6, Zenon DEF PairedBootstrap
<1>8. QED
  BY <1>2, <1>3, <1>4, <1>5, <1>7

IsRun(run) == IsFiniteSet(DOMAIN run) /\ \A s \in DOMAIN run, m \in Columns : run[s][m] \subseteq Int

\* The paired differences of a metric over the scenarios ids.
Difference(base, cand, metric, ids) ==
  [s \in PairedValues(base, cand, metric, ids) |-> The(cand[s][metric]) - The(base[s][metric])]

\* What is in a cell, thin or measured.
CellSays(c, name, metric, d) ==
  LET boot == PairedBootstrap(d, Alpha, Unit, Bound) IN
  /\ {"scope", "metric", "n", "delta", "ci", "p", "verdict"} \subseteq DOMAIN c
  /\ c.scope = name /\ c.metric = metric /\ c.verdict = "inconclusive"
  /\ c.n = Cardinality(DOMAIN d)
  /\ Cardinality(DOMAIN d) < MinPairedForAVerdict => c.p = {} /\ c.delta = 0 /\ c.ci = NoInterval
  /\ ~(Cardinality(DOMAIN d) < MinPairedForAVerdict) =>
       /\ c.p = {boot.p * (Unit \div Cardinality([DOMAIN d -> DOMAIN d]))}
       /\ c.delta = Total(d) /\ c.ci = boot.ci

LEMMA CellIs ==
  ASSUME NEW base, NEW cand, NEW scope, NEW metric
  PROVE  CellSays(Cell(base, cand, scope, metric), scope.name, metric,
                  Difference(base, cand, metric, scope.ids))
<1> DEFINE c == Cell(base, cand, scope, metric)
           ids == PairedValues(base, cand, metric, scope.ids)
           d == Difference(base, cand, metric, scope.ids)
           boot == PairedBootstrap(d, Alpha, Unit, Bound)
           size == Cardinality(ids)
           tested == {boot.p * (Unit \div Cardinality([ids -> ids]))}
           fields == {"scope", "metric", "n", "delta", "ci", "p", "verdict"}
<1>1. \A s, m, n, e, i, p, v : LET r == [scope |-> s, metric |-> m, n |-> n, delta |-> e, ci |-> i,
                                         p |-> p, verdict |-> v]
                               IN /\ fields \subseteq DOMAIN r
                                  /\ r.scope = s /\ r.metric = m /\ r.n = n /\ r.delta = e /\ r.ci = i
                                  /\ r.p = p /\ r.verdict = v
  OBVIOUS
<1>2. DOMAIN d = ids
  BY DEF Difference
<1> HIDE DEF fields
<1>3. c = IF size < MinPairedForAVerdict
          THEN [scope |-> scope.name, metric |-> metric, n |-> size, delta |-> 0, ci |-> NoInterval, p |-> {},
                verdict |-> "inconclusive"]
          ELSE [scope |-> scope.name, metric |-> metric, n |-> size, delta |-> Total(d), ci |-> boot.ci,
                p |-> tested, verdict |-> "inconclusive"]
  BY Zenon DEF Cell, ThinCell, Difference
<1> HIDE DEF c, d, boot, size, ids, tested
<1>4. /\ fields \subseteq DOMAIN c /\ c.scope = scope.name /\ c.metric = metric
      /\ c.verdict = "inconclusive" /\ c.n = size
      /\ size < MinPairedForAVerdict => c.p = {} /\ c.delta = 0 /\ c.ci = NoInterval
      /\ ~(size < MinPairedForAVerdict) => c.p = tested /\ c.delta = Total(d) /\ c.ci = boot.ci
  <2>1. CASE size < MinPairedForAVerdict
    BY <1>1, <1>3, <2>1
  <2>2. CASE ~(size < MinPairedForAVerdict)
    BY <1>1, <1>3, <2>2
  <2>3. QED
    BY <2>1, <2>2
<1>5. CellSays(c, scope.name, metric, d)
  BY <1>2, <1>4, Zenon DEF CellSays, fields, tested, size, boot
<1>6. QED
  BY <1>5 DEF c, d

\* The differences of two runs are finitely many numbers, and those of the exchanged runs
\* are their opposites.
LEMMA DifferencesAre ==
  ASSUME NEW base, NEW cand, IsRun(base), IsRun(cand), NEW metric \in Columns, NEW ids
  PROVE  /\ IsFiniteSet(DOMAIN Difference(base, cand, metric, ids))
         /\ DOMAIN Difference(base, cand, metric, ids) = PairedValues(base, cand, metric, ids)
         /\ \A s \in DOMAIN Difference(base, cand, metric, ids) : Difference(base, cand, metric, ids)[s] \in Int
         /\ Opposite(Difference(cand, base, metric, ids), Difference(base, cand, metric, ids))
<1> DEFINE S == PairedValues(base, cand, metric, ids)
           d == Difference(base, cand, metric, ids)
           e == Difference(cand, base, metric, ids)
<1>1. PairedValues(cand, base, metric, ids) = S
  BY DEF PairedValues, Paired
<1>2. /\ DOMAIN d = S /\ \A s \in S : d[s] = The(cand[s][metric]) - The(base[s][metric])
      /\ DOMAIN e = S /\ \A s \in S : e[s] = The(base[s][metric]) - The(cand[s][metric])
  BY <1>1 DEF Difference
<1>3. S \in SUBSET DOMAIN base /\ S \in SUBSET DOMAIN cand
      /\ \A s \in S : base[s][metric] # {} /\ cand[s][metric] # {}
  BY DEF PairedValues, Paired
<1>4. IsFiniteSet(S)
  <2>1. IsFiniteSet(DOMAIN base)
    BY DEF IsRun
  <2>2. QED
    BY <1>3, <2>1, FS_Subset
<1>5. \A s \in S : The(base[s][metric]) \in Int /\ The(cand[s][metric]) \in Int
  <2> SUFFICES ASSUME NEW s \in S PROVE The(base[s][metric]) \in Int /\ The(cand[s][metric]) \in Int
    OBVIOUS
  <2>1. base[s][metric] \subseteq Int /\ cand[s][metric] \subseteq Int
    BY <1>3 DEF IsRun
  <2>2. QED
    BY <1>3, <2>1 DEF The
<1> HIDE DEF S, d, e
<1>6. \A s \in S : d[s] \in Int /\ e[s] = -d[s]
  BY <1>2, <1>5
<1>7. Opposite(e, d)
  BY <1>2, <1>6 DEF Opposite
<1>8. QED
  BY <1>2, <1>4, <1>6, <1>7 DEF S, d, e

\* A cell is tested when it is not thin, and its p-value is a natural number of units.
LEMMA TestedCell ==
  ASSUME NEW c, NEW name, NEW metric, NEW d, IsFiniteSet(DOMAIN d), \A i \in DOMAIN d : d[i] \in Int,
         CellSays(c, name, metric, d)
  PROVE  /\ c.p = {} <=> Cardinality(DOMAIN d) < MinPairedForAVerdict
         /\ c.p # {} => The(c.p) \in Nat
<1>1. PICK p : p = PairedBootstrap(d, Alpha, Unit, Bound).p
  OBVIOUS
<1>2. PICK u : u = Unit \div Cardinality([DOMAIN d -> DOMAIN d])
  OBVIOUS
<1>3. p \in Nat
  <2>1. Bound \in Nat
    BY GateAssumption
  <2>2. TwoSidedP(ReplicateBag(d, Bound)) \in Nat
    BY <2>1, ReplicatesAreABag
  <2>3. \A x, y : [ci |-> x, p |-> y].p = y
    OBVIOUS
  <2>4. p = TwoSidedP(ReplicateBag(d, Bound))
    BY <1>1, <2>3, Zenon DEF PairedBootstrap
  <2>5. QED
    BY <2>2, <2>4
<1>4. u \in Nat
  <2>1. PICK n \in Nat \ {0} : n = Cardinality([DOMAIN d -> DOMAIN d])
    BY DrawsFinite
  <2>2. u = Unit \div n /\ Unit \in Nat
    BY <1>2, <2>1, LevelAssumption
  <2>3. \A a \in Nat, b \in Nat \ {0} : a \div b \in Nat
    OBVIOUS
  <2>4. QED
    BY <2>2, <2>3
<1>5. /\ Cardinality(DOMAIN d) < MinPairedForAVerdict => c.p = {}
      /\ ~(Cardinality(DOMAIN d) < MinPairedForAVerdict) => c.p = {p * u}
  BY <1>1, <1>2, Zenon DEF CellSays
<1>6. p * u \in Nat
  BY <1>3, <1>4
<1>7. c.p = {p * u} => c.p # {} /\ The(c.p) = p * u
  BY DEF The
<1>8. QED
  BY <1>5, <1>6, <1>7

\* The cell of the exchanged runs.
CellMirrors(c, e) ==
  /\ e.p = c.p /\ e.n = c.n /\ e.metric = c.metric /\ e.scope = c.scope
  /\ c.delta \in Int /\ e.delta = -c.delta
  /\ ExcludesZero(e.ci) <=> ExcludesZero(c.ci)

LEMMA CellsMirror ==
  ASSUME NEW c, NEW f, NEW name, NEW metric, NEW d, NEW e,
         IsFiniteSet(DOMAIN d), \A i \in DOMAIN d : d[i] \in Int, Opposite(e, d),
         CellSays(c, name, metric, d), CellSays(f, name, metric, e)
  PROVE  CellMirrors(c, f)
<1>1. DOMAIN e = DOMAIN d
  BY DEF Opposite
<1>2. PICK bd, be : bd = PairedBootstrap(d, Alpha, Unit, Bound) /\ be = PairedBootstrap(e, Alpha, Unit, Bound)
  OBVIOUS
<1>3. be.p = bd.p /\ (ExcludesZero(be.ci) <=> ExcludesZero(bd.ci)) /\ Total(e) = -Total(d)
  BY <1>2, BootstrapMirrors
<1>4. Total(d) \in Int
  BY SumHasAWitness
<1>5. f.n = c.n /\ f.metric = c.metric /\ f.scope = c.scope
  BY <1>1, Zenon DEF CellSays
<1>6. CASE Cardinality(DOMAIN d) < MinPairedForAVerdict
  <2>1. /\ c.p = {} /\ c.delta = 0 /\ c.ci = NoInterval
        /\ f.p = {} /\ f.delta = 0 /\ f.ci = NoInterval
    BY <1>1, <1>6, Zenon DEF CellSays
  <2>2. \A x, y \in Int : x + y = 0 => y = -x
    OBVIOUS
  <2>3. c.delta \in Int /\ f.delta \in Int /\ c.delta + f.delta = 0
    BY <2>1
  <2>4. f.delta = -c.delta
    BY <2>1, <2>2, <2>3
  <2>5. QED
    BY <1>5, <2>1, <2>3, <2>4 DEF CellMirrors
<1>7. CASE ~(Cardinality(DOMAIN d) < MinPairedForAVerdict)
  <2>1. /\ c.p = {bd.p * (Unit \div Cardinality([DOMAIN d -> DOMAIN d]))} /\ c.delta = Total(d) /\ c.ci = bd.ci
        /\ f.p = {be.p * (Unit \div Cardinality([DOMAIN e -> DOMAIN e]))} /\ f.delta = Total(e) /\ f.ci = be.ci
    BY <1>1, <1>2, <1>7, Zenon DEF CellSays
  <2>2. f.p = c.p
    BY <1>1, <1>3, <2>1, Zenon
  <2>3. QED
    BY <1>3, <1>4, <1>5, <2>1, <2>2 DEF CellMirrors
<1>8. QED
  BY <1>6, <1>7

\* The verdicts on a difference and on its opposite.
Exchanged(delta, v, w) ==
  \/ v = "inconclusive" /\ w = "inconclusive"
  \/ v = w /\ delta = 0
  \/ v = "regression" /\ w = "improvement" /\ delta # 0
  \/ v = "improvement" /\ w = "regression" /\ delta # 0

LEMMA VerdictMirrors ==
  ASSUME NEW c, NEW e, CellMirrors(c, e), Direction[c.metric] \in {-1, 1},
         NEW q, NEW r, Clears(q, Alpha) <=> Clears(r, Alpha)
  PROVE  Exchanged(c.delta, Verdict(c, q), Verdict(e, r))
<1> DEFINE good == args.settings.correction = "bh" => Clears(q, Alpha)
           size(x) == IF x.delta < 0 THEN -x.delta ELSE x.delta
           small(x) == 100 * size(x) < args.settings.min_effect * x.n
<1>1. /\ e.n = c.n /\ e.metric = c.metric /\ c.delta \in Int /\ e.delta = -c.delta
      /\ ExcludesZero(e.ci) <=> ExcludesZero(c.ci)
  BY DEF CellMirrors
<1>2. CASE ~ExcludesZero(c.ci) \/ ~good
  <2>1. Verdict(c, q) = "inconclusive" /\ Verdict(e, r) = "inconclusive"
    BY <1>1, <1>2 DEF Verdict
  <2>2. QED
    BY <2>1 DEF Exchanged
<1>3. CASE ExcludesZero(c.ci) /\ good
  <2>1. Verdict(c, q) = IF small(c) THEN "inconclusive" ELSE IF Worse(c) THEN "regression" ELSE "improvement"
    BY <1>3, Zenon DEF Verdict
  <2>2. Verdict(e, r) = IF small(e) THEN "inconclusive" ELSE IF Worse(e) THEN "regression" ELSE "improvement"
    <3>1. ExcludesZero(e.ci) /\ (args.settings.correction = "bh" => Clears(r, Alpha))
      BY <1>1, <1>3
    <3>2. QED
      BY <3>1, Zenon DEF Verdict
  <2>3. size(e) = size(c)
    BY <1>1
  <2>4. small(e) <=> small(c)
    BY <1>1, <2>3
  <2>5. /\ c.delta # 0 => (Worse(e) <=> ~Worse(c))
        /\ c.delta = 0 => ~Worse(c) /\ ~Worse(e)
    BY <1>1 DEF Worse
  <2> HIDE DEF small
  <2>6. CASE small(c)
    BY <2>1, <2>2, <2>4, <2>6 DEF Exchanged
  <2>7. CASE ~small(c)
    BY <2>1, <2>2, <2>4, <2>5, <2>7 DEF Exchanged
  <2>8. QED
    BY <2>6, <2>7
<1>4. QED
  BY <1>2, <1>3

\* What is decided of cells that mirror each other mirrors each other.
LEMMA DecisionsMirror ==
  ASSUME NEW M \in Nat, NEW cs, NEW ms, DOMAIN cs = 1 .. M, DOMAIN ms = 1 .. M,
         \A n \in 1 .. M : /\ CellMirrors(cs[n], ms[n]) /\ Direction[cs[n].metric] \in {-1, 1}
                           /\ cs[n].p # {} => The(cs[n].p) \in Nat
                           /\ {"verdict", "delta"} \subseteq DOMAIN cs[n] /\ {"verdict"} \subseteq DOMAIN ms[n]
                           /\ cs[n].verdict = "inconclusive" /\ ms[n].verdict = "inconclusive"
  PROVE  \A n \in 1 .. M : Exchanged(Decided(cs)[n].delta, Decided(cs)[n].verdict, Decided(ms)[n].verdict)
<1>1. \A n \in 1 .. M : ms[n].p = cs[n].p /\ (ms[n].p # {} => The(ms[n].p) \in Nat)
  BY DEF CellMirrors
<1>2. Family(ms) = Family(cs) /\ PsIn(ms) = PsIn(cs)
  BY <1>1 DEF Family, PsIn
<1>3. \A n \in 1 .. M : DecidedAs(cs, n, Decided(cs)[n]) /\ DecidedAs(ms, n, Decided(ms)[n])
  BY <1>1, DecidedIs
<1>4. ASSUME NEW n \in 1 .. M PROVE Exchanged(Decided(cs)[n].delta, Decided(cs)[n].verdict, Decided(ms)[n].verdict)
  <2>1. PICK c, e, dc, de : c = cs[n] /\ e = ms[n] /\ dc = Decided(cs)[n] /\ de = Decided(ms)[n]
    OBVIOUS
  <2>2. /\ CellMirrors(c, e) /\ Direction[c.metric] \in {-1, 1}
        /\ {"verdict", "delta"} \subseteq DOMAIN c /\ {"verdict"} \subseteq DOMAIN e
        /\ c.verdict = "inconclusive" /\ e.verdict = "inconclusive"
        /\ e.p = c.p
    BY <1>1, <2>1
  <2>3. CASE c.p = {}
    <3>1. dc = c /\ de = e
      BY <1>3, <2>1, <2>2, <2>3, Zenon DEF DecidedAs
    <3>2. QED
      BY <2>1, <2>2, <3>1 DEF Exchanged
  <2>4. CASE c.p # {}
    <3>1. PICK q : /\ dc = [c EXCEPT !.verdict = Verdict(c, q)]
                   /\ Clears(q, Alpha) <=> Survives(PsIn(cs), Family(cs), The(c.p))
      BY <1>3, <2>1, <2>4, Zenon DEF DecidedAs
    <3>2. PICK r : /\ de = [e EXCEPT !.verdict = Verdict(e, r)]
                   /\ Clears(r, Alpha) <=> Survives(PsIn(ms), Family(ms), The(e.p))
      BY <1>3, <2>1, <2>2, <2>4, Zenon DEF DecidedAs
    <3>3. Clears(q, Alpha) <=> Clears(r, Alpha)
      BY <1>2, <2>2, <3>1, <3>2
    <3>4. PICK v, w : v = Verdict(c, q) /\ w = Verdict(e, r)
      OBVIOUS
    <3>5. dc.verdict = v /\ dc.delta = c.delta /\ de.verdict = w
      BY <2>2, <3>1, <3>2, <3>4
    <3>6. Exchanged(c.delta, v, w)
      BY <2>2, <3>3, <3>4, VerdictMirrors
    <3>7. QED
      BY <2>1, <3>5, <3>6
  <2>5. QED
    BY <2>3, <2>4
<1>5. QED
  BY <1>4

\* The cells of a comparison that can be made, as they are before and after they are decided.
CellsInv ==
  /\ pc = "decide" => cells = CellsOf(args.base, args.cand, Scopes, args.metrics)
  /\ pc = "delete" => \E cs : /\ cs = CellsOf(args.base, args.cand, Scopes, args.metrics)
                              /\ cells = Decided(cs)

LEMMA CellsInvInit == GateInit => CellsInv
  BY DEF GateInit, CellsInv

LEMMA CellsInvNext == CellsInv /\ [GateNext]_gateVars => CellsInv'
<1> SUFFICES ASSUME CellsInv, [GateNext]_gateVars PROVE CellsInv'
  OBVIOUS
<1>1. args' = args
  BY DEF GateNext, gateVars, NoClasses, UnknownColumn, NotComparable, Compare, Decide, Delete, Insert,
         InsertRefused, Finish, GateRestart, StartedAgain, End
<1>2. Scopes' = Scopes
  BY <1>1 DEF Scopes, Paired
<1>3. \A cs : (Decided(cs))' = Decided(cs)
  <2> TAKE cs
  <2>1. \A c, q : (Verdict(c, q))' = Verdict(c, q)
    BY <1>1 DEF Verdict, Worse
  <2> DEFINE family   == {n \in DOMAIN cs : cs[n].p # {}}
             order    == Arranged(family, <)
             q        == QValues([k \in DOMAIN order |-> The(cs[order[k]].p)], Unit)
             place(n) == CHOOSE k \in DOMAIN order : order[k] = n
             f == [n \in DOMAIN cs |->
                     IF n \in family THEN [cs[n] EXCEPT !.verdict = Verdict(cs[n], q[place(n)])] ELSE cs[n]]
  <2>2. Decided(cs) = f
    BY Zenon DEF Decided
  <2>3. (Decided(cs))' = f'
    BY Zenon DEF Decided
  <2>4. f' = f
    <3> HIDE DEF family, q, place
    <3>1. QED
      BY <2>1, Zenon
  <2>5. QED
    BY <2>2, <2>3, <2>4
<1>4. CASE Compare
  <2>1. cells' = CellsOf(args.base, args.cand, Scopes, args.metrics) /\ pc' = "decide"
    BY <1>4 DEF Compare
  <2>2. QED
    BY <1>1, <1>2, <2>1 DEF CellsInv
<1>5. CASE Decide
  <2>1. pc = "decide" /\ cells' = Decided(cells) /\ pc' # "decide"
    BY <1>5 DEF Decide
  <2>2. PICK cs : cs = CellsOf(args.base, args.cand, Scopes, args.metrics)
    OBVIOUS
  <2>3. cells' = (Decided(cs))'
    BY <1>3, <2>1, <2>2 DEF CellsInv
  <2>4. QED
    BY <1>1, <1>2, <2>1, <2>2, <2>3 DEF CellsInv
<1>6. CASE UNCHANGED gateVars
  <2>1. cells' = cells /\ pc' = pc
    BY <1>6 DEF gateVars
  <2>2. QED
    BY <1>1, <1>2, <1>3, <2>1 DEF CellsInv
<1>7. CASE ~(Compare \/ Decide \/ UNCHANGED gateVars)
  <2>1. pc' # "decide" /\ pc' # "delete"
    BY <1>7 DEF GateNext, NoClasses, UnknownColumn, NotComparable, Delete, Insert,
         InsertRefused, Finish, GateRestart, StartedAgain, End
  <2>2. QED
    BY <2>1 DEF CellsInv
<1>8. QED
  BY <1>4, <1>5, <1>6, <1>7

\* The call of a comparison that can be made.
Callable ==
  /\ args \in [base : Baselines, cand : Candidates, metrics : MetricLists, job : Jobs,
               settings : Settings]
  /\ Comparable

LEMMA RunsOfACall ==
  ASSUME Callable
  PROVE  /\ IsRun(args.base) /\ IsRun(args.cand)
         /\ \A k \in DOMAIN args.metrics : args.metrics[k] \in Columns
                                           /\ Direction[args.metrics[k]] \in {-1, 1}
<1>1. args.base \in Baselines /\ args.cand \in Candidates /\ Comparable
  BY DEF Callable
<1>2. \A k \in DOMAIN args.metrics : args.metrics[k] \in Asked
  BY DEF Asked
<1>3. Asked \subseteq Columns /\ Asked \subseteq DOMAIN Direction
  BY <1>1 DEF Comparable
<1>4. \A k \in DOMAIN args.metrics : args.metrics[k] \in Columns /\ Direction[args.metrics[k]] \in {-1, 1}
  BY <1>2, <1>3, GateAssumption
<1>5. IsRun(args.base) /\ IsRun(args.cand)
  BY <1>1, GateAssumption DEF IsRun
<1>6. QED
  BY <1>4, <1>5

\* Every cell of a grid is the one of its row and column.
InGrid(cs, base, cand, scopes, metrics) ==
  /\ DOMAIN cs = 1 .. Len(scopes) * Len(metrics)
  /\ \A n \in DOMAIN cs :
       /\ GridRow(n, Len(metrics)) \in 1 .. Len(scopes)
       /\ GridColumn(n, Len(metrics)) \in 1 .. Len(metrics)
       /\ cs[n] = Cell(base, cand, scopes[GridRow(n, Len(metrics))], metrics[GridColumn(n, Len(metrics))])

LEMMA GridIs ==
  ASSUME NEW base, NEW cand, NEW scopes, NEW metrics, Len(scopes) \in Nat, Len(metrics) \in Nat \ {0}
  PROVE  /\ Len(scopes) * Len(metrics) \in Nat
         /\ InGrid(CellsOf(base, cand, scopes, metrics), base, cand, scopes, metrics)
<1> DEFINE cs == CellsOf(base, cand, scopes, metrics)
           S == Len(scopes)
           L == Len(metrics)
           at(n) == Cell(base, cand, scopes[GridRow(n, L)], metrics[GridColumn(n, L)])
<1>1. S * L \in Nat
  OBVIOUS
<1>2. cs = [n \in 1 .. S * L |-> at(n)]
  BY <1>1, CellsAre DEF IsGrid
<1> HIDE DEF cs, at
<1>3. DOMAIN cs = 1 .. S * L /\ \A n \in 1 .. S * L : cs[n] = at(n)
  BY <1>2
<1>4. ASSUME NEW n \in 1 .. S * L PROVE GridRow(n, L) \in 1 .. S /\ GridColumn(n, L) \in 1 .. L
  <2> HIDE DEF S, L
  <2>1. S # 0
    <3>1. S = 0 => S * L = 0
      BY DEF L
    <3>2. QED
      BY <3>1
  <2>2. S \in Nat \ {0} /\ L \in Nat \ {0}
    BY <2>1 DEF S, L
  <2>3. QED
    BY <2>2, GridPlaces DEF GridRow, GridColumn
<1>5. QED
  BY <1>1, <1>3, <1>4, Zenon DEF InGrid, cs, at, S, L

\* The regression gate does not favour the run that is called the candidate: for all runs,
\* metrics, scopes and levels the exchanged comparison gives the exchanged verdicts.
THEOREM GateVerdictsMirror == GateSpec => []VerdictsMirror
<1>1. GateInit => VerdictInv
  BY DEF GateInit, VerdictInv, Judged
<1>2. VerdictInv /\ CellsInv => VerdictsMirror
  <2> SUFFICES ASSUME VerdictInv, CellsInv, pc = "delete" PROVE VerdictsMirror
    BY DEF VerdictsMirror
  <2> DEFINE S == Len(Scopes)
             L == Len(args.metrics)
             M == S * L
  <2>1. PICK cs : cs = CellsOf(args.base, args.cand, Scopes, args.metrics) /\ cells = Decided(cs)
    BY DEF CellsInv
  <2>2. PICK ms : ms = CellsOf(args.cand, args.base, Scopes, args.metrics)
    OBVIOUS
  <2>3. Callable
    BY DEF VerdictInv, Callable
  <2>4. S \in Nat /\ L \in Nat \ {0} /\ DOMAIN args.metrics = 1 .. L /\ DOMAIN Scopes = 1 .. S
    BY <2>3, Arguments DEF Callable
  <2>5. /\ M \in Nat
        /\ InGrid(cs, args.base, args.cand, Scopes, args.metrics)
        /\ InGrid(ms, args.cand, args.base, Scopes, args.metrics)
    BY <2>1, <2>2, <2>4, GridIs
  <2>6. DOMAIN cs = 1 .. M /\ DOMAIN ms = 1 .. M
    BY <2>5 DEF InGrid
  <2>7. ASSUME NEW n \in 1 .. M
        PROVE  /\ CellMirrors(cs[n], ms[n]) /\ Direction[cs[n].metric] \in {-1, 1}
               /\ cs[n].p # {} => The(cs[n].p) \in Nat
               /\ {"verdict", "delta"} \subseteq DOMAIN cs[n] /\ {"verdict"} \subseteq DOMAIN ms[n]
               /\ cs[n].verdict = "inconclusive" /\ ms[n].verdict = "inconclusive"
    <3>1. PICK k \in 1 .. L, s \in 1 .. S :
            /\ cs[n] = Cell(args.base, args.cand, Scopes[s], args.metrics[k])
            /\ ms[n] = Cell(args.cand, args.base, Scopes[s], args.metrics[k])
      BY <2>5, <2>6, Zenon DEF InGrid
    <3>2. PICK m, scope : m = args.metrics[k] /\ scope = Scopes[s]
      OBVIOUS
    <3>3. PICK d, e : /\ d = Difference(args.base, args.cand, m, scope.ids)
                      /\ e = Difference(args.cand, args.base, m, scope.ids)
      OBVIOUS
    <3>4. m \in Columns /\ Direction[m] \in {-1, 1} /\ IsRun(args.base) /\ IsRun(args.cand)
      BY <2>3, <2>4, <3>2, RunsOfACall
    <3>5. IsFiniteSet(DOMAIN d) /\ (\A i \in DOMAIN d : d[i] \in Int) /\ Opposite(e, d)
      BY <3>3, <3>4, DifferencesAre
    <3>6. CellSays(cs[n], scope.name, m, d) /\ CellSays(ms[n], scope.name, m, e)
      BY <3>1, <3>2, <3>3, CellIs
    <3>7. CellMirrors(cs[n], ms[n])
      BY <3>5, <3>6, CellsMirror
    <3>8. cs[n].p # {} => The(cs[n].p) \in Nat
      BY <3>5, <3>6, TestedCell
    <3>9. /\ {"scope", "metric", "n", "delta", "ci", "p", "verdict"} \subseteq DOMAIN cs[n]
          /\ {"scope", "metric", "n", "delta", "ci", "p", "verdict"} \subseteq DOMAIN ms[n]
          /\ cs[n].metric = m /\ cs[n].verdict = "inconclusive" /\ ms[n].verdict = "inconclusive"
      BY <3>6, Zenon DEF CellSays
    <3>10. QED
      BY <3>4, <3>7, <3>8, <3>9
  <2> HIDE DEF M, S, L
  <2>8. \A n \in 1 .. M : Exchanged(Decided(cs)[n].delta, Decided(cs)[n].verdict, Decided(ms)[n].verdict)
    BY <2>5, <2>6, <2>7, DecisionsMirror
  <2>9. DOMAIN cells = 1 .. M
    <3>1. \A n \in 1 .. M : cs[n].p # {} => The(cs[n].p) \in Nat
      BY <2>7
    <3>2. QED
      BY <2>1, <2>5, <2>6, <3>1, DecidedIs
  <2> DEFINE mirror(v) == CASE v = "regression"  -> "improvement"
                            [] v = "improvement" -> "regression"
                            [] OTHER             -> v
  <2>10. \A delta, v, w : Exchanged(delta, v, w) => w = IF delta = 0 THEN v ELSE mirror(v)
    BY DEF Exchanged
  <2> HIDE DEF mirror
  <2>11. \A i \in DOMAIN cells :
           Decided(ms)[i].verdict = IF cells[i].delta = 0 THEN cells[i].verdict ELSE mirror(cells[i].verdict)
    BY <2>1, <2>8, <2>9, <2>10
  <2>12. QED
    BY <2>2, <2>11, Zenon DEF VerdictsMirror, mirror
<1>3. QED
  BY <1>1, <1>2, VerdictInvNext, CellsInvInit, CellsInvNext, PTL DEF GateSpec

-----------------------------------------------------------------------------
(* The gate: the thin scopes left out.                                     *)

\* The position in row r and column k of a grid.
GridPosition(r, k, L) == (r - 1) * L + k

InRowAndColumn(n, r, k, S, L) == n \in 1 .. S * L /\ GridRow(n, L) = r /\ GridColumn(n, L) = k

LEMMA GridAt ==
  ASSUME NEW L \in Nat \ {0}, NEW S \in Nat, NEW r \in 1 .. S, NEW k \in 1 .. L
  PROVE  InRowAndColumn(GridPosition(r, k, L), r, k, S, L)
<1>0. PICK n : n = GridPosition(r, k, L) /\ n = (r - 1) * L + k
  BY DEF GridPosition
<1>1. PICK q \in Nat, m \in Nat, x \in 0 .. L - 1 : q = r - 1 /\ m = n - 1 /\ x = k - 1 /\ m = q * L + x
  <2>1. r - 1 \in Nat /\ k - 1 \in 0 .. L - 1 /\ (r - 1) * L \in Nat
    OBVIOUS
  <2>2. n - 1 \in Nat /\ n - 1 = (r - 1) * L + (k - 1)
    BY <1>0, <2>1
  <2>3. QED
    BY <2>1, <2>2
<1>2. (n - 1) \div L = r - 1 /\ (n - 1) % L = k - 1
  <2>1. L \in Nat \ {0} /\ q \in Nat /\ x \in 0 .. L - 1 /\ m = q * L + x
    BY <1>1
  <2>2. m \div L = q /\ m % L = x
    BY <2>1, DivUnique
  <2>3. QED
    BY <1>1, <2>2
<1>3. GridRow(n, L) = r /\ GridColumn(n, L) = k
  BY <1>1, <1>2 DEF GridRow, GridColumn
<1>4. n <= S * L
  <2>1. (r - 1) * L <= (S - 1) * L /\ (S - 1) * L + L = S * L
    OBVIOUS
  <2>2. (r - 1) * L \in Int /\ (S - 1) * L \in Int
    OBVIOUS
  <2>3. QED
    BY <1>0, <2>1, <2>2
<1>5. S * L \in Nat /\ n \in Nat \ {0}
  BY <1>0, <1>1
<1>6. QED
  BY <1>0, <1>3, <1>4, <1>5 DEF InRowAndColumn

\* A position is where its row and column say.
LEMMA GridBack ==
  ASSUME NEW L \in Nat \ {0}, NEW S \in Nat \ {0}, NEW n \in 1 .. S * L, NEW j \in 1 .. S * L,
         GridRow(n, L) = GridRow(j, L), GridColumn(n, L) = GridColumn(j, L)
  PROVE  n = j
BY GridPlaces DEF GridRow, GridColumn

\* The scopes that are thick, in their order.
KeptAs(g, T, thick, scopes, left) ==
  /\ T \in Nat /\ g \in [1 .. T -> thick]
  /\ \A k, l \in 1 .. T : g[k] = g[l] => k = l
  /\ \A r \in thick : \E k \in 1 .. T : g[k] = r
  /\ Len(left) = T /\ \A k \in 1 .. T : left[k] = scopes[g[k]]

LEMMA KeptScopes ==
  ASSUME NEW S \in Nat, NEW thick \in SUBSET (1 .. S), NEW scopes
  PROVE  \E g, T : KeptAs(g, T, thick, scopes, Selected(scopes, thick))
<1> DEFINE order == Arranged(thick, <)
           T == Cardinality(thick)
           left == Selected(scopes, thick)
<1>1. left = [n \in DOMAIN order |-> scopes[order[n]]]
  BY Zenon DEF Selected
<1>2. PICK g : g = order
  OBVIOUS
<1>3. IsFiniteSet(thick) /\ thick \in SUBSET Int /\ \A x \in thick : x \in Int
  <2>1. IsFiniteSet(1 .. S)
    BY FS_Interval
  <2>2. IsFiniteSet(thick)
    BY <2>1, FS_Subset
  <2>3. \A x \in thick : x \in Int
    OBVIOUS
  <2>4. QED
    BY <2>2, <2>3
<1>4. /\ T \in Nat /\ g \in [1 .. T -> thick]
      /\ \A x \in thick : \E n \in 1 .. T : g[n] = x
      /\ \A m, n \in 1 .. T : m < n => g[m] < g[n]
  BY <1>2, <1>3, NumbersArranged, Zenon
<1>5. left = [n \in DOMAIN g |-> scopes[g[n]]]
  BY <1>1, <1>2, Zenon
<1> HIDE DEF left, T
<1>6. left = [n \in 1 .. T |-> left[n]] /\ \A k \in 1 .. T : left[k] = scopes[g[k]]
  <2>1. DOMAIN g = 1 .. T
    BY <1>4
  <2>2. QED
    BY <1>5, <2>1
<1>7. Len(left) = T
  BY <1>4, <1>6, ItsOwnSequence
<1>8. \A k, l \in 1 .. T : g[k] = g[l] => k = l
  <2>1. \A k \in 1 .. T : g[k] \in thick /\ k \in Int
    BY <1>4
  <2>2. \A k \in 1 .. T : g[k] \in Int
    BY <1>3, <2>1
  <2>3. QED
    BY <1>4, <2>1, <2>2
<1>9. KeptAs(g, T, thick, scopes, left)
  BY <1>4, <1>6, <1>7, <1>8 DEF KeptAs
<1>10. QED
  BY <1>9 DEF left

\* With the scopes left out that have no cell to test, the family has the same p-values.
LEMMA FamilyStays ==
  ASSUME NEW L \in Nat \ {0}, NEW S \in Nat \ {0}, NEW base, NEW cand, NEW scopes, NEW metrics, NEW thick,
         Len(metrics) = L, Len(scopes) = S, thick \in SUBSET (1 .. S), NEW g, NEW T, NEW left,
         KeptAs(g, T, thick, scopes, left),
         NEW cs, NEW ws, InGrid(cs, base, cand, scopes, metrics), InGrid(ws, base, cand, left, metrics),
         \A n \in DOMAIN cs : cs[n].p # {} => GridRow(n, L) \in thick
  PROVE  \E h : SamePs(h, Family(ws), PsIn(ws), Family(cs), PsIn(cs))
<1> DEFINE to(j) == GridPosition(g[GridRow(j, L)], GridColumn(j, L), L)
           h == [j \in Family(ws) |-> to(j)]
<1>1. /\ T \in Nat /\ g \in [1 .. T -> thick] /\ \A k, l \in 1 .. T : g[k] = g[l] => k = l
      /\ \A r \in thick : \E k \in 1 .. T : g[k] = r
      /\ Len(left) = T /\ \A k \in 1 .. T : left[k] = scopes[g[k]]
  BY DEF KeptAs
<1>2. /\ DOMAIN cs = 1 .. S * L
      /\ \A n \in 1 .. S * L :
           /\ GridRow(n, L) \in 1 .. S /\ GridColumn(n, L) \in 1 .. L
           /\ cs[n] = Cell(base, cand, scopes[GridRow(n, L)], metrics[GridColumn(n, L)])
  BY DEF InGrid
<1>3. /\ DOMAIN ws = 1 .. T * L
      /\ \A n \in 1 .. T * L :
           /\ GridRow(n, L) \in 1 .. T /\ GridColumn(n, L) \in 1 .. L
           /\ ws[n] = Cell(base, cand, left[GridRow(n, L)], metrics[GridColumn(n, L)])
  BY <1>1 DEF InGrid
<1>4. ASSUME NEW j \in 1 .. T * L
      PROVE  /\ to(j) \in 1 .. S * L /\ GridRow(to(j), L) = g[GridRow(j, L)]
             /\ GridColumn(to(j), L) = GridColumn(j, L) /\ cs[to(j)] = ws[j]
  <2>1. PICK r \in 1 .. T, k \in 1 .. L : r = GridRow(j, L) /\ k = GridColumn(j, L)
    BY <1>3
  <2>2. g[r] \in 1 .. S
    BY <1>1
  <2>3. PICK n : n = GridPosition(g[r], k, L)
    OBVIOUS
  <2>4. n \in 1 .. S * L /\ GridRow(n, L) = g[r] /\ GridColumn(n, L) = k
    <3>1. InRowAndColumn(GridPosition(g[r], k, L), g[r], k, S, L)
      BY <2>2, GridAt
    <3>2. QED
      BY <2>3, <3>1 DEF InRowAndColumn
  <2>5. cs[n] = ws[j]
    BY <1>1, <1>2, <1>3, <2>1, <2>4
  <2>6. to(j) = n
    BY <2>1, <2>3
  <2>7. QED
    BY <2>1, <2>4, <2>5, <2>6
<1>5. \A j \in Family(ws) : j \in 1 .. T * L /\ ws[j].p # {}
  BY <1>3 DEF Family
<1>6. h \in [Family(ws) -> Family(cs)]
  <2>1. ASSUME NEW j \in Family(ws) PROVE to(j) \in Family(cs)
    BY <1>2, <1>4, <1>5 DEF Family
  <2> HIDE DEF to
  <2>2. QED
    BY <2>1
<1>7. \A j, k \in Family(ws) : h[j] = h[k] => j = k
  <2> SUFFICES ASSUME NEW j \in Family(ws), NEW k \in Family(ws), to(j) = to(k) PROVE j = k
    OBVIOUS
  <2>1. g[GridRow(j, L)] = g[GridRow(k, L)] /\ GridColumn(j, L) = GridColumn(k, L)
    <3> HIDE DEF to
    <3>1. QED
      BY <1>4, <1>5
  <2>2. GridRow(j, L) = GridRow(k, L)
    BY <1>1, <1>3, <1>5, <2>1
  <2>3. T \in Nat \ {0}
    <3>1. T # 0
      BY <1>3, <1>5
    <3>2. QED
      BY <1>1, <3>1
  <2>4. QED
    BY <1>5, <2>1, <2>2, <2>3, GridBack
<1>8. ASSUME NEW n \in Family(cs) PROVE \E j \in Family(ws) : h[j] = n
  <2>1. n \in 1 .. S * L /\ cs[n].p # {} /\ GridRow(n, L) \in thick /\ GridColumn(n, L) \in 1 .. L
    BY <1>2 DEF Family
  <2>2. PICK k \in 1 .. T : g[k] = GridRow(n, L)
    BY <1>1, <2>1
  <2>3. PICK j : j = GridPosition(k, GridColumn(n, L), L)
    OBVIOUS
  <2>4. j \in 1 .. T * L /\ GridRow(j, L) = k /\ GridColumn(j, L) = GridColumn(n, L)
    <3>1. InRowAndColumn(GridPosition(k, GridColumn(n, L), L), k, GridColumn(n, L), T, L)
      BY <1>1, <2>1, GridAt
    <3>2. QED
      BY <2>3, <3>1 DEF InRowAndColumn
  <2> HIDE DEF to
  <2>5. to(j) \in 1 .. S * L /\ GridRow(to(j), L) = GridRow(n, L) /\ GridColumn(to(j), L) = GridColumn(n, L)
        /\ cs[to(j)] = ws[j]
    BY <1>4, <2>2, <2>4
  <2>6. to(j) = n
    BY <2>1, <2>5, GridBack
  <2>7. j \in Family(ws)
    BY <1>3, <2>1, <2>4, <2>5, <2>6 DEF Family
  <2>8. QED
    BY <2>6, <2>7
<1>9. ASSUME NEW j \in Family(ws) PROVE PsIn(ws)[j] = PsIn(cs)[h[j]]
  <2> HIDE DEF to
  <2>1. h[j] = to(j) /\ j \in DOMAIN ws /\ to(j) \in DOMAIN cs /\ cs[to(j)] = ws[j]
    BY <1>2, <1>3, <1>4, <1>5
  <2>2. QED
    BY <2>1 DEF PsIn
<1> HIDE DEF h
<1>10. SamePs(h, Family(ws), PsIn(ws), Family(cs), PsIn(cs))
  BY <1>6, <1>7, <1>8, <1>9 DEF SamePs
<1>11. QED
  BY <1>10

\* A cell of a comparison that can be made is of its scope and metric, without a verdict,
\* and is tested when there are values enough.
CellOf(c, name, metric, ids) ==
  /\ {"scope", "metric", "p", "verdict"} \subseteq DOMAIN c
  /\ c.scope = name /\ c.metric = metric /\ c.verdict = "inconclusive"
  /\ c.p # {} => /\ The(c.p) \in Nat
                 /\ Cardinality(PairedValues(args.base, args.cand, metric, ids)) >= MinPairedForAVerdict

LEMMA CellOfACall ==
  ASSUME Callable, NEW scope, NEW k \in DOMAIN args.metrics
  PROVE  CellOf(Cell(args.base, args.cand, scope, args.metrics[k]), scope.name, args.metrics[k], scope.ids)
<1>1. PICK m : m = args.metrics[k]
  OBVIOUS
<1>2. PICK d : d = Difference(args.base, args.cand, m, scope.ids)
  OBVIOUS
<1>3. PICK c : c = Cell(args.base, args.cand, scope, m)
  OBVIOUS
<1>4. m \in Columns /\ IsRun(args.base) /\ IsRun(args.cand)
  BY <1>1, RunsOfACall
<1>5. /\ IsFiniteSet(DOMAIN d) /\ \A i \in DOMAIN d : d[i] \in Int
      /\ DOMAIN d = PairedValues(args.base, args.cand, m, scope.ids)
  BY <1>2, <1>4, DifferencesAre
<1>6. CellSays(c, scope.name, m, d)
  BY <1>2, <1>3, CellIs
<1>7. /\ c.p = {} <=> Cardinality(DOMAIN d) < MinPairedForAVerdict
      /\ c.p # {} => The(c.p) \in Nat
  BY <1>5, <1>6, TestedCell
<1>8. Cardinality(DOMAIN d) \in Nat /\ MinPairedForAVerdict = 3
  BY <1>5, FS_CardinalityType DEF MinPairedForAVerdict
<1>9. /\ {"scope", "metric", "n", "delta", "ci", "p", "verdict"} \subseteq DOMAIN c
      /\ c.scope = scope.name /\ c.metric = m /\ c.verdict = "inconclusive"
  BY <1>6, Zenon DEF CellSays
<1>10. {"scope", "metric", "p", "verdict"} \subseteq DOMAIN c
  BY <1>9
<1>11. c.p # {} => Cardinality(PairedValues(args.base, args.cand, m, scope.ids)) >= MinPairedForAVerdict
  BY <1>5, <1>7, <1>8
<1>12. QED
  BY <1>1, <1>3, <1>7, <1>9, <1>10, <1>11 DEF CellOf

\* Cells that are the same, in families of the same p-values, get the same verdict.
LEMMA SameVerdict ==
  ASSUME NEW cs, NEW ws, NEW h, SamePs(h, Family(ws), PsIn(ws), Family(cs), PsIn(cs)),
         IsFiniteSet(Family(ws)), NEW i, NEW j, cs[i] = ws[j], "verdict" \in DOMAIN cs[i],
         NEW e, NEW f, DecidedAs(cs, i, e), DecidedAs(ws, j, f)
  PROVE  e.verdict = f.verdict
<1>1. PICK c : c = cs[i] /\ c = ws[j] /\ "verdict" \in DOMAIN c
  OBVIOUS
<1>2. CASE c.p = {}
  BY <1>1, <1>2, Zenon DEF DecidedAs
<1>3. CASE c.p # {}
  <2>1. PICK q : /\ e = [c EXCEPT !.verdict = Verdict(c, q)]
                 /\ Clears(q, Alpha) <=> Survives(PsIn(cs), Family(cs), The(c.p))
    BY <1>1, <1>3, Zenon DEF DecidedAs
  <2>2. PICK r : /\ f = [c EXCEPT !.verdict = Verdict(c, r)]
                 /\ Clears(r, Alpha) <=> Survives(PsIn(ws), Family(ws), The(c.p))
    BY <1>1, <1>3, Zenon DEF DecidedAs
  <2>3. Survives(PsIn(ws), Family(ws), The(c.p)) <=> Survives(PsIn(cs), Family(cs), The(c.p))
    BY SurvivesSame
  <2>4. Verdict(c, q) = Verdict(c, r)
    BY <2>1, <2>2, <2>3, VerdictByLevel
  <2>5. e = f
    BY <2>1, <2>2, <2>4, Zenon
  <2>6. QED
    BY <2>5
<1>4. QED
  BY <1>2, <1>3

\* Deciding leaves a cell in its place.
LEMMA DecidedStays ==
  ASSUME NEW cs, NEW n, NEW e, DecidedAs(cs, n, e), {"scope", "metric", "verdict"} \subseteq DOMAIN cs[n]
  PROVE  e.scope = cs[n].scope /\ e.metric = cs[n].metric
<1>1. PICK c : c = cs[n] /\ {"scope", "metric", "verdict"} \subseteq DOMAIN c
  OBVIOUS
<1>2. e = c \/ \E q : e = [c EXCEPT !.verdict = Verdict(c, q)]
  BY <1>1, Zenon DEF DecidedAs
<1>3. ASSUME NEW q, e = [c EXCEPT !.verdict = Verdict(c, q)] PROVE e.scope = c.scope /\ e.metric = c.metric
  <2>1. PICK v : v = Verdict(c, q)
    OBVIOUS
  <2>2. e = [c EXCEPT !.verdict = v]
    BY <1>3, <2>1
  <2>3. QED
    BY <1>1, <2>2
<1>4. QED
  BY <1>1, <1>2, <1>3

\* A scope that is too thin weakens no other, for all runs, scopes, metrics and levels: it
\* adds nothing to the family the correction is over.
THEOREM GateThinScopes == GateSpec => []ThinScopesWeakenNoOne
<1>1. GateInit => VerdictInv
  BY DEF GateInit, VerdictInv, Judged
<1>2. VerdictInv /\ CellsInv => ThinScopesWeakenNoOne
  <2> DEFINE enough(s) == \E m \in Asked :
               Cardinality(PairedValues(args.base, args.cand, m, s.ids)) >= MinPairedForAVerdict
             thick == {k \in DOMAIN Scopes : enough(Scopes[k])}
             left == Selected(Scopes, thick)
             without == Decided(CellsOf(args.base, args.cand, left, args.metrics))
             S == Len(Scopes)
             L == Len(args.metrics)
  <2> SUFFICES ASSUME VerdictInv, CellsInv, pc = "delete", NEW i \in DOMAIN cells, NEW j \in DOMAIN without,
                      cells[i].scope = without[j].scope, cells[i].metric = without[j].metric
               PROVE  cells[i].verdict = without[j].verdict
    BY Zenon DEF ThinScopesWeakenNoOne
  <2>1. PICK cs : cs = CellsOf(args.base, args.cand, Scopes, args.metrics) /\ cells = Decided(cs)
    BY DEF CellsInv
  <2>2. PICK ws : ws = CellsOf(args.base, args.cand, left, args.metrics) /\ without = Decided(ws)
    OBVIOUS
  <2>3. Callable
    BY DEF VerdictInv, Callable
  <2>4. S \in Nat \ {0} /\ L \in Nat \ {0} /\ DOMAIN args.metrics = 1 .. L /\ DOMAIN Scopes = 1 .. S
    BY <2>3, Arguments DEF Callable
  <2>5. thick \in SUBSET (1 .. S)
    BY <2>4
  <2>6. PICK g, T : KeptAs(g, T, thick, Scopes, left)
    <3> HIDE DEF thick, S
    <3>1. QED
      BY <2>4, <2>5, KeptScopes
  <2>7. /\ T \in Nat /\ Len(left) = T /\ g \in [1 .. T -> thick]
        /\ \A k \in 1 .. T : left[k] = Scopes[g[k]]
    BY <2>6 DEF KeptAs
  <2> HIDE DEF left, without
  <2>8. /\ S * L \in Nat /\ InGrid(cs, args.base, args.cand, Scopes, args.metrics)
        /\ T * L \in Nat /\ InGrid(ws, args.base, args.cand, left, args.metrics)
    BY <2>1, <2>2, <2>4, <2>7, GridIs
  <2>9. DOMAIN cs = 1 .. S * L /\ DOMAIN ws = 1 .. T * L
    BY <2>7, <2>8 DEF InGrid
  <2> HIDE DEF thick, S, L
  <2>10. ASSUME NEW n \in 1 .. S * L
         PROVE  /\ GridRow(n, L) \in 1 .. S /\ GridColumn(n, L) \in 1 .. L
                /\ cs[n] = Cell(args.base, args.cand, Scopes[GridRow(n, L)], args.metrics[GridColumn(n, L)])
                /\ CellOf(cs[n], Scopes[GridRow(n, L)].name, args.metrics[GridColumn(n, L)], Scopes[GridRow(n, L)].ids)
    <3>1. /\ GridRow(n, L) \in 1 .. S /\ GridColumn(n, L) \in 1 .. L
          /\ cs[n] = Cell(args.base, args.cand, Scopes[GridRow(n, L)], args.metrics[GridColumn(n, L)])
      BY <2>8, <2>9 DEF InGrid, L, S
    <3>2. GridColumn(n, L) \in DOMAIN args.metrics
      BY <2>4, <3>1
    <3>3. QED
      BY <2>3, <3>1, <3>2, CellOfACall
  <2>11. ASSUME NEW n \in 1 .. T * L
         PROVE  /\ GridRow(n, L) \in 1 .. T /\ GridColumn(n, L) \in 1 .. L
                /\ ws[n] = Cell(args.base, args.cand, Scopes[g[GridRow(n, L)]], args.metrics[GridColumn(n, L)])
                /\ CellOf(ws[n], Scopes[g[GridRow(n, L)]].name, args.metrics[GridColumn(n, L)],
                          Scopes[g[GridRow(n, L)]].ids)
    <3>1. /\ GridRow(n, L) \in 1 .. T /\ GridColumn(n, L) \in 1 .. L
          /\ ws[n] = Cell(args.base, args.cand, left[GridRow(n, L)], args.metrics[GridColumn(n, L)])
      BY <2>7, <2>8, <2>9 DEF InGrid, L
    <3>2. GridColumn(n, L) \in DOMAIN args.metrics
      BY <2>4, <3>1
    <3>3. ws[n] = Cell(args.base, args.cand, Scopes[g[GridRow(n, L)]], args.metrics[GridColumn(n, L)])
      BY <2>7, <3>1
    <3>4. QED
      BY <2>3, <3>1, <3>2, <3>3, CellOfACall
  <2>12. ASSUME NEW n \in DOMAIN cs, cs[n].p # {} PROVE GridRow(n, L) \in thick
    <3>1. PICK s \in 1 .. S, k \in 1 .. L : /\ s = GridRow(n, L)
                                            /\ CellOf(cs[n], Scopes[s].name, args.metrics[k], Scopes[s].ids)
      BY <2>9, <2>10
    <3>2. args.metrics[k] \in Asked
      BY <2>4, <3>1 DEF Asked
    <3>3. Cardinality(PairedValues(args.base, args.cand, args.metrics[k], Scopes[s].ids)) >= MinPairedForAVerdict
      BY <2>12, <3>1 DEF CellOf
    <3>4. QED
      BY <2>4, <3>1, <3>2, <3>3 DEF thick
  <2>13. PICK h : SamePs(h, Family(ws), PsIn(ws), Family(cs), PsIn(cs))
    <3>1. Len(args.metrics) = L /\ Len(Scopes) = S
      BY DEF L, S
    <3>2. QED
      BY <2>4, <2>5, <2>6, <2>8, <2>12, <3>1, FamilyStays
  <2>14. IsFiniteSet(Family(ws))
    <3>1. PICK n \in Nat : n = T * L
      BY <2>8
    <3>2. IsFiniteSet(1 .. n)
      BY FS_Interval
    <3>3. Family(ws) \in SUBSET (1 .. n)
      BY <2>9, <3>1 DEF Family
    <3>4. QED
      BY <3>2, <3>3, FS_Subset
  <2>15. /\ DOMAIN cells = 1 .. S * L /\ \A n \in 1 .. S * L : DecidedAs(cs, n, cells[n])
         /\ DOMAIN without = 1 .. T * L /\ \A n \in 1 .. T * L : DecidedAs(ws, n, without[n])
    <3>1. \A n \in 1 .. S * L : cs[n].p # {} => The(cs[n].p) \in Nat
      BY <2>10 DEF CellOf
    <3>2. \A n \in 1 .. T * L : ws[n].p # {} => The(ws[n].p) \in Nat
      BY <2>11 DEF CellOf
    <3>3. DOMAIN cells = 1 .. S * L /\ \A n \in 1 .. S * L : DecidedAs(cs, n, cells[n])
      BY <2>1, <2>8, <2>9, <3>1, DecidedIs
    <3>4. DOMAIN without = 1 .. T * L /\ \A n \in 1 .. T * L : DecidedAs(ws, n, without[n])
      BY <2>2, <2>8, <2>9, <3>2, DecidedIs
    <3>5. QED
      BY <3>3, <3>4
  <2>16. cs[i] = ws[j] /\ "verdict" \in DOMAIN cs[i]
    <3>1. i \in 1 .. S * L /\ j \in 1 .. T * L
      BY <2>15
    <3>2. PICK r, t, k, l : r = GridRow(i, L) /\ t = g[GridRow(j, L)] /\ k = GridColumn(i, L) /\ l = GridColumn(j, L)
      OBVIOUS
    <3>3. /\ cs[i] = Cell(args.base, args.cand, Scopes[r], args.metrics[k])
          /\ CellOf(cs[i], Scopes[r].name, args.metrics[k], Scopes[r].ids)
          /\ r \in 1 .. S
      BY <2>10, <3>1, <3>2
    <3>4. /\ ws[j] = Cell(args.base, args.cand, Scopes[t], args.metrics[l])
          /\ CellOf(ws[j], Scopes[t].name, args.metrics[l], Scopes[t].ids)
          /\ GridRow(j, L) \in 1 .. T
      BY <2>11, <3>1, <3>2
    <3>5. t \in 1 .. S
      BY <2>5, <2>7, <3>2, <3>4
    <3>6. /\ cells[i].scope = Scopes[r].name /\ cells[i].metric = args.metrics[k]
          /\ without[j].scope = Scopes[t].name /\ without[j].metric = args.metrics[l]
      <4>1. /\ {"scope", "metric", "verdict"} \subseteq DOMAIN cs[i] /\ cs[i].scope = Scopes[r].name
            /\ cs[i].metric = args.metrics[k]
            /\ {"scope", "metric", "verdict"} \subseteq DOMAIN ws[j] /\ ws[j].scope = Scopes[t].name
            /\ ws[j].metric = args.metrics[l]
        BY <3>3, <3>4 DEF CellOf
      <4>2. DecidedAs(cs, i, cells[i]) /\ DecidedAs(ws, j, without[j])
        BY <2>15, <3>1
      <4>3. cells[i].scope = cs[i].scope /\ cells[i].metric = cs[i].metric
        BY <4>1, <4>2, DecidedStays
      <4>4. without[j].scope = ws[j].scope /\ without[j].metric = ws[j].metric
        BY <4>1, <4>2, DecidedStays
      <4>5. QED
        BY <4>1, <4>3, <4>4
    <3>7. r = t /\ args.metrics[k] = args.metrics[l]
      <4>1. \A n, o \in DOMAIN Scopes : Scopes[n].name = Scopes[o].name => n = o
        BY <2>3 DEF Callable, Comparable
      <4>2. QED
        BY <2>4, <3>3, <3>5, <3>6, <4>1
    <3>8. "verdict" \in DOMAIN cs[i]
      BY <3>3 DEF CellOf
    <3>9. QED
      BY <3>3, <3>4, <3>7, <3>8
  <2>17. i \in 1 .. S * L /\ j \in 1 .. T * L
    BY <2>15
  <2>18. PICK e : e = cells[i] /\ DecidedAs(cs, i, e)
    BY <2>15, <2>17
  <2>19. PICK f : f = without[j] /\ DecidedAs(ws, j, f)
    BY <2>15, <2>17
  <2>20. e.verdict = f.verdict
    BY <2>13, <2>14, <2>16, <2>18, <2>19, SameVerdict
  <2>21. QED
    BY <2>18, <2>19, <2>20
<1>3. QED
  BY <1>1, <1>2, VerdictInvNext, CellsInvInit, CellsInvNext, PTL DEF GateSpec

-----------------------------------------------------------------------------
(* The miner: the tables it leaves.                                        *)

\* The steps before anything is written.
Mining == {"validate", "search", "correct", "prune", "describe", "tell", "failed", "done"}

\* Rows are filed under the number of the execution by scripts/mine.py, under the target by
\* scripts/analyze.py.
FiledById(table) ==
  \A r \in table : r.exec \in Nat /\ r.exec <= exec /\ r.id = (IF script = "mine" THEN r.exec ELSE 0)

\* The order of the statements of write_results, as facts about the two tables: the classes
\* go before their job does, and a job is there before its first class.
MinerInv ==
  /\ exec \in Nat
  /\ script \in {"mine", "analyze"}
  /\ pc \in Mining \cup {"write", "delete_job", "insert_job", "insert_classes"}
  /\ FiledById(jobs)
  /\ FiledById(classes)
  /\ pc \in {"delete_job", "insert_job"} => \A c \in classes : c.id # JobId
  /\ pc = "insert_job" => \A j \in jobs : j.id # JobId
  /\ pc = "insert_classes" => \E j \in jobs : j.id = JobId /\ j.exec = exec
  /\ ClassesHaveTheirJob

\* The two tables are empty at the start.
LEMMA MinerInvInit == MineInit => MinerInv
<1> SUFFICES ASSUME MineInit PROVE MinerInv
  OBVIOUS
<1>1. exec = 1 /\ script \in {"mine", "analyze"} /\ pc = "validate" /\ jobs = {} /\ classes = {}
  BY Zenon DEF MineInit
<1>2. QED
  BY <1>1 DEF MinerInv, FiledById, Mining, ClassesHaveTheirJob

\* Every step keeps the invariant: the search and the judging leave the tables alone, and
\* each statement of write_results finds what the one before it left.
LEMMA MinerInvNext == MinerInv /\ [MineNext]_mineVars => MinerInv'
<1> SUFFICES ASSUME MinerInv, [MineNext]_mineVars PROVE MinerInv'
  OBVIOUS
<1> USE DEF MinerInv, FiledById, Mining, ClassesHaveTheirJob, JobId
<1>1. ASSUME UNCHANGED <<script, exec, tables>>, pc' \in Mining \cup {"write"} PROVE MinerInv'
  BY <1>1 DEF tables
<1>2. CASE Refuse
  BY <1>1, <1>2 DEF Refuse, Stop
<1>3. CASE Vocabulate
  BY <1>1, <1>3 DEF Vocabulate, Stop
<1>4. CASE Deepen
  BY <1>1, <1>4 DEF Deepen
<1>5. CASE Confirm
  BY <1>1, <1>5 DEF Confirm, Stop
<1>6. CASE Correct
  BY <1>1, <1>6 DEF Correct
<1>7. CASE Prune
  BY <1>1, <1>7 DEF Prune
<1>8. CASE Describe
  BY <1>1, <1>8 DEF Describe
<1>9. CASE Tell
  BY <1>1, <1>9 DEF Tell
<1>10. CASE DeleteClasses
  BY <1>10 DEF DeleteClasses
<1>11. CASE DeleteJob
  BY <1>11 DEF DeleteJob
<1>12. CASE InsertJob
  <2> DEFINE job == [id |-> JobId, exec |-> exec, tested |-> Len(rows)]
  <2>1. jobs' = jobs \cup {job} /\ job.id = JobId /\ job.exec = exec
    BY <1>12 DEF InsertJob
  <2>2. UNCHANGED <<script, exec, classes>> /\ pc = "insert_job" /\ pc' = "insert_classes"
    BY <1>12 DEF InsertJob
  <2> HIDE DEF job
  <2>3. QED
    BY <2>1, <2>2
<1>13. CASE InsertClass
  <2> DEFINE class == [id |-> JobId, exec |-> exec, rank |-> Len(result.stored) - Len(todo) + 1,
                       significant |-> Head(todo).significant]
  <2>1. classes' = classes \cup {class} /\ class.id = JobId /\ class.exec = exec
    BY <1>13 DEF InsertClass
  <2>2. UNCHANGED <<script, exec, jobs, pc>> /\ pc = "insert_classes"
    BY <1>13 DEF InsertClass
  <2> HIDE DEF class
  <2>3. QED
    BY <2>1, <2>2
<1>14. CASE Inserted
  BY <1>1, <1>14 DEF Inserted
<1>15. CASE MineRestart
  <2>1. exec' = exec + 1 /\ pc' = "validate" /\ UNCHANGED <<script, tables>>
    BY <1>15, Zenon DEF MineRestart, StartedAgain
  <2>2. QED
    BY <2>1 DEF tables
<1>16. CASE UNCHANGED mineVars
  BY <1>16 DEF mineVars, tables
<1>17. QED
  BY <1>2, <1>3, <1>4, <1>5, <1>6, <1>7, <1>8, <1>9, <1>10, <1>11, <1>12, <1>13, <1>14, <1>15, <1>16
     DEF MineNext

\* For every input, every interleaving of statements with kills, and any number of
\* executions, no reader finds a class without the job it was corrected in.
THEOREM MinerClassesHaveTheirJob == MineSpec => []ClassesHaveTheirJob
<1>1. MinerInv => ClassesHaveTheirJob
  BY DEF MinerInv
<1>2. QED
  BY <1>1, MinerInvInit, MinerInvNext, PTL DEF MineSpec

-----------------------------------------------------------------------------
(* The miner: its ranking of the tested rules, and the pruning.            *)

\* A fraction of whole numbers with a positive denominator.
IsFraction(f) == f.num \in Int /\ f.den \in Nat \ {0}

\* What a tested rule has to have for its place in the order.
Scored(r) ==
  /\ IsFraction(r.wracc)
  /\ \A x \in r.lift : IsFraction(x)
  /\ \A x, y \in r.lift : x = y
  /\ Cardinality(r.rule) \in Nat

\* Fractions are ranked by their value.
LEMMA AboveRanks ==
  /\ \A a, b : IsFraction(a) /\ IsFraction(b) /\ Above(a, b) => ~Above(b, a)
  /\ \A a, b, c : IsFraction(a) /\ IsFraction(b) /\ IsFraction(c) /\ Above(a, b) => Above(a, c) \/ Above(c, b)
<1>1. ASSUME NEW a, NEW b, IsFraction(a), IsFraction(b), Above(a, b) PROVE ~Above(b, a)
  <2>1. a.num * b.den \in Int /\ b.num * a.den \in Int
    BY <1>1 DEF IsFraction
  <2>2. QED
    BY <1>1, <2>1 DEF Above
<1>2. ASSUME NEW a, NEW b, NEW c, IsFraction(a), IsFraction(b), IsFraction(c), ~Above(a, c), ~Above(c, b)
      PROVE  ~Above(a, b)
  <2>1. PICK x, y, z \in Int, k, l, n \in Nat \ {0} :
          x = a.num /\ n = a.den /\ y = c.num /\ k = c.den /\ z = b.num /\ l = b.den
    BY <1>2 DEF IsFraction
  <2>2. x * k \in Int /\ y * n \in Int /\ y * l \in Int /\ z * k \in Int /\ x * l \in Int /\ z * n \in Int
    BY <2>1
  <2>3. ~(x * k > y * n) /\ ~(y * l > z * k)
    BY <1>2, <2>1 DEF Above
  <2>4. x * k <= y * n /\ y * l <= z * k
    BY <2>2, <2>3
  <2>5. x * l <= z * n
    BY <2>4, FractionsChain
  <2>6. ~(x * l > z * n)
    BY <2>2, <2>5
  <2>7. QED
    BY <2>1, <2>6 DEF Above
<1>3. QED
  BY <1>1, <1>2

\* So are lifts, the missing ones last.
LEMMA LiftRanks ==
  ASSUME NEW T, \A a \in T : (\A x \in a : IsFraction(x)) /\ \A x, y \in a : x = y
  PROVE  /\ \A a, b \in T : LiftAbove(a, b) => ~LiftAbove(b, a)
         /\ \A a, b, c \in T : LiftAbove(a, b) => LiftAbove(a, c) \/ LiftAbove(c, b)
<1>1. ASSUME NEW a \in T, NEW b \in T, LiftAbove(a, b), LiftAbove(b, a) PROVE FALSE
  <2>1. PICK x \in a, y \in b : Above(x, y)
    BY <1>1, Zenon DEF LiftAbove
  <2>2. PICK u \in b, v \in a : Above(u, v)
    BY <1>1, <2>1, Zenon DEF LiftAbove
  <2>3. u = y /\ v = x
    BY <2>1, <2>2
  <2>4. IsFraction(x) /\ IsFraction(y)
    OBVIOUS
  <2>5. Above(y, x)
    BY <2>2, <2>3, Zenon
  <2>6. QED
    BY <2>1, <2>4, <2>5, AboveRanks
<1>2. ASSUME NEW a \in T, NEW b \in T, NEW c \in T, LiftAbove(a, b) PROVE LiftAbove(a, c) \/ LiftAbove(c, b)
  <2>1. CASE c = {}
    <3>1. a # {}
      BY <1>2, Zenon DEF LiftAbove
    <3>2. QED
      BY <2>1, <3>1, Zenon DEF LiftAbove
  <2>2. CASE c # {}
    <3>1. CASE b = {}
      BY <2>2, <3>1, Zenon DEF LiftAbove
    <3>2. CASE b # {}
      <4>1. PICK x \in a, y \in b : Above(x, y)
        BY <1>2, <3>2, Zenon DEF LiftAbove
      <4>2. PICK z \in c : TRUE
        BY <2>2
      <4>3. IsFraction(x) /\ IsFraction(y) /\ IsFraction(z)
        OBVIOUS
      <4>4. Above(x, z) \/ Above(z, y)
        BY <4>1, <4>3, AboveRanks
      <4>5. QED
        BY <4>1, <4>2, <4>4, Zenon DEF LiftAbove
    <3>3. QED
      BY <3>1, <3>2
  <2>3. QED
    BY <2>1, <2>2
<1>3. QED
  BY <1>1, <1>2

\* The order in which classes are pruned.
LEMMA RulesRanked ==
  ASSUME NEW s, NEW I, \A i \in I : Scored(s[i])
  PROVE  Ranked({p \in I \X I : RanksAbove(s[p[1]], s[p[2]])}, I)
<1> DEFINE A == {p \in I \X I : Above(s[p[1]].wracc, s[p[2]].wracc)}
           B == {p \in I \X I : LiftAbove(s[p[1]].lift, s[p[2]].lift)}
           C == {p \in I \X I : Cardinality(s[p[1]].rule) < Cardinality(s[p[2]].rule)}
           BC == {p \in I \X I : p \in B \/ (<<p[2], p[1]>> \notin B /\ p \in C)}
           D == {p \in I \X I : RanksAbove(s[p[1]], s[p[2]])}
<1>1. \A x, y \in I : /\ <<x, y>> \in A <=> Above(s[x].wracc, s[y].wracc)
                      /\ <<x, y>> \in B <=> LiftAbove(s[x].lift, s[y].lift)
                      /\ <<x, y>> \in C <=> Cardinality(s[x].rule) < Cardinality(s[y].rule)
                      /\ <<x, y>> \in D <=> RanksAbove(s[x], s[y])
  OBVIOUS
<1> HIDE DEF A, B, C
<1>2. \A x, y \in I : <<x, y>> \in BC <=> <<x, y>> \in B \/ (<<y, x>> \notin B /\ <<x, y>> \in C)
  OBVIOUS
<1> HIDE DEF BC, D
<1>3. Ranked(A, I)
  <2>1. \A x \in I : IsFraction(s[x].wracc)
    BY DEF Scored
  <2>2. QED
    BY <1>1, <2>1, AboveRanks, Zenon DEF Ranked
<1>4. Ranked(B, I)
  <2>1. \A a \in {s[x].lift : x \in I} : (\A x \in a : IsFraction(x)) /\ \A x, y \in a : x = y
    BY DEF Scored
  <2>2. /\ \A a, b \in {s[x].lift : x \in I} : LiftAbove(a, b) => ~LiftAbove(b, a)
        /\ \A a, b, c \in {s[x].lift : x \in I} : LiftAbove(a, b) => LiftAbove(a, c) \/ LiftAbove(c, b)
    BY <2>1, LiftRanks
  <2>3. \A x \in I : s[x].lift \in {s[y].lift : y \in I}
    OBVIOUS
  <2>4. QED
    BY <1>1, <2>2, <2>3 DEF Ranked
<1>5. Ranked(C, I)
  <2>1. \A x \in I : Cardinality(s[x].rule) \in Nat
    BY DEF Scored
  <2>2. QED
    BY <1>1, <2>1 DEF Ranked
<1>6. Ranked(BC, I)
  BY <1>2, <1>4, <1>5, RankedThen
<1>7. \A x, y \in I : <<x, y>> \in D <=> <<x, y>> \in A \/ (<<y, x>> \notin A /\ <<x, y>> \in BC)
  BY <1>1, <1>2, Zenon DEF RanksAbove
<1>8. Ranked(D, I)
  BY <1>3, <1>6, <1>7, RankedThen
<1>9. QED
  BY <1>8 DEF D

\* The rules that are reported, of a table s of tested rules, from the best one on.
Ranking(s) == StableSort(s, {i \in DOMAIN s : N(s[i].mask) >= MinCoverage}, RanksAbove)

\* The ranking lists rules of the table, and none of them ranks above one before it.
LEMMA RankingDescends ==
  ASSUME NEW s, DOMAIN s \in SUBSET Int, IsFiniteSet(DOMAIN s), \A i \in DOMAIN s : Scored(s[i])
  PROVE  \E count \in Nat :
           /\ Ranking(s) = [n \in 1 .. count |-> Ranking(s)[n]]
           /\ \A n \in 1 .. count : \E i \in DOMAIN s : Ranking(s)[n] = s[i]
           /\ \A m, n \in 1 .. count : m < n => ~RanksAbove(Ranking(s)[n], Ranking(s)[m])
<1> DEFINE I == {i \in DOMAIN s : N(s[i].mask) >= MinCoverage}
           B == {p \in I \X I : RanksAbove(s[p[1]], s[p[2]])}
           placed == {<<Cardinality({y \in I : RanksAbove(s[y], s[x])
                                            \/ (~RanksAbove(s[x], s[y]) /\ y < x)}) + 1, x>> : x \in I}
           g == [n \in 1 .. Cardinality(I) |-> (CHOOSE p \in placed : p[1] = n)[2]]
<1>1. Ranking(s) = [n \in DOMAIN g |-> s[g[n]]]
  BY Zenon DEF Ranking, StableSort, StablePositions, Arranged
<1>2. I \in SUBSET Int /\ IsFiniteSet(I) /\ \A i \in I : i \in DOMAIN s /\ Scored(s[i])
  BY FS_Subset
<1> HIDE DEF I
<1>3. \A x, y \in I : <<x, y>> \in B <=> RanksAbove(s[x], s[y])
  OBVIOUS
<1>4. Ranked(B, I)
  BY <1>2, RulesRanked
<1> HIDE DEF B
<1>5. StablyPlaced(placed, I, B)
  <2>1. ASSUME NEW x \in I
        PROVE  {y \in I : RanksAbove(s[y], s[x]) \/ (~RanksAbove(s[x], s[y]) /\ y < x)}
                 = {y \in I : <<y, x>> \in B \/ (<<x, y>> \notin B /\ y < x)}
    BY <1>3, Zenon
  <2>2. QED
    BY <2>1, Zenon DEF StablyPlaced
<1> HIDE DEF placed
<1>6. PICK t, h : t = Ranking(s) /\ h = g
  OBVIOUS
<1>7. ListedBy(t, s, placed, I)
  <2>1. h = [n \in 1 .. Cardinality(I) |-> h[n]]
    BY <1>6
  <2>2. ASSUME NEW n \in 1 .. Cardinality(I), \E p \in placed : p[1] = n
        PROVE  \E p \in placed : p[1] = n /\ h[n] = p[2]
    <3>1. PICK p \in placed : p = (CHOOSE q \in placed : q[1] = n) /\ p[1] = n
      BY <2>2, Zenon
    <3>2. h[n] = p[2]
      BY <3>1, <1>6
    <3>3. QED
      BY <3>1, <3>2
  <2>3. Lists(h, placed, I)
    BY <2>1, <2>2 DEF Lists
  <2>4. t = [n \in DOMAIN h |-> s[h[n]]]
    <3> HIDE DEF g
    <3>1. QED
      BY <1>1, <1>6, Zenon
  <2>5. QED
    BY <2>3, <2>4, Zenon DEF ListedBy
<1>8. SortedBy(t, s, I, B)
  BY <1>2, <1>4, <1>5, <1>7, StableSortSorts
<1>9. ASSUME NEW m \in 1 .. Cardinality(I), NEW n \in 1 .. Cardinality(I), m < n
      PROVE  ~RanksAbove(t[n], t[m])
  <2>1. PICK i, j \in I : t[m] = s[i] /\ t[n] = s[j] /\ <<j, i>> \notin B
    BY <1>8, <1>9, Zenon DEF SortedBy
  <2>2. ~RanksAbove(s[j], s[i])
    BY <1>3, <2>1
  <2>3. QED
    BY <2>1, <2>2, Zenon
<1>10. /\ Cardinality(I) \in Nat /\ t = [n \in 1 .. Cardinality(I) |-> t[n]]
       /\ \A n \in 1 .. Cardinality(I) : \E i \in DOMAIN s : t[n] = s[i]
  BY <1>2, <1>8, Zenon DEF SortedBy
<1>11. QED
  BY <1>6, <1>9, <1>10

\* The first n of a sequence.
LEMMA AtMostFirstOf ==
  ASSUME NEW S, NEW s \in Seq(S), NEW n \in Nat, NEW t, t = AtMostFirst(s, n)
  PROVE  /\ t \in Seq(S) /\ Len(t) <= Len(s) /\ Len(t) <= n
         /\ n >= Len(s) => Len(t) = Len(s)
         /\ \A i \in 1 .. Len(t) : t[i] = s[i]
<1> DEFINE m == IF n < Len(s) THEN n ELSE Len(s)
<1>1. t = SubSeq(s, 1, m)
  BY Zenon DEF AtMostFirst
<1>2. Len(s) \in Nat /\ m \in Nat /\ m <= Len(s) /\ m <= n /\ (n >= Len(s) => m = Len(s))
  OBVIOUS
<1> HIDE DEF m
<1>3. t \in Seq(S) /\ Len(t) = m /\ \A i \in 1 .. m : t[i] = s[i]
  BY <1>1, <1>2
<1>4. QED
  BY <1>2, <1>3

\* Whether two rules are near-duplicates does not depend on which is asked first.
LEMMA DuplicatesBothWays == \A a, b : NearDuplicate(a, b) <=> NearDuplicate(b, a)
<1> SUFFICES ASSUME NEW a, NEW b PROVE NearDuplicate(a, b) <=> NearDuplicate(b, a)
  OBVIOUS
<1>1. a.mask \cap b.mask = b.mask \cap a.mask
  OBVIOUS
<1>2. QED
  BY <1>1, Zenon DEF NearDuplicate

\* What the greedy loop keeps: rules of the pool, no two of them near-duplicates, and for
\* each rule of the pool itself or one that comes earlier in the pool and duplicates it.
RepresentedBy(chosen, pool) ==
  /\ chosen \in Seq({pool[k] : k \in 1 .. Len(pool)})
  /\ \A i, j \in DOMAIN chosen : NearDuplicate(chosen[i], chosen[j]) => i = j
  /\ \A n \in 1 .. Len(pool) : \E i \in DOMAIN chosen : \E k \in 1 .. n :
       chosen[i] = pool[k] /\ (k = n \/ NearDuplicate(pool[k], pool[n]))

\* The recursion of Representatives keeps such rules.
LEMMA RepresentativesOf ==
  ASSUME NEW pool, Len(pool) \in Nat
  PROVE  RepresentedBy(Representatives(pool), pool)
<1> DEFINE last == Len(pool)
           members == {pool[k] : k \in 1 .. last}
           taken(before, n) == \E i \in DOMAIN before : NearDuplicate(before[i], pool[n])
           next(before, n) == IF taken(before, n) THEN before ELSE Append(before, pool[n])
           step(g) == [n \in 0 .. last |-> IF n = 0 THEN <<>> ELSE next(g[n - 1], n)]
           after == CHOOSE g : g = step(g)
           among(s, m) == \A i \in DOMAIN s : \E k \in 1 .. m : s[i] = pool[k]
           apart(s) == \A i, j \in DOMAIN s : NearDuplicate(s[i], s[j]) => i = j
           found(s, n) == \E i \in DOMAIN s : \E k \in 1 .. n :
                            s[i] = pool[k] /\ (k = n \/ NearDuplicate(pool[k], pool[n]))
           good(s, m) == s \in Seq(members) /\ among(s, m) /\ apart(s) /\ \A n \in 1 .. m : found(s, n)
<1>1. Representatives(pool) = after[last]
  BY Zenon DEF Representatives
<1>2. last \in Nat
  OBVIOUS
<1>3. good(<<>>, 0)
  OBVIOUS
<1>4. ASSUME NEW m \in Nat, m + 1 <= last, NEW s, good(s, m) PROVE good(next(s, m + 1), m + 1)
  <2> DEFINE n == m + 1
             x == pool[n]
  <2>1. n \in 1 .. last /\ n \in 1 .. n /\ x \in members /\ \A k \in 1 .. m : k \in 1 .. n
    BY <1>4
  <2>2. \A j \in 1 .. n : j \in 1 .. m \/ j = n
    <3>1. m \in Nat
      OBVIOUS
    <3>2. QED
      BY <3>1
  <2>3. CASE taken(s, n)
    <3>1. PICK i \in DOMAIN s : NearDuplicate(s[i], x)
      BY <2>3
    <3>2. PICK k \in 1 .. m : s[i] = pool[k]
      BY <1>4
    <3>3. found(s, n)
      BY <2>1, <3>1, <3>2
    <3>4. \A j \in 1 .. n : j \in 1 .. m \/ j = n
      BY <2>2
    <3>5. good(s, n)
      <4>1. among(s, n)
        BY <1>4, <2>1
      <4>2. \A j \in 1 .. n : found(s, j)
        BY <1>4, <3>3, <3>4
      <4>3. QED
        BY <1>4, <4>1, <4>2
    <3>6. next(s, n) = s
      BY <2>3
    <3> HIDE DEF good, next
    <3>7. QED
      BY <3>5, <3>6
  <2>4. CASE ~taken(s, n)
    <3> DEFINE t == Append(s, x)
    <3>1. t \in Seq(members) /\ Len(t) = Len(s) + 1 /\ Len(s) \in Nat /\ DOMAIN s = 1 .. Len(s)
      BY <1>4, <2>1
    <3>2. DOMAIN t = 1 .. Len(s) + 1 /\ t[Len(s) + 1] = x /\ \A i \in DOMAIN s : t[i] = s[i]
      BY <1>4, <2>1, <3>1
    <3> HIDE DEF t
    <3>3. among(t, n)
      <4> TAKE i \in DOMAIN t
      <4>1. CASE i \in DOMAIN s
        <5>1. PICK k \in 1 .. m : s[i] = pool[k]
          BY <4>1, <1>4
        <5>2. t[i] = pool[k] /\ k \in 1 .. n
          BY <4>1, <5>1, <2>1, <3>2
        <5>3. QED
          BY <5>2
      <4>2. CASE i = Len(s) + 1
        BY <4>2, <2>1, <3>2
      <4>3. QED
        BY <4>1, <4>2, <3>1, <3>2
    <3>4. apart(t)
      <4> TAKE i \in DOMAIN t, j \in DOMAIN t
      <4> SUFFICES ASSUME NearDuplicate(t[i], t[j]) PROVE i = j
        OBVIOUS
      <4>1. CASE i \in DOMAIN s /\ j \in DOMAIN s
        BY <4>1, <1>4, <3>2
      <4>2. CASE i \in DOMAIN s /\ j = Len(s) + 1
        BY <4>2, <2>4, <3>2
      <4>3. CASE i = Len(s) + 1 /\ j \in DOMAIN s
        BY <4>3, <2>4, <3>2, DuplicatesBothWays
      <4>4. QED
        BY <4>1, <4>2, <4>3, <3>1, <3>2
    <3>5. \A j \in 1 .. m : found(t, j)
      <4> TAKE j \in 1 .. m
      <4>1. PICK i \in DOMAIN s : \E k \in 1 .. j : s[i] = pool[k] /\ (k = j \/ NearDuplicate(pool[k], pool[j]))
        BY <1>4
      <4>2. i \in DOMAIN t /\ t[i] = s[i]
        BY <3>1, <3>2
      <4>3. QED
        BY <4>1, <4>2
    <3>6. found(t, n)
      <4>1. Len(s) + 1 \in DOMAIN t /\ t[Len(s) + 1] = pool[n]
        BY <3>1, <3>2
      <4>2. QED
        BY <4>1, <2>1
    <3>7. \A j \in 1 .. n : j \in 1 .. m \/ j = n
      BY <2>2
    <3>8. good(t, n)
      <4> HIDE DEF found, among, apart
      <4>1. QED
        BY <3>1, <3>3, <3>4, <3>5, <3>6, <3>7
    <3>9. next(s, n) = t
      BY <2>4 DEF t
    <3> HIDE DEF good, next
    <3>10. QED
      BY <3>8, <3>9
  <2>5. QED
    BY <2>3, <2>4
<1> HIDE DEF good, next
<1> DEFINE G(m, g) == g[0] = <<>> /\ \A k \in 1 .. m : g[k] = next(g[k - 1], k)
           P == {m \in Nat : \E g : G(m, g)}
<1>5. 0 \in P
  <2>1. G(0, [k \in {0} |-> <<>>])
    OBVIOUS
  <2>2. QED
    BY <2>1
<1>6. ASSUME NEW m \in P PROVE m + 1 \in P
  <2>1. PICK g : G(m, g)
    OBVIOUS
  <2> DEFINE h == [k \in 0 .. m + 1 |-> IF k <= m THEN g[k] ELSE next(g[m], m + 1)]
  <2>2. m \in Nat
    OBVIOUS
  <2>3. \A k \in 0 .. m : h[k] = g[k]
    BY <2>2
  <2>4. h[m + 1] = next(g[m], m + 1)
    BY <2>2
  <2> HIDE DEF h
  <2>5. h[0] = <<>>
    BY <2>1, <2>2, <2>3
  <2>6. \A k \in 1 .. m + 1 : h[k] = next(h[k - 1], k)
    BY <2>1, <2>2, <2>3, <2>4
  <2>7. G(m + 1, h)
    BY <2>5, <2>6
  <2> HIDE DEF G
  <2>8. QED
    BY <2>2, <2>7
<1>7. last \in P
  <2> HIDE DEF P, last
  <2>1. P = Nat
    <3>1. P \in SUBSET Nat
      BY DEF P
    <3>2. QED
      BY <1>5, <1>6, <3>1, NatSetInduction
  <2>2. QED
    BY <1>2, <2>1
<1>8. PICK g : G(last, g)
  BY <1>7
<1> HIDE DEF last
<1>9. after = step(after)
  <2> DEFINE h == [k \in 0 .. last |-> g[k]]
  <2>1. h = step(h)
    BY <1>2, <1>8
  <2> HIDE DEF step, h
  <2>2. QED
    BY <2>1
<1> HIDE DEF after
<1>10. /\ after[0] = <<>>
       /\ \A k \in 1 .. last : after[k] = next(after[k - 1], k)
  <2>1. /\ step(after)[0] = <<>>
        /\ \A k \in 1 .. last : step(after)[k] = next(after[k - 1], k)
    BY <1>2
  <2> HIDE DEF step
  <2>2. QED
    BY <1>9, <2>1
<1> DEFINE Q == {m \in Nat : m <= last => good(after[m], m)}
<1>11. 0 \in Q
  BY <1>3, <1>10
<1>12. ASSUME NEW m \in Q PROVE m + 1 \in Q
  <2>1. m + 1 <= last => after[m + 1] = next(after[m], m + 1)
    BY <1>2, <1>10
  <2>2. QED
    BY <1>2, <1>4, <2>1
<1>13. last \in Q
  <2> HIDE DEF Q
  <2>1. Q = Nat
    <3>1. Q \in SUBSET Nat
      BY DEF Q
    <3>2. QED
      BY <1>11, <1>12, <3>1, NatSetInduction
  <2>2. QED
    BY <1>2, <2>1
<1>14. good(after[last], last)
  BY <1>2, <1>13
<1>15. RepresentedBy(after[last], pool)
  BY <1>14 DEF good, last, RepresentedBy
<1>16. QED
  BY <1>1, <1>15

\* What the pruning keeps of a table of scored rules.
LEMMA DropsRepresented ==
  ASSUME NEW s, IsFiniteSet(DOMAIN s), DOMAIN s \in SUBSET Int, \A i \in DOMAIN s : Scored(s[i]),
         NEW pool, pool = AtMostFirst(Ranking(s), MaxPruneCandidates),
         NEW chosen, chosen = Representatives(pool)
  PROVE  /\ \A n \in DOMAIN pool :
              \/ \E i \in DOMAIN chosen : chosen[i] = pool[n]
              \/ \E i \in DOMAIN chosen : NearDuplicate(chosen[i], pool[n]) /\ ~RanksAbove(pool[n], chosen[i])
         /\ \A i, j \in DOMAIN chosen : NearDuplicate(chosen[i], chosen[j]) => i = j
         /\ \E m \in Nat : DOMAIN chosen = 1 .. m /\ \A i \in 1 .. m : \E j \in DOMAIN s : chosen[i] = s[j]
<1>1. PICK count \in Nat :
           /\ Ranking(s) = [n \in 1 .. count |-> Ranking(s)[n]]
           /\ \A n \in 1 .. count : \E i \in DOMAIN s : Ranking(s)[n] = s[i]
           /\ \A m, n \in 1 .. count : m < n => ~RanksAbove(Ranking(s)[n], Ranking(s)[m])
  BY RankingDescends
<1>2. PICK ranked : ranked = Ranking(s)
  OBVIOUS
<1>3. ranked \in Seq({ranked[k] : k \in 1 .. count}) /\ Len(ranked) = count
  <2>1. ranked = [k \in 1 .. count |-> ranked[k]]
    BY <1>1, <1>2
  <2>2. QED
    BY <2>1, FunctionIsSeq
<1>4. PICK S : S = {ranked[k] : k \in 1 .. count}
  OBVIOUS
<1>5. /\ pool \in Seq(S) /\ Len(pool) <= count
      /\ \A i \in 1 .. Len(pool) : pool[i] = ranked[i]
  <2>1. MaxPruneCandidates \in Nat
    BY MinerAssumption
  <2>2. ranked \in Seq(S) /\ pool = AtMostFirst(ranked, MaxPruneCandidates)
    BY <1>2, <1>3, <1>4
  <2>3. QED
    BY <1>3, <2>1, <2>2, AtMostFirstOf
<1>6. Len(pool) \in Nat /\ DOMAIN pool = 1 .. Len(pool)
  BY <1>5
<1>7. RepresentedBy(chosen, pool)
  BY <1>6, RepresentativesOf
<1>8. /\ \A i, j \in DOMAIN chosen : NearDuplicate(chosen[i], chosen[j]) => i = j
      /\ \A n \in 1 .. Len(pool) : \E i \in DOMAIN chosen : \E k \in 1 .. n :
           chosen[i] = pool[k] /\ (k = n \/ NearDuplicate(pool[k], pool[n]))
  BY <1>7 DEF RepresentedBy
<1>9. ASSUME NEW n \in 1 .. Len(pool)
      PROVE  \/ \E i \in DOMAIN chosen : chosen[i] = pool[n]
             \/ \E i \in DOMAIN chosen : NearDuplicate(chosen[i], pool[n]) /\ ~RanksAbove(pool[n], chosen[i])
  <2>1. PICK i \in DOMAIN chosen, k \in 1 .. n :
          chosen[i] = pool[k] /\ (k = n \/ NearDuplicate(pool[k], pool[n]))
    BY <1>8
  <2>2. CASE k = n
    BY <2>1, <2>2
  <2>3. CASE k # n
    <3>1. k < n /\ k \in 1 .. count /\ n \in 1 .. count /\ k \in 1 .. Len(pool)
      BY <1>5, <1>6, <2>3
    <3>2. ~RanksAbove(ranked[n], ranked[k])
      BY <1>1, <1>2, <3>1
    <3>3. pool[n] = ranked[n] /\ pool[k] = ranked[k]
      BY <1>5, <3>1
    <3>4. QED
      BY <2>1, <2>3, <3>2, <3>3
  <2>4. QED
    BY <2>2, <2>3
<1>10. Len(chosen) \in Nat /\ DOMAIN chosen = 1 .. Len(chosen)
  BY <1>7 DEF RepresentedBy
<1>11. ASSUME NEW i \in 1 .. Len(chosen) PROVE \E j \in DOMAIN s : chosen[i] = s[j]
  <2>1. PICK k \in 1 .. Len(pool) : chosen[i] = pool[k]
    <3>1. chosen \in Seq({pool[k] : k \in 1 .. Len(pool)})
      BY <1>7 DEF RepresentedBy
    <3>2. QED
      BY <3>1
  <2>2. k \in 1 .. count /\ pool[k] = ranked[k]
    BY <1>5, <1>6
  <2>3. QED
    BY <1>1, <1>2, <2>1, <2>2
<1>12. QED
  BY <1>6, <1>8, <1>9, <1>10, <1>11

-----------------------------------------------------------------------------
(* The miner: what masks count, and the vocabulary.                        *)

\* The rows of the joined table are finitely many, and so are those of every mask.
LEMMA MasksCounted ==
  ASSUME args.features \in Features
  PROVE  /\ Rows \subseteq DOMAIN args.features.split
         /\ Discovery \subseteq Rows /\ Confirmation \subseteq Rows
         /\ \A mask \in SUBSET Rows :
              /\ IsFiniteSet(mask)
              /\ N(mask) \in Nat /\ K(mask) \in Nat
              /\ mask # {} => N(mask) >= 1
<1>1. Rows \subseteq DOMAIN args.features.split
  BY DEF Rows, Joined
<1>2. IsFiniteSet(Rows)
  BY <1>1, MinerAssumption, FS_Subset
<1>3. \A mask \in SUBSET Rows : IsFiniteSet(mask) /\ IsFiniteSet(mask \cap Failing)
  BY <1>2, FS_Subset
<1>4. \A mask \in SUBSET Rows : N(mask) \in Nat /\ K(mask) \in Nat
  BY <1>3, FS_CardinalityType DEF N, K
<1>5. ASSUME NEW mask \in SUBSET Rows, mask # {} PROVE N(mask) >= 1
  <2>1. N(mask) # 0
    BY <1>3, <1>5, FS_EmptySet DEF N
  <2>2. QED
    BY <2>1, <1>4
<1>6. QED
  BY <1>1, <1>3, <1>4, <1>5 DEF Discovery, Confirmation

\* The scores of a mask within all, which is not empty, are fractions.
LEMMA MasksScored ==
  ASSUME args.features \in Features, NEW all \in SUBSET Rows, NEW mask \in SUBSET all, mask # {}
  PROVE  /\ IsFraction(WRAcc(mask, all))
         /\ \A x \in Lift(mask, all) : IsFraction(x)
         /\ \A x, y \in Lift(mask, all) : x = y
         /\ IsFraction(Quality(mask, all))
<1> DEFINE rest == all \ mask
<1>1. /\ N(mask) \in Nat /\ K(mask) \in Nat /\ N(mask) >= 1
      /\ N(all) \in Nat /\ K(all) \in Nat /\ N(all) >= 1
      /\ N(rest) \in Nat /\ K(rest) \in Nat
  BY MasksCounted
<1>2. N(all) * N(all) \in Nat \ {0}
  <2>1. N(all) \in Nat \ {0}
    BY <1>1
  <2>2. QED
    BY <2>1
<1>3. IsFraction(WRAcc(mask, all))
  <2>1. K(mask) * N(all) - N(mask) * K(all) \in Int
    BY <1>1
  <2>2. QED
    BY <1>2, <2>1 DEF IsFraction, WRAcc
<1>4. K(rest) # 0 => Lift(mask, all) = {[num |-> K(mask) * N(rest), den |-> N(mask) * K(rest)]}
  BY Zenon DEF Lift
<1>5. K(rest) = 0 => Lift(mask, all) = {}
  BY Zenon DEF Lift
<1>6. K(rest) # 0 => IsFraction([num |-> K(mask) * N(rest), den |-> N(mask) * K(rest)])
  <2> SUFFICES ASSUME K(rest) # 0 PROVE IsFraction([num |-> K(mask) * N(rest), den |-> N(mask) * K(rest)])
    OBVIOUS
  <2>1. K(rest) \in Nat \ {0} /\ N(mask) \in Nat \ {0}
    BY <1>1
  <2>2. N(mask) * K(rest) \in Nat \ {0}
    BY <2>1
  <2>3. K(mask) * N(rest) \in Int
    BY <1>1
  <2>4. QED
    BY <2>2, <2>3 DEF IsFraction
<1>7. /\ \A x \in Lift(mask, all) : IsFraction(x)
      /\ \A x, y \in Lift(mask, all) : x = y
  BY <1>4, <1>5, <1>6
<1>8. IsFraction(LiftQuality(mask, all))
  <2>1. CASE mask = all
    <3>1. LiftQuality(mask, all) = [num |-> 0, den |-> 1]
      BY <2>1, Zenon DEF LiftQuality
    <3>2. QED
      BY <3>1 DEF IsFraction
  <2>2. CASE mask # all /\ K(rest) = 0
    <3>1. LiftQuality(mask, all) = [num |-> Unbounded * N(mask) + K(mask), den |-> N(mask)]
      BY <2>2, Zenon DEF LiftQuality
    <3>2. Unbounded * N(mask) + K(mask) \in Int /\ N(mask) \in Nat \ {0}
      BY <1>1 DEF Unbounded
    <3>3. QED
      BY <3>1, <3>2 DEF IsFraction
  <2>3. CASE mask # all /\ K(rest) # 0
    <3>1. LiftQuality(mask, all) = CHOOSE lift \in Lift(mask, all) : TRUE
      BY <2>3, Zenon DEF LiftQuality
    <3>2. \E lift \in Lift(mask, all) : TRUE
      BY <2>3, <1>4
    <3>3. LiftQuality(mask, all) \in Lift(mask, all)
      BY <3>1, <3>2, Zenon
    <3>4. QED
      BY <3>3, <1>7
  <2>4. QED
    BY <2>1, <2>2, <2>3
<1>9. QED
  BY <1>3, <1>7, <1>8, Zenon DEF Quality

\* A column of finitely many cells with at most one value each has finitely many values.
LEMMA FewValues ==
  ASSUME NEW column, IsFiniteSet(DOMAIN column),
         \A i \in DOMAIN column : \A v, w \in column[i] : v = w
  PROVE  IsFiniteSet(Values(column))
<1> DEFINE sets == {column[i] : i \in DOMAIN column}
<1>1. IsFiniteSet(sets)
  BY FiniteImage
<1>2. \A c \in sets : IsFiniteSet(c)
  <2> TAKE c \in sets
  <2>1. CASE c = {}
    BY <2>1, FS_EmptySet
  <2>2. CASE c # {}
    <3>1. PICK v : v \in c
      BY <2>2
    <3>2. c = {v}
      BY <3>1
    <3>3. QED
      BY <3>2, FS_Singleton
  <2>3. QED
    BY <2>1, <2>2
<1>3. QED
  BY <1>1, <1>2, FS_UNION DEF Values

\* The predicates of a column come in a sequence.
LEMMA PredicatesInSeq ==
  ASSUME NEW name, NEW numeric, NEW column, IsFiniteSet(Values(column))
  PROVE  \E P : ColumnPredicates(name, numeric, column) \in Seq(P)
<1>1. \A S : IsFiniteSet(S) => Cardinality(S) \in Nat
  BY FS_CardinalityType
<1>2. \E P : CategoryPredicates(name, column) \in Seq(P)
  <2> DEFINE first(v) == CHOOSE i \in NonNull(column) :
                    column[i] = {v} /\ \A j \in NonNull(column) : column[j] = {v} => i <= j
             frequent == {v \in Values(column) : Count(column, v) >= MinCategoryCount}
             ordered  == Arranged(frequent, LAMBDA v, w :
                    \/ Count(column, v) > Count(column, w)
                    \/ Count(column, v) = Count(column, w) /\ first(v) < first(w))
             chosen   == SubSeq(ordered, 1, IF Len(ordered) < MaxCategories THEN Len(ordered)
                                                                            ELSE MaxCategories)
             list     == [i \in DOMAIN chosen |-> Predicate(name, "=", {chosen[i]})]
  <2>1. CategoryPredicates(name, column) = list
    BY Zenon DEF CategoryPredicates
  <2>2. Cardinality(frequent) \in Nat
    BY <1>1, FS_Subset
  <2>3. ordered \in Seq({ordered[k] : k \in 1 .. Cardinality(frequent)})
    <3> DEFINE before(v, w) ==
                    \/ Count(column, v) > Count(column, w)
                    \/ Count(column, v) = Count(column, w) /\ first(v) < first(w)
               placed == {<<Cardinality({y \in frequent : before(y, x)}) + 1, x>> : x \in frequent}
               at(k) == (CHOOSE p \in placed : p[1] = k)[2]
    <3>1. ordered = [k \in 1 .. Cardinality(frequent) |-> at(k)]
      BY Zenon DEF Arranged
    <3> HIDE DEF ordered, at, frequent
    <3>2. ordered = [k \in 1 .. Cardinality(frequent) |-> ordered[k]]
      BY <3>1
    <3>3. QED
      BY <2>2, <3>2, FunctionIsSeq
  <2> HIDE DEF ordered
  <2>4. PICK A : ordered \in Seq(A)
    BY <2>3, Zenon
  <2>5. chosen \in Seq(A)
    <3>1. Len(ordered) \in Nat /\ MaxCategories \in Nat
      BY <2>4, DiscretizeAssumption
    <3>2. QED
      BY <2>4, <3>1
  <2> HIDE DEF chosen
  <2>6. Len(chosen) \in Nat /\ DOMAIN chosen = 1 .. Len(chosen)
    BY <2>5
  <2> DEFINE value(i) == Predicate(name, "=", {chosen[i]})
  <2>7. list = [i \in 1 .. Len(chosen) |-> value(i)]
    BY <2>6
  <2> HIDE DEF value, list
  <2>8. list = [i \in 1 .. Len(chosen) |-> list[i]]
    BY <2>7
  <2>9. QED
    BY <2>1, <2>6, <2>8, FunctionIsSeq
<1>3. \E P : ThresholdPredicates(name, column) \in Seq(P)
  <2>1. CASE Cardinality(Values(column)) < 2
    BY <2>1 DEF ThresholdPredicates
  <2>2. CASE ~(Cardinality(Values(column)) < 2)
    <3> DEFINE cuts == Arranged(Edges(column), <)
               value(n) == Predicate(name, IF n % 2 = 1 THEN ">=" ELSE "<", {cuts[(n + 1) \div 2]})
               list == [n \in 1 .. 2 * Len(cuts) |-> value(n)]
    <3>1. ThresholdPredicates(name, column) = list
      BY <2>2, Zenon DEF ThresholdPredicates
    <3>2. IsFiniteSet(Edges(column))
      <4>1. IsFiniteSet(QuantileEdges(column))
        <5>1. NBins - 1 \in Nat
          BY DiscretizeAssumption
        <5>2. IsFiniteSet(1 .. NBins - 1)
          BY <5>1, FS_Interval
        <5> DEFINE total == Cardinality(NonNull(column))
                   upTo(v) == Cardinality({i \in NonNull(column) : \E w \in column[i] : w <= v})
                   at(n) == CHOOSE v \in Values(column) :
                              upTo(v) - Count(column, v) < n /\ n <= upTo(v)
                   edge(b) == LET pos == b * (total - 1)
                                  low == pos \div NBins
                                  f   == pos % NBins
                              IN Rounded(at(low + 1) * (NBins - f)
                                           + (IF f = 0 THEN 0 ELSE at(low + 2) * f), NBins)
                   bins == 1 .. NBins - 1
        <5>3. QuantileEdges(column) = {edge(b) : b \in bins}
          BY Zenon DEF QuantileEdges
        <5> HIDE DEF edge, bins
        <5>4. {edge(b) : b \in bins} = {[x \in bins |-> edge(x)][b] : b \in bins}
          OBVIOUS
        <5>5. IsFiniteSet({[x \in bins |-> edge(x)][b] : b \in bins})
          <6> DEFINE f == [b \in bins |-> edge(b)]
          <6> HIDE DEF f
          <6>1. IsFiniteSet({f[b] : b \in bins})
            BY <5>2, FiniteImage DEF bins
          <6>2. QED
            BY <6>1 DEF f
        <5>6. QED
          BY <5>3, <5>4, <5>5
      <4>2. Edges(column) \subseteq Values(column) \cup QuantileEdges(column)
        BY DEF Edges
      <4>3. QED
        BY <4>1, <4>2, FS_Union, FS_Subset
    <3>3. Cardinality(Edges(column)) \in Nat
      BY <3>2, <1>1
    <3> DEFINE edges == Edges(column)
               placed == {<<Cardinality({y \in edges : y < x}) + 1, x>> : x \in edges}
               at(k) == (CHOOSE p \in placed : p[1] = k)[2]
    <3>4. cuts = [k \in 1 .. Cardinality(edges) |-> at(k)]
      BY Zenon DEF Arranged
    <3> HIDE DEF cuts, at
    <3>5. cuts = [k \in 1 .. Cardinality(edges) |-> cuts[k]]
      BY <3>4
    <3>6. Len(cuts) \in Nat
      BY <3>3, <3>5, FunctionIsSeq
    <3> HIDE DEF value, list
    <3>7. list = [n \in 1 .. 2 * Len(cuts) |-> list[n]]
      BY DEF list
    <3>8. 2 * Len(cuts) \in Nat
      BY <3>6
    <3>9. QED
      BY <3>1, <3>7, <3>8, FunctionIsSeq
  <2>3. QED
    BY <2>1, <2>2
<1>4. \E P : NullPredicates(name, column) \in Seq(P)
  <2> DEFINE p == Predicate(name, "IS NULL", {})
             q == Predicate(name, "IS NOT NULL", {})
  <2>1. NullPredicates(name, column) \in {<<>>, <<p, q>>}
    BY Zenon DEF NullPredicates
  <2> HIDE DEF p, q
  <2>2. <<>> \in Seq({p, q}) /\ <<p, q>> \in Seq({p, q})
    OBVIOUS
  <2>3. NullPredicates(name, column) \in Seq({p, q})
    BY <2>1, <2>2, Zenon
  <2>4. QED
    BY <2>3, Zenon
<1>5. \A s, t, P, Q : s \in Seq(P) /\ t \in Seq(Q) => s \o t \in Seq(P \cup Q)
  <2> TAKE s, t, P, Q
  <2> SUFFICES ASSUME s \in Seq(P), t \in Seq(Q) PROVE s \o t \in Seq(P \cup Q)
    OBVIOUS
  <2>1. s \in Seq(P \cup Q) /\ t \in Seq(P \cup Q)
    <3>1. \A u \in Seq(P) : u \in Seq(P \cup Q)
      OBVIOUS
    <3>2. \A u \in Seq(Q) : u \in Seq(P \cup Q)
      OBVIOUS
    <3>3. QED
      BY <3>1, <3>2
  <2>2. QED
    BY <2>1
<1> DEFINE rest == IF NonNull(column) = {} THEN <<>>
                   ELSE IF numeric THEN ThresholdPredicates(name, column)
                   ELSE CategoryPredicates(name, column)
<1>6. \E Q : rest \in Seq(Q)
  <2>1. <<>> \in Seq({})
    OBVIOUS
  <2>2. QED
    BY <1>2, <1>3, <2>1, Zenon
<1>7. ColumnPredicates(name, numeric, column) = NullPredicates(name, column) \o rest
  BY DEF ColumnPredicates
<1> HIDE DEF rest
<1>8. PICK P : NullPredicates(name, column) \in Seq(P)
  BY <1>4
<1>9. PICK Q : rest \in Seq(Q)
  BY <1>6
<1>10. NullPredicates(name, column) \o rest \in Seq(P \cup Q)
  BY <1>5, <1>8, <1>9, Zenon
<1>11. QED
  BY <1>7, <1>10, Zenon

\* One sequence after the other is a sequence.
LEMMA FlattenIsSeq ==
  ASSUME NEW S, NEW s \in Seq(Seq(S))
  PROVE  FlattenSeq(s) \in Seq(S)
<1> DEFINE step(g) == [i \in 1 .. Len(s) |-> IF i = 1 THEN s[i] ELSE g[i - 1] \o s[i]]
           flat == CHOOSE g : g = step(g)
<1>1. CASE Len(s) = 0
  <2>1. s = <<>>
    BY <1>1
  <2>2. QED
    BY <1>1, <2>1, Zenon, EmptySeq DEF FlattenSeq
<1>2. CASE Len(s) # 0
  <2>1. FlattenSeq(s) = flat[Len(s)]
    BY <1>2, Zenon DEF FlattenSeq
  <2>2. Len(s) \in Nat /\ Len(s) - 1 \in Nat /\ \A i \in 1 .. Len(s) : s[i] \in Seq(S)
    BY <1>2
  <2> DEFINE last == Len(s) - 1
             next == [p \in Seq(S) \X (1 .. last) |-> p[1] \o s[p[2] + 1]]
  <2>3. \A x \in Seq(S), n \in 1 .. last : next[<<x, n>>] = x \o s[n + 1] /\ x \o s[n + 1] \in Seq(S)
    <3> TAKE x \in Seq(S), n \in 1 .. last
    <3>1. n + 1 \in 1 .. Len(s)
      BY <2>2
    <3>2. s[n + 1] \in Seq(S)
      BY <2>2, <3>1
    <3>3. next[<<x, n>>] = x \o s[n + 1]
      <4>1. <<x, n>> \in Seq(S) \X (1 .. last) /\ <<x, n>>[1] = x /\ <<x, n>>[2] = n
        OBVIOUS
      <4>2. QED
        BY <4>1, Zenon
    <3>4. \A t \in Seq(S) : x \o t \in Seq(S)
      OBVIOUS
    <3>5. QED
      BY <3>2, <3>3, <3>4, Zenon
  <2> HIDE DEF next
  <2>4. s[1] \in Seq(S)
    BY <2>2
  <2>5. PICK h \in [0 .. last -> Seq(S)] :
          h[0] = s[1] /\ \A n \in 1 .. last : h[n] = next[<<h[n - 1], n>>]
    <3>1. \A x \in Seq(S), n \in 1 .. last : next[<<x, n>>] \in Seq(S)
      BY <2>3
    <3>2. last \in Nat
      BY <2>2
    <3> HIDE DEF last
    <3>3. StaysIn(next, Seq(S), last)
      BY <3>1 DEF StaysIn
    <3>4. \E h : Recursion(h, Seq(S), last, s[1], next)
      BY <2>4, <3>2, <3>3, RecursionExists, Zenon
    <3>5. QED
      BY <3>4 DEF Recursion
  <2>6. \A n \in 1 .. last : h[n] = h[n - 1] \o s[n + 1]
    <3> TAKE n \in 1 .. last
    <3>1. n - 1 \in 0 .. last
      BY <2>2
    <3>2. h[n - 1] \in Seq(S)
      BY <3>1, Zenon
    <3>3. QED
      BY <2>3, <2>5, <3>2
  <2> DEFINE g == [i \in 1 .. Len(s) |-> h[i - 1]]
  <2>7. \A i \in 1 .. Len(s) : g[i] = IF i = 1 THEN s[i] ELSE g[i - 1] \o s[i]
    <3> TAKE i \in 1 .. Len(s)
    <3>1. CASE i = 1
      BY <3>1, <2>5
    <3>2. CASE i # 1
      <4>1. i - 1 \in 1 .. last /\ i - 1 \in 1 .. Len(s) /\ (i - 1) + 1 = i /\ (i - 1) - 1 \in 0 .. last
        BY <2>2, <3>2
      <4>2. g[i - 1] = h[(i - 1) - 1]
        BY <4>1
      <4>3. h[i - 1] = h[(i - 1) - 1] \o s[(i - 1) + 1]
        BY <2>6, <4>1
      <4>4. QED
        BY <4>1, <4>2, <4>3, <3>2
    <3>3. QED
      BY <3>1, <3>2
  <2>8. g = step(g)
    BY <2>7
  <2> HIDE DEF g, step
  <2>9. flat = step(flat)
    BY <2>8
  <2> HIDE DEF flat
  <2>10. \A i \in 1 .. Len(s) : flat[i] = IF i = 1 THEN s[i] ELSE flat[i - 1] \o s[i]
    <3>1. \A i \in 1 .. Len(s) : step(flat)[i] = IF i = 1 THEN s[i] ELSE flat[i - 1] \o s[i]
      BY DEF step
    <3>2. QED
      BY <2>9, <3>1
  <2> DEFINE P == {m \in Nat : m + 1 <= Len(s) => flat[m + 1] \in Seq(S)}
  <2>11. 0 \in P
    BY <2>2, <2>10
  <2>12. ASSUME NEW m \in P PROVE m + 1 \in P
    <3>1. ASSUME (m + 1) + 1 <= Len(s) PROVE flat[(m + 1) + 1] \in Seq(S)
      <4>1. (m + 1) + 1 \in 1 .. Len(s) /\ (m + 1) + 1 # 1 /\ ((m + 1) + 1) - 1 = m + 1 /\ m + 1 <= Len(s)
        BY <2>2, <3>1
      <4>2. flat[(m + 1) + 1] = flat[m + 1] \o s[(m + 1) + 1]
        BY <4>1, <2>10
      <4>3. flat[m + 1] \in Seq(S) /\ s[(m + 1) + 1] \in Seq(S)
        BY <4>1, <2>2
      <4>4. QED
        BY <4>2, <4>3
    <3>2. QED
      BY <3>1
  <2>13. last \in P
    <3> HIDE DEF P
    <3>1. P = Nat
      <4>1. P \in SUBSET Nat
        BY DEF P
      <4>2. QED
        BY <2>11, <2>12, <4>1, NatSetInduction
    <3>2. QED
      BY <2>2, <3>1
  <2>14. QED
    BY <2>1, <2>2, <2>13
<1>3. QED
  BY <1>1, <1>2

\* The vocabulary is a sequence.
LEMMA VocabularyIsSeq ==
  ASSUME args.features \in Features
  PROVE  \E P : Vocabulary(Discovery) \in Seq(P)
<1> DEFINE all == args.features.columns
           I == {i \in DOMAIN all : all[i] \notin Excluded}
           columns == Selected(all, I)
           seen(c) == [s \in Discovery |-> args.features.cells[c][s]]
           predicatesOf(i) == ColumnPredicates(columns[i], columns[i] \in args.features.numeric, seen(columns[i]))
           lists == [i \in DOMAIN columns |-> predicatesOf(i)]
<1>1. Vocabulary(Discovery) = FlattenSeq(lists)
  BY Zenon DEF Vocabulary
<1>2. all \in Seq(DOMAIN args.features.cells)
  BY MinerAssumption
<1>3. DOMAIN all = 1 .. Len(all) /\ Len(all) \in Nat
  BY <1>2
<1>4. I \in SUBSET Int /\ IsFiniteSet(I)
  <2>1. IsFiniteSet(1 .. Len(all))
    BY <1>3, FS_Interval
  <2>2. I \subseteq 1 .. Len(all)
    BY <1>3
  <2>3. QED
    BY <2>1, <2>2, FS_Subset
<1> HIDE DEF I
<1>5. /\ Cardinality(I) \in Nat
      /\ DOMAIN columns = 1 .. Cardinality(I)
      /\ \A n \in 1 .. Cardinality(I) : \E i \in I : columns[n] = all[i]
  <2>1. PICK J \in SUBSET Int : J = I /\ IsFiniteSet(J)
    BY <1>4
  <2>2. PICK s : s = all
    OBVIOUS
  <2>3. /\ Cardinality(J) \in Nat
        /\ DOMAIN Selected(s, J) = 1 .. Cardinality(J)
        /\ \A n \in 1 .. Cardinality(J) : \E i \in J : Selected(s, J)[n] = s[i]
    BY <2>1, SelectedFrom
  <2>4. QED
    BY <2>1, <2>2, <2>3, Zenon
<1> HIDE DEF columns
<1>6. \A n \in DOMAIN columns : columns[n] \in DOMAIN args.features.cells
  <2>1. \A i \in I : all[i] \in DOMAIN args.features.cells
    BY <1>2, <1>3 DEF I
  <2>2. QED
    BY <1>5, <2>1
<1>7. \A c \in DOMAIN args.features.cells : IsFiniteSet(Values(seen(c)))
  <2> TAKE c \in DOMAIN args.features.cells
  <2>1. DOMAIN seen(c) = Discovery /\ \A s \in Discovery : seen(c)[s] = args.features.cells[c][s]
    OBVIOUS
  <2>2. IsFiniteSet(Discovery) /\ Discovery \subseteq DOMAIN args.features.split
    BY MasksCounted
  <2>3. \A s \in Discovery : \A v, w \in args.features.cells[c][s] : v = w
    BY <2>2, MinerAssumption
  <2> HIDE DEF seen
  <2>4. QED
    BY <2>1, <2>2, <2>3, FewValues
<1>8. \A i \in DOMAIN columns : \E P : predicatesOf(i) \in Seq(P)
  <2> TAKE i \in DOMAIN columns
  <2>1. IsFiniteSet(Values(seen(columns[i])))
    BY <1>6, <1>7
  <2> HIDE DEF seen
  <2>2. QED
    BY <2>1, PredicatesInSeq, Zenon
<1> HIDE DEF predicatesOf
<1> DEFINE P(i) == CHOOSE Q : predicatesOf(i) \in Seq(Q)
           S == UNION {P(i) : i \in DOMAIN columns}
<1>9. \A i \in DOMAIN columns : predicatesOf(i) \in Seq(S)
  <2> TAKE i \in DOMAIN columns
  <2>1. predicatesOf(i) \in Seq(P(i))
    BY <1>8, Zenon
  <2> HIDE DEF P
  <2>2. P(i) \subseteq S
    OBVIOUS
  <2> HIDE DEF S
  <2>3. QED
    BY <2>1, <2>2
<1> HIDE DEF P, S
<1>10. lists = [i \in 1 .. Cardinality(I) |-> lists[i]]
  BY <1>5
<1>11. \A i \in 1 .. Cardinality(I) : lists[i] \in Seq(S)
  BY <1>5, <1>9
<1> HIDE DEF lists
<1>12. lists \in Seq(Seq(S))
  <2>1. lists \in [1 .. Cardinality(I) -> Seq(S)]
    BY <1>10, <1>11
  <2>2. QED
    BY <1>5, <2>1
<1>13. QED
  BY <1>1, <1>12, FlattenIsSeq

-----------------------------------------------------------------------------
(* The miner: one pass of the search.                                      *)

\* Conjunctions of predicates, by their positions in the vocabulary.
Conjunctions == {rule \in SUBSET Nat : IsFiniteSet(rule)}

\* What may be registered.
Proposals ==
  {[rule |-> rule, mask |-> mask, quality |-> Quality(mask, Discovery)] :
     rule \in Conjunctions, mask \in {m \in SUBSET Discovery : N(m) >= MinCoverage}}

\* No two proposals cover the same rows.
DistinctMasks(s) == \A c, d \in DOMAIN s : s[c].mask = s[d].mask => c = d

\* The fields of a proposal, and what makes one.
LEMMA ProposalsAre ==
  /\ \A r \in Proposals : /\ r.rule \in Conjunctions
                          /\ r.mask \in SUBSET Discovery /\ N(r.mask) >= MinCoverage
                          /\ r.quality = Quality(r.mask, Discovery)
  /\ \A rule \in Conjunctions, mask \in SUBSET Discovery : N(mask) >= MinCoverage =>
       [rule |-> rule, mask |-> mask, quality |-> Quality(mask, Discovery)] \in Proposals
<1>1. ASSUME NEW r \in Proposals
      PROVE  /\ r.rule \in Conjunctions
             /\ r.mask \in SUBSET Discovery /\ N(r.mask) >= MinCoverage
             /\ r.quality = Quality(r.mask, Discovery)
  <2>1. PICK rule \in Conjunctions, mask \in {m \in SUBSET Discovery : N(m) >= MinCoverage} :
          r = [rule |-> rule, mask |-> mask, quality |-> Quality(mask, Discovery)]
    BY DEF Proposals
  <2>2. r.rule = rule /\ r.mask = mask /\ r.quality = Quality(mask, Discovery)
    BY <2>1
  <2>3. QED
    BY <2>2
<1>2. ASSUME NEW rule \in Conjunctions, NEW mask \in SUBSET Discovery, N(mask) >= MinCoverage
      PROVE  [rule |-> rule, mask |-> mask, quality |-> Quality(mask, Discovery)] \in Proposals
  BY <1>2 DEF Proposals
<1>3. QED
  BY <1>1, <1>2

\* After registering a proposal with this rule and mask.
Registered(all, known, rule, mask) ==
  /\ all \in Seq(Proposals) /\ Len(known) <= Len(all)
  /\ \A c \in 1 .. Len(known) : all[c] = known[c]
  /\ \A c \in Len(known) + 1 .. Len(all) : all[c].rule = rule /\ all[c].mask = mask
  /\ N(mask) >= MinCoverage => \E c \in 1 .. Len(all) : all[c].mask = mask
  /\ DistinctMasks(known) => DistinctMasks(all)

\* Registering a proposal: it is there afterwards, itself or under another rule with the
\* same mask, unless it is below the floor; nothing else is, and masks stay distinct.
LEMMA RegisterOf ==
  ASSUME args.features \in Features,
         NEW known \in Seq(Proposals), NEW rule \in Conjunctions, NEW mask \in SUBSET Discovery,
         NEW all, all = Register(known, rule, mask)
  PROVE  Registered(all, known, rule, mask)
<1> DEFINE new == [rule |-> rule, mask |-> mask, quality |-> Quality(mask, Discovery)]
           there == \E c \in DOMAIN known : known[c].mask = mask
<1>1. all = IF N(mask) < MinCoverage \/ there THEN known ELSE Append(known, new)
  BY Zenon DEF Register
<1>2. Len(known) \in Nat /\ DOMAIN known = 1 .. Len(known)
  OBVIOUS
<1>3. CASE N(mask) < MinCoverage \/ there
  <2>1. all = known
    BY <1>1, <1>3
  <2>2. N(mask) < MinCoverage => ~(N(mask) >= MinCoverage)
    <3>1. N(mask) \in Nat
      BY MasksCounted
    <3>2. QED
      BY <3>1, MinerAssumption
  <2>3. QED
    BY <1>2, <1>3, <2>1, <2>2 DEF Registered
<1>4. CASE ~(N(mask) < MinCoverage) /\ ~there
  <2>1. all = Append(known, new)
    BY <1>1, <1>4
  <2>2. new \in Proposals /\ new.rule = rule /\ new.mask = mask
    <3>1. N(mask) \in Nat
      BY MasksCounted
    <3>2. N(mask) >= MinCoverage
      BY <1>4, <3>1, MinerAssumption
    <3>3. QED
      BY <3>2, ProposalsAre
  <2> HIDE DEF new
  <2>3. /\ all \in Seq(Proposals) /\ Len(all) = Len(known) + 1
        /\ \A c \in 1 .. Len(known) : all[c] = known[c]
        /\ all[Len(known) + 1] = new
    BY <1>2, <2>1, <2>2
  <2>4. DOMAIN all = 1 .. Len(known) + 1
    BY <2>3
  <2>5. ASSUME DistinctMasks(known) PROVE DistinctMasks(all)
    <3> SUFFICES ASSUME NEW c \in DOMAIN all, NEW d \in DOMAIN all, all[c].mask = all[d].mask PROVE c = d
      BY DEF DistinctMasks
    <3>1. c \in 1 .. Len(known) \/ c = Len(known) + 1
      BY <1>2, <2>4
    <3>2. d \in 1 .. Len(known) \/ d = Len(known) + 1
      BY <1>2, <2>4
    <3>3. CASE c \in 1 .. Len(known) /\ d \in 1 .. Len(known)
      BY <1>2, <2>3, <2>5, <3>3 DEF DistinctMasks
    <3>4. QED
      BY <1>2, <1>4, <2>2, <2>3, <3>1, <3>2, <3>3
  <2>6. QED
    BY <1>2, <2>2, <2>3, <2>5 DEF Registered
<1>5. QED
  BY <1>3, <1>4

\* A rule of the search: one of the parents with a predicate of the vocabulary it lacks.
ExtendsOne(r, vocabulary, parents) ==
  \E i \in 1 .. Len(parents), j \in 1 .. Len(vocabulary) :
    /\ j \notin parents[i].rule
    /\ r.rule = parents[i].rule \cup {j}
    /\ r.mask = parents[i].mask \cap Covered(vocabulary[j], Discovery)

\* all is known with what one pass has registered.
ExtendedBy(all, known, vocabulary, parents) ==
  /\ Len(known) <= Len(all)
  /\ \A c \in 1 .. Len(known) : all[c] = known[c]
  /\ \A c \in Len(known) + 1 .. Len(all) : ExtendsOne(all[c], vocabulary, parents)
  /\ \A i \in 1 .. Len(parents) : \A j \in 1 .. Len(vocabulary) :
       /\ j \notin parents[i].rule
       /\ N(parents[i].mask \cap Covered(vocabulary[j], Discovery)) >= MinCoverage
       => \E c \in 1 .. Len(all) :
            all[c].mask = parents[i].mask \cap Covered(vocabulary[j], Discovery)
  /\ DistinctMasks(known) => DistinctMasks(all)

\* What one pass of the search registers: every extension of a parent that clears the floor
\* is there, itself or under another rule with the same mask, and nothing else is new.
LEMMA ExtendedOf ==
  ASSUME args.features \in Features, NEW known \in Seq(Proposals),
         NEW vocabulary, Len(vocabulary) \in Nat, NEW parents, Len(parents) \in Nat,
         \A i \in 1 .. Len(parents) :
           parents[i].rule \in Conjunctions /\ parents[i].mask \in SUBSET Discovery,
         NEW all, all = Extended(known, vocabulary, parents)
  PROVE  all \in Seq(Proposals) /\ ExtendedBy(all, known, vocabulary, parents)
<1> DEFINE size == Len(vocabulary)
           parent(n) == parents[((n - 1) \div size) + 1]
           added(n)  == ((n - 1) % size) + 1
           last == Len(parents) * size
           rule(n) == parent(n).rule \cup {added(n)}
           mask(n) == parent(n).mask \cap Covered(vocabulary[added(n)], Discovery)
           skipped(n) == added(n) \in parent(n).rule
           next(before, n) == IF skipped(n) THEN before ELSE Register(before, rule(n), mask(n))
           step(g) == [n \in 0 .. last |-> IF n = 0 THEN known ELSE next(g[n - 1], n)]
           after == CHOOSE g : g = step(g)
<1>1. all = after[last]
  BY Zenon DEF Extended
<1>2. last \in Nat
  OBVIOUS
<1>3. ASSUME NEW n \in 1 .. last
      PROVE  /\ ((n - 1) \div size) + 1 \in 1 .. Len(parents) /\ added(n) \in 1 .. size
             /\ rule(n) \in Conjunctions /\ mask(n) \in SUBSET Discovery
  <2>1. size \in Nat \ {0} /\ Len(parents) \in Nat \ {0}
    <3>1. \A x, y \in Nat : x * y >= 1 => x # 0 /\ y # 0
      OBVIOUS
    <3>2. QED
      BY <3>1
  <2>2. ((n - 1) \div size) + 1 \in 1 .. Len(parents) /\ added(n) \in 1 .. size
    BY <2>1, GridPlaces
  <2>3. added(n) \in Nat
    BY <2>1, <2>2
  <2>4. parent(n).rule \in Conjunctions /\ parent(n).mask \in SUBSET Discovery
    BY <2>2
  <2> HIDE DEF added, parent
  <2>5. rule(n) \in Conjunctions
    BY <2>3, <2>4, FS_AddElement DEF Conjunctions
  <2>6. mask(n) \in SUBSET Discovery
    BY <2>4
  <2>7. QED
    BY <2>2, <2>5, <2>6
<1>4. \A i \in 1 .. Len(parents), j \in 1 .. size : \E n \in 1 .. last :
        ((n - 1) \div size) + 1 = i /\ added(n) = j
  <2> TAKE i \in 1 .. Len(parents), j \in 1 .. size
  <2> DEFINE n == (i - 1) * size + (j - 1) + 1
  <2>1. size \in Nat \ {0} /\ i - 1 \in Nat /\ j - 1 \in 0 .. size - 1
    OBVIOUS
  <2>2. (i - 1) * size \in Nat /\ (i - 1) * size + size <= last
    <3>1. \A x, y, z \in Nat : x + 1 <= y => x * z \in Nat /\ x * z + z <= y * z
      <4> SUFFICES ASSUME NEW x \in Nat, NEW y \in Nat, NEW z \in Nat, x + 1 <= y
                   PROVE x * z \in Nat /\ x * z + z <= y * z
        OBVIOUS
      <4>1. (x + 1) * z <= y * z /\ (x + 1) * z = x * z + z
        OBVIOUS
      <4>2. QED
        BY <4>1
    <3>2. (i - 1) + 1 <= Len(parents)
      OBVIOUS
    <3>3. QED
      BY <2>1, <3>1, <3>2
  <2>3. n - 1 = (i - 1) * size + (j - 1) /\ n \in 1 .. last
    <3> HIDE DEF last
    <3>1. PICK x \in Nat : x = (i - 1) * size /\ x + size <= last
      BY <2>2
    <3>2. x + (j - 1) + 1 \in 1 .. last /\ (x + (j - 1) + 1) - 1 = x + (j - 1)
      BY <1>2, <2>1, <3>1
    <3>3. QED
      BY <3>1, <3>2
  <2> HIDE DEF n, last
  <2>4. (n - 1) \div size = i - 1 /\ (n - 1) % size = j - 1
    <3>1. PICK q \in Nat, r \in 0 .. size - 1, d \in Nat \ {0}, a \in {n - 1} :
            q = i - 1 /\ r = j - 1 /\ d = size
      BY <2>1
    <3>2. a = q * d + r
      <4>1. a = n - 1
        OBVIOUS
      <4>2. QED
        BY <2>3, <3>1, <4>1
    <3>3. r \in 0 .. d - 1
      BY <3>1
    <3>4. a \div d = q /\ a % d = r
      BY <3>2, <3>3, DivUnique, Zenon
    <3>5. QED
      BY <3>1, <3>4
  <2>5. \A x, y : x = i - 1 /\ y = j - 1 => x + 1 = i /\ y + 1 = j
    OBVIOUS
  <2>6. ((n - 1) \div size) + 1 = i /\ ((n - 1) % size) + 1 = j
    BY <2>4, <2>5, Zenon
  <2>7. QED
    BY <2>3, <2>6, Zenon
<1> DEFINE good(s, m) ==
             /\ s \in Seq(Proposals) /\ Len(known) <= Len(s)
             /\ \A c \in 1 .. Len(known) : s[c] = known[c]
             /\ \A c \in Len(known) + 1 .. Len(s) : \E n \in 1 .. last :
                  ~skipped(n) /\ s[c].rule = rule(n) /\ s[c].mask = mask(n)
             /\ \A n \in 1 .. m : ~skipped(n) /\ N(mask(n)) >= MinCoverage =>
                  \E c \in 1 .. Len(s) : s[c].mask = mask(n)
             /\ DistinctMasks(known) => DistinctMasks(s)
<1>5. good(known, 0)
  <2>1. Len(known) <= Len(known) /\ Len(known) + 1 > Len(known)
    OBVIOUS
  <2> HIDE DEF last, rule, mask, skipped
  <2>2. QED
    BY <2>1
<1> HIDE DEF rule, mask, skipped
<1>6. ASSUME NEW m \in Nat, m + 1 <= last, NEW s, good(s, m) PROVE good(next(s, m + 1), m + 1)
  <2> DEFINE n == m + 1
             t == next(s, n)
  <2>1. n \in 1 .. last /\ \A k \in 1 .. n : k \in 1 .. m \/ k = n
    <3> HIDE DEF last
    <3>1. QED
      BY <1>2, <1>6
  <2> HIDE DEF n, last
  <2>2. CASE skipped(n)
    <3>1. t = s
      BY <2>2, Zenon
    <3>2. good(s, n)
      BY <1>6, <2>1, <2>2
    <3> HIDE DEF good, t
    <3>3. good(t, n)
      BY <3>1, <3>2
    <3>4. QED
      BY <3>3 DEF n, t
  <2>3. CASE ~skipped(n)
    <3>1. t = Register(s, rule(n), mask(n))
      BY <2>3, Zenon
    <3> HIDE DEF t
    <3>2. rule(n) \in Conjunctions /\ mask(n) \in SUBSET Discovery
      BY <1>3, <2>1
    <3>3. s \in Seq(Proposals) /\ Len(known) <= Len(s)
      BY <1>6
    <3>4. /\ t \in Seq(Proposals) /\ Len(s) <= Len(t)
          /\ \A c \in 1 .. Len(s) : t[c] = s[c]
          /\ \A c \in Len(s) + 1 .. Len(t) : t[c].rule = rule(n) /\ t[c].mask = mask(n)
          /\ N(mask(n)) >= MinCoverage => \E c \in 1 .. Len(t) : t[c].mask = mask(n)
          /\ DistinctMasks(s) => DistinctMasks(t)
      <4>1. PICK x \in Conjunctions, y \in SUBSET Discovery : x = rule(n) /\ y = mask(n)
        BY <3>2
      <4>2. t = Register(s, x, y)
        BY <3>1, <4>1
      <4>3. Registered(t, s, x, y)
        BY <3>3, <4>2, RegisterOf
      <4>4. Registered(t, s, rule(n), mask(n))
        BY <4>1, <4>3, Zenon
      <4>5. QED
        BY <4>4, Zenon DEF Registered
    <3>5. Len(known) \in Nat /\ Len(s) \in Nat /\ Len(t) \in Nat /\ Len(known) <= Len(t)
      BY <3>3, <3>4
    <3>6. \A c \in 1 .. Len(known) : t[c] = known[c]
      <4>1. \A c \in 1 .. Len(known) : c \in 1 .. Len(s) /\ s[c] = known[c]
        BY <1>6, <3>3, <3>5
      <4>2. QED
        BY <3>4, <4>1
    <3>7. \A c \in Len(known) + 1 .. Len(t) : \E k \in 1 .. last :
            ~skipped(k) /\ t[c].rule = rule(k) /\ t[c].mask = mask(k)
      <4> TAKE c \in Len(known) + 1 .. Len(t)
      <4>1. CASE c <= Len(s)
        <5>1. c \in Len(known) + 1 .. Len(s) /\ c \in 1 .. Len(s)
          BY <3>5, <4>1
        <5>2. \E k \in 1 .. last : ~skipped(k) /\ s[c].rule = rule(k) /\ s[c].mask = mask(k)
          BY <1>6, <5>1
        <5>3. t[c] = s[c]
          BY <3>4, <5>1
        <5>4. QED
          BY <5>2, <5>3
      <4>2. CASE ~(c <= Len(s))
        <5>1. c \in Len(s) + 1 .. Len(t)
          BY <3>5, <4>2
        <5>2. QED
          BY <2>1, <2>3, <3>4, <5>1
      <4>3. QED
        BY <4>1, <4>2
    <3>8. \A k \in 1 .. n : ~skipped(k) /\ N(mask(k)) >= MinCoverage =>
            \E c \in 1 .. Len(t) : t[c].mask = mask(k)
      <4> TAKE k \in 1 .. n
      <4> SUFFICES ASSUME ~skipped(k), N(mask(k)) >= MinCoverage
                   PROVE \E c \in 1 .. Len(t) : t[c].mask = mask(k)
        OBVIOUS
      <4>1. CASE k = n
        BY <3>4, <4>1
      <4>2. CASE k \in 1 .. m
        <5>1. PICK c \in 1 .. Len(s) : s[c].mask = mask(k)
          BY <1>6, <4>2
        <5>2. c \in 1 .. Len(t) /\ t[c] = s[c]
          BY <3>4, <3>5
        <5>3. QED
          BY <5>1, <5>2
      <4>3. QED
        BY <2>1, <4>1, <4>2
    <3>9. DistinctMasks(known) => DistinctMasks(t)
      BY <1>6, <3>4
    <3>10. good(t, n)
      BY <3>4, <3>5, <3>6, <3>7, <3>8, <3>9
    <3> HIDE DEF good
    <3>11. QED
      BY <3>10 DEF n, t
  <2>4. QED
    BY <2>2, <2>3
<1>7. ASSUME NEW s \in Seq(Proposals), NEW n \in 1 .. last PROVE next(s, n) \in Seq(Proposals)
  <2>1. CASE skipped(n)
    BY <2>1
  <2>2. CASE ~skipped(n)
    <3>1. PICK x \in Conjunctions, y \in SUBSET Discovery : x = rule(n) /\ y = mask(n)
      BY <1>3
    <3>2. PICK t : t = Register(s, x, y)
      OBVIOUS
    <3>3. t \in Seq(Proposals)
      BY <3>2, RegisterOf DEF Registered
    <3>4. next(s, n) = t
      BY <2>2, <3>1, <3>2, Zenon
    <3>5. QED
      BY <3>3, <3>4
  <2>3. QED
    BY <2>1, <2>2
<1> HIDE DEF next, last
<1>8. \E h : h[0] = known /\ \A n \in 1 .. last : h[n] = next(h[n - 1], n)
  <2> DEFINE f == [p \in Seq(Proposals) \X (1 .. last) |-> next(p[1], p[2])]
  <2>1. \A x \in Seq(Proposals), n \in 1 .. last : f[<<x, n>>] = next(x, n)
    <3> TAKE x \in Seq(Proposals), n \in 1 .. last
    <3>1. <<x, n>> \in Seq(Proposals) \X (1 .. last) /\ <<x, n>>[1] = x /\ <<x, n>>[2] = n
      OBVIOUS
    <3>2. QED
      BY <3>1, Zenon
  <2> HIDE DEF f
  <2>2. StaysIn(f, Seq(Proposals), last)
    BY <2>1, <1>7 DEF StaysIn
  <2>3. PICK h : Recursion(h, Seq(Proposals), last, known, f)
    BY <1>2, <2>2, RecursionExists, Zenon
  <2>4. \A n \in 1 .. last : h[n - 1] \in Seq(Proposals)
    <3>1. \A n \in 1 .. last : n - 1 \in 0 .. last
      BY <1>2
    <3>2. QED
      BY <2>3, <3>1, Zenon DEF Recursion
  <2>5. QED
    BY <2>1, <2>3, <2>4, Zenon DEF Recursion
<1>9. after = step(after)
  <2>1. PICK g : g[0] = known /\ \A n \in 1 .. last : g[n] = next(g[n - 1], n)
    BY <1>8
  <2> DEFINE h == [n \in 0 .. last |-> g[n]]
  <2>2. h = step(h)
    BY <1>2, <2>1
  <2> HIDE DEF step, h
  <2>3. QED
    BY <2>2
<1> HIDE DEF after
<1>10. after[0] = known /\ \A n \in 1 .. last : after[n] = next(after[n - 1], n)
  <2>1. step(after)[0] = known /\ \A n \in 1 .. last : step(after)[n] = next(after[n - 1], n)
    BY <1>2
  <2> HIDE DEF step
  <2>2. QED
    BY <1>9, <2>1
<1> HIDE DEF good
<1> DEFINE P == {m \in Nat : m <= last => good(after[m], m)}
<1>11. 0 \in P
  BY <1>5, <1>10
<1>12. ASSUME NEW m \in P PROVE m + 1 \in P
  <2>1. m + 1 <= last => after[m + 1] = next(after[m], m + 1)
    BY <1>2, <1>10
  <2>2. QED
    BY <1>2, <1>6, <2>1
<1>13. last \in P
  <2> HIDE DEF P
  <2>1. P = Nat
    <3>1. P \in SUBSET Nat
      BY DEF P
    <3>2. QED
      BY <1>11, <1>12, <3>1, NatSetInduction
  <2>2. QED
    BY <1>2, <2>1
<1>14. good(all, last)
  BY <1>1, <1>2, <1>13
<1>15. \A c \in Len(known) + 1 .. Len(all) : ExtendsOne(all[c], vocabulary, parents)
  <2> TAKE c \in Len(known) + 1 .. Len(all)
  <2>1. PICK n \in 1 .. last : ~skipped(n) /\ all[c].rule = rule(n) /\ all[c].mask = mask(n)
    BY <1>14 DEF good
  <2>2. PICK i, j : i = ((n - 1) \div size) + 1 /\ j = added(n)
    OBVIOUS
  <2>3. i \in 1 .. Len(parents) /\ j \in 1 .. Len(vocabulary)
    BY <1>3, <2>2
  <2>4. /\ j \notin parents[i].rule
        /\ all[c].rule = parents[i].rule \cup {j}
        /\ all[c].mask = parents[i].mask \cap Covered(vocabulary[j], Discovery)
    BY <2>1, <2>2, Zenon DEF skipped, rule, mask
  <2>5. QED
    BY <2>3, <2>4, Zenon DEF ExtendsOne
<1>16. ASSUME NEW i \in 1 .. Len(parents), NEW j \in 1 .. Len(vocabulary),
              j \notin parents[i].rule,
              N(parents[i].mask \cap Covered(vocabulary[j], Discovery)) >= MinCoverage
       PROVE  \E c \in 1 .. Len(all) :
                all[c].mask = parents[i].mask \cap Covered(vocabulary[j], Discovery)
  <2>1. PICK n \in 1 .. last : ((n - 1) \div size) + 1 = i /\ added(n) = j
    BY <1>4
  <2>2. ~skipped(n) /\ mask(n) = parents[i].mask \cap Covered(vocabulary[j], Discovery)
    BY <1>16, <2>1, Zenon DEF skipped, mask
  <2>3. QED
    BY <1>14, <1>16, <2>2 DEF good
<1>17. QED
  BY <1>14, <1>15, <1>16 DEF good, ExtendedBy

\* t is what is left of s after its first n.
RestFrom(t, s, n) ==
  /\ Len(t) = Len(s) - n
  /\ \A i \in 1 .. Len(t) : n + i \in n + 1 .. Len(s) /\ t[i] = s[n + i]
  /\ \A i \in n + 1 .. Len(s) : i - n \in 1 .. Len(t) /\ t[i - n] = s[i]

\* The part of a sequence after its first n members.
LEMMA RestOf ==
  ASSUME NEW S, NEW s \in Seq(S), NEW n \in Nat, n <= Len(s), NEW t, t = SubSeq(s, n + 1, Len(s))
  PROVE  t \in Seq(S) /\ RestFrom(t, s, n)
<1>1. Len(s) \in Nat /\ n + 1 \in 1 .. Len(s) + 1
  OBVIOUS
<1>2. \A i \in n + 1 .. Len(s) : s[i] \in S
  OBVIOUS
<1>3. t \in Seq(S) /\ Len(t) = Len(s) - n /\ Len(t) \in Nat
  BY <1>1
<1>4. \A i \in 1 .. Len(t) : t[i] = s[n + i]
  BY <1>1
<1>5. \A i \in 1 .. Len(t) : n + i \in n + 1 .. Len(s)
  BY <1>1, <1>3
<1>6. ASSUME NEW i \in n + 1 .. Len(s) PROVE i - n \in 1 .. Len(t) /\ t[i - n] = s[i]
  <2>1. i - n \in 1 .. Len(t) /\ n + (i - n) = i
    BY <1>1, <1>3
  <2>2. QED
    BY <1>4, <2>1
<1>7. QED
  BY <1>3, <1>4, <1>5, <1>6 DEF RestFrom

\* The best proposals of the last depth.
Beam(s, width) ==
  LET better(a, b) == Above(a.quality, b.quality)
  IN AtMostFirst(StableSort(s, DOMAIN s, better), width)

\* It is made of proposals of the last depth, of all of them if it is wide enough.
BeamFrom(beam, s, width) ==
  /\ Len(beam) \in Nat
  /\ \A i \in 1 .. Len(beam) : \E c \in 1 .. Len(s) : beam[i] = s[c]
  /\ width >= Len(s) => \A c \in 1 .. Len(s) : \E i \in 1 .. Len(beam) : beam[i] = s[c]

\* The beam consists of the best proposals of the last depth: of all of them when it does not
\* cut.
LEMMA BeamOf ==
  ASSUME args.features \in Features, NEW s \in Seq(Proposals), NEW width \in Nat,
         NEW beam, beam = Beam(s, width)
  PROVE  BeamFrom(beam, s, width)
<1> DEFINE I == DOMAIN s
           better(a, b) == Above(a.quality, b.quality)
           sorted == StableSort(s, DOMAIN s, better)
           B == {p \in I \X I : Above(s[p[1]].quality, s[p[2]].quality)}
           placed == {<<Cardinality({y \in I : Above(s[y].quality, s[x].quality)
                                            \/ (~Above(s[x].quality, s[y].quality) /\ y < x)}) + 1, x>> : x \in I}
           g == [n \in 1 .. Cardinality(I) |-> (CHOOSE p \in placed : p[1] = n)[2]]
<1>1. beam = AtMostFirst(sorted, width)
  BY Zenon DEF Beam
<1>2. sorted = [n \in DOMAIN g |-> s[g[n]]]
  BY Zenon DEF StableSort, StablePositions, Arranged
<1> HIDE DEF sorted
<1>3. I = 1 .. Len(s) /\ Len(s) \in Nat /\ I \in SUBSET Int
  OBVIOUS
<1>4. IsFiniteSet(I) /\ Cardinality(I) = Len(s)
  <2>1. \A n \in Nat : IsFiniteSet(1 .. n) /\ Cardinality(1 .. n) = n
    BY FS_Interval
  <2> HIDE DEF I
  <2>2. QED
    BY <1>3, <2>1
<1>5. \A i \in I : s[i] \in Proposals
  BY <1>3
<1> HIDE DEF I
<1>6. \A x, y \in I : <<x, y>> \in B <=> Above(s[x].quality, s[y].quality)
  OBVIOUS
<1> HIDE DEF B
<1>7. Ranked(B, I)
  <2>1. ASSUME NEW x \in I PROVE IsFraction(s[x].quality)
    <3>1. PICK m \in SUBSET Discovery : N(m) >= MinCoverage /\ s[x].quality = Quality(m, Discovery)
      BY <1>5, ProposalsAre
    <3>2. m # {}
      <4>1. N({}) = 0
        BY FS_EmptySet DEF N
      <4>2. MinCoverage >= 1 /\ MinCoverage \in Nat
        BY MinerAssumption
      <4>3. m = {} => 0 >= MinCoverage
        BY <3>1, <4>1
      <4>4. QED
        BY <4>2, <4>3
    <3>3. Discovery \in SUBSET Rows
      BY MasksCounted
    <3>4. QED
      BY <3>1, <3>2, <3>3, MasksScored
  <2>2. QED
    BY <1>6, <2>1, AboveRanks, Zenon DEF Ranked
<1>8. StablyPlaced(placed, I, B)
  <2>1. ASSUME NEW x \in I
        PROVE  {y \in I : Above(s[y].quality, s[x].quality)
                       \/ (~Above(s[x].quality, s[y].quality) /\ y < x)}
                 = {y \in I : <<y, x>> \in B \/ (<<x, y>> \notin B /\ y < x)}
    BY <1>6, Zenon
  <2>2. QED
    BY <2>1, Zenon DEF StablyPlaced
<1> HIDE DEF placed
<1>9. PICK t, h : t = sorted /\ h = g
  OBVIOUS
<1>10. ListedBy(t, s, placed, I)
  <2>1. h = [n \in 1 .. Cardinality(I) |-> h[n]]
    BY <1>9
  <2>2. ASSUME NEW n \in 1 .. Cardinality(I), \E p \in placed : p[1] = n
        PROVE  \E p \in placed : p[1] = n /\ h[n] = p[2]
    <3>1. PICK p \in placed : p = (CHOOSE q \in placed : q[1] = n) /\ p[1] = n
      BY <2>2, Zenon
    <3>2. h[n] = p[2]
      BY <3>1, <1>9
    <3>3. QED
      BY <3>1, <3>2
  <2>3. Lists(h, placed, I)
    BY <2>1, <2>2 DEF Lists
  <2>4. t = [n \in DOMAIN h |-> s[h[n]]]
    <3> HIDE DEF g
    <3>1. QED
      BY <1>2, <1>9, Zenon
  <2>5. QED
    BY <2>3, <2>4, Zenon DEF ListedBy
<1>11. SortedBy(t, s, I, B)
  BY <1>3, <1>4, <1>7, <1>8, <1>10, StableSortSorts
<1>12. /\ t = [n \in 1 .. Len(s) |-> t[n]]
       /\ \A n \in 1 .. Len(s) : \E c \in 1 .. Len(s) : t[n] = s[c]
       /\ \A c \in 1 .. Len(s) : \E n \in 1 .. Len(s) : t[n] = s[c]
  BY <1>3, <1>4, <1>11, Zenon DEF SortedBy
<1>13. t \in Seq(Proposals) /\ Len(t) = Len(s)
  <2>1. \A n \in 1 .. Len(s) : t[n] \in Proposals
    BY <1>3, <1>5, <1>12
  <2>2. t \in [1 .. Len(s) -> Proposals]
    BY <1>12, <2>1
  <2>3. QED
    BY <1>3, <2>2
<1>14. /\ beam \in Seq(Proposals) /\ Len(beam) <= Len(s)
       /\ width >= Len(s) => Len(beam) = Len(s)
       /\ \A i \in 1 .. Len(beam) : beam[i] = t[i]
  <2>1. beam = AtMostFirst(t, width)
    BY <1>1, <1>9
  <2>2. QED
    BY <1>13, <2>1, AtMostFirstOf
<1>15. \A i \in 1 .. Len(beam) : \E c \in 1 .. Len(s) : beam[i] = s[c]
  <2> TAKE i \in 1 .. Len(beam)
  <2>1. i \in 1 .. Len(s) /\ beam[i] = t[i]
    BY <1>3, <1>14
  <2>2. PICK c \in 1 .. Len(s) : t[i] = s[c]
    BY <1>12, <2>1
  <2>3. QED
    BY <2>1, <2>2
<1>16. ASSUME width >= Len(s), NEW c \in 1 .. Len(s) PROVE \E i \in 1 .. Len(beam) : beam[i] = s[c]
  <2>1. PICK n \in 1 .. Len(s) : t[n] = s[c]
    BY <1>12
  <2>2. n \in 1 .. Len(beam)
    BY <1>14, <1>16
  <2>3. QED
    BY <1>14, <2>1, <2>2
<1>17. Len(beam) \in Nat
  BY <1>14
<1>18. QED
  BY <1>15, <1>16, <1>17, Zenon DEF BeamFrom

-----------------------------------------------------------------------------
(* The miner: depth by depth.                                              *)

\* What each predicate of a vocabulary covers, and what a conjunction of them does.
CoversOf(vocabulary) == [j \in 1 .. Len(vocabulary) |-> Covered(vocabulary[j], Discovery)]
Meet(rule, covers, base) == {s \in base : \A j \in rule : s \in covers[j]}

\* The proposals c after depth d, those of the last depth in l.
SearchSound(c, d, covers, base) ==
  \A i \in 1 .. Len(c) : /\ c[i].rule \in SUBSET DOMAIN covers
                         /\ Cardinality(c[i].rule) \in 1 .. d
                         /\ c[i].mask = Meet(c[i].rule, covers, base)

\* A rule of n predicates with what it covers.
SoundAs(r, n, covers, base) ==
  /\ r.rule \in SUBSET DOMAIN covers
  /\ Cardinality(r.rule) = n
  /\ r.mask = Meet(r.rule, covers, base)

\* All of the proposals c that have d predicates, and no others, are in l.
LastDepth(c, l, d) ==
  /\ Len(l) <= Len(c)
  /\ \A i \in 1 .. Len(c) : Cardinality(c[i].rule) = d => \E n \in 1 .. Len(l) : l[n] = c[i]
  /\ \A n \in 1 .. Len(l) : Cardinality(l[n].rule) = d /\ \E i \in 1 .. Len(c) : l[n] = c[i]

\* A conjunction of rows that clears the floor is proposed, by a rule of at most n predicates.
Proposed(mask, n, c) ==
  N(mask) >= MinCoverage => \E i \in 1 .. Len(c) : c[i].mask = mask /\ Cardinality(c[i].rule) <= n

\* With a beam that never cuts: each predicate is proposed, and each proposal before the last
\* depth is extended by each predicate.
SearchClosed(c, d, covers) ==
  /\ \A j \in DOMAIN covers : Proposed(covers[j], 1, c)
  /\ \A i \in 1 .. Len(c) : Cardinality(c[i].rule) < d =>
       \A j \in DOMAIN covers : Proposed(c[i].mask \cap covers[j], Cardinality(c[i].rule) + 1, c)

\* After d passes, with a beam of this width.
SearchedTo(d, c, l, covers, base, width) ==
  /\ DistinctMasks(c)
  /\ SearchSound(c, d, covers, base)
  /\ LastDepth(c, l, d)
  /\ width >= Len(c) => SearchClosed(c, d, covers)

\* A rule with one more predicate.
LEMMA RuleGrows ==
  ASSUME NEW covers, NEW base, NEW rule, rule \in Conjunctions, rule \in SUBSET DOMAIN covers,
         NEW j \in DOMAIN covers, j \notin rule
  PROVE  /\ rule \cup {j} \in SUBSET DOMAIN covers
         /\ Cardinality(rule) \in Nat
         /\ Cardinality(rule \cup {j}) = Cardinality(rule) + 1
         /\ Meet(rule \cup {j}, covers, base) = Meet(rule, covers, base) \cap covers[j]
<1>1. IsFiniteSet(rule)
  BY DEF Conjunctions
<1>2. Cardinality(rule) \in Nat
  BY <1>1, FS_CardinalityType
<1>3. Cardinality(rule \cup {j}) = Cardinality(rule) + 1
  BY <1>1, FS_AddElement
<1>4. Meet(rule \cup {j}, covers, base) = Meet(rule, covers, base) \cap covers[j]
  BY DEF Meet
<1>5. QED
  BY <1>2, <1>3, <1>4

\* What a pass adds is of its depth and covers what its rule says.
LEMMA AddedIsSound ==
  ASSUME args.features \in Features, NEW vocabulary, Len(vocabulary) \in Nat,
         NEW parents, Len(parents) \in Nat, NEW d \in Nat,
         NEW covers, covers = CoversOf(vocabulary),
         \A i \in 1 .. Len(parents) :
           parents[i].rule \in Conjunctions /\ SoundAs(parents[i], d, covers, Discovery),
         NEW r, ExtendsOne(r, vocabulary, parents)
  PROVE  SoundAs(r, d + 1, covers, Discovery)
<1>1. PICK i \in 1 .. Len(parents), j \in 1 .. Len(vocabulary) :
        /\ j \notin parents[i].rule
        /\ r.rule = parents[i].rule \cup {j}
        /\ r.mask = parents[i].mask \cap Covered(vocabulary[j], Discovery)
  BY DEF ExtendsOne
<1>2. j \in DOMAIN covers /\ covers[j] = Covered(vocabulary[j], Discovery)
  BY DEF CoversOf
<1>3. PICK rule, base : rule = parents[i].rule /\ base = Discovery
  OBVIOUS
<1>4. rule \in Conjunctions /\ rule \in SUBSET DOMAIN covers /\ j \notin rule
  BY <1>1, <1>3 DEF SoundAs
<1>5. /\ rule \cup {j} \in SUBSET DOMAIN covers
      /\ Cardinality(rule \cup {j}) = Cardinality(rule) + 1
      /\ Meet(rule \cup {j}, covers, base) = Meet(rule, covers, base) \cap covers[j]
  BY <1>2, <1>4, RuleGrows
<1>6. r.rule = rule \cup {j} /\ r.mask = Meet(rule, covers, base) \cap covers[j] /\ Cardinality(rule) = d
  BY <1>1, <1>2, <1>3 DEF SoundAs
<1>7. QED
  BY <1>3, <1>5, <1>6 DEF SoundAs

\* The first pass, from the rule without predicates.
LEMMA FirstPass ==
  ASSUME args.features \in Features, NEW vocabulary, Len(vocabulary) \in Nat,
         NEW all, all = Extended(<<>>, vocabulary, <<NoRule>>),
         NEW covers, covers = CoversOf(vocabulary), NEW width
  PROVE  all \in Seq(Proposals) /\ SearchedTo(1, all, all, covers, Discovery, width)
<1>1. PICK parents : parents = <<NoRule>>
  OBVIOUS
<1>2. Len(parents) = 1 /\ parents[1] = NoRule
  BY <1>1
<1>3. NoRule.rule = {} /\ NoRule.mask = Discovery
  BY DEF NoRule
<1>4. {} \in Conjunctions /\ Cardinality({}) = 0
  BY FS_EmptySet DEF Conjunctions
<1>5. \A i \in 1 .. Len(parents) : parents[i].rule = {} /\ parents[i].mask = Discovery
  <2>1. \A i \in 1 .. Len(parents) : i = 1
    BY <1>2
  <2>2. QED
    BY <2>1, <1>2, <1>3
<1>6. <<>> \in Seq(Proposals) /\ Len(<<>>) = 0
  OBVIOUS
<1>7. PICK known : known = <<>>
  OBVIOUS
<1>8. all = Extended(known, vocabulary, parents)
  BY <1>1, <1>7
<1>9. /\ all \in Seq(Proposals) /\ Len(known) <= Len(all)
      /\ \A c \in 1 .. Len(known) : all[c] = known[c]
      /\ \A c \in Len(known) + 1 .. Len(all) : ExtendsOne(all[c], vocabulary, parents)
      /\ \A i \in 1 .. Len(parents) : \A j \in 1 .. Len(vocabulary) :
           /\ j \notin parents[i].rule
           /\ N(parents[i].mask \cap Covered(vocabulary[j], Discovery)) >= MinCoverage
           => \E c \in 1 .. Len(all) :
                all[c].mask = parents[i].mask \cap Covered(vocabulary[j], Discovery)
      /\ DistinctMasks(known) => DistinctMasks(all)
  <2>1. known \in Seq(Proposals)
    BY <1>6, <1>7
  <2>2. Len(parents) \in Nat
    BY <1>2
  <2>3. \A i \in 1 .. Len(parents) : parents[i].rule \in Conjunctions /\ parents[i].mask \in SUBSET Discovery
    BY <1>5, <1>4
  <2>4. QED
    <3>1. all \in Seq(Proposals) /\ ExtendedBy(all, known, vocabulary, parents)
      BY <1>8, <2>1, <2>2, <2>3, ExtendedOf
    <3>2. QED
      BY <3>1, Zenon DEF ExtendedBy
<1>10. DOMAIN known = {} /\ Len(known) = 0
  BY <1>7
<1>11. DistinctMasks(all)
  BY <1>9, <1>10 DEF DistinctMasks
<1>12. \A c \in 1 .. Len(all) : /\ all[c].rule \in SUBSET DOMAIN covers
                                /\ Cardinality(all[c].rule) = 1
                                /\ all[c].mask = Meet(all[c].rule, covers, Discovery)
  <2> TAKE c \in 1 .. Len(all)
  <2>1. ExtendsOne(all[c], vocabulary, parents)
    BY <1>9, <1>10
  <2>2. Meet({}, covers, Discovery) = Discovery
    BY DEF Meet
  <2>3. PICK d \in Nat : d = 0
    OBVIOUS
  <2>4. \A i \in 1 .. Len(parents) :
          parents[i].rule \in Conjunctions /\ SoundAs(parents[i], d, covers, Discovery)
    BY <1>5, <1>4, <2>2, <2>3 DEF SoundAs
  <2>5. PICK r : r = all[c]
    OBVIOUS
  <2>6. SoundAs(r, d + 1, covers, Discovery)
    <3>1. Len(parents) \in Nat
      BY <1>2
    <3>2. ExtendsOne(r, vocabulary, parents)
      BY <2>1, <2>5
    <3>3. QED
      BY <2>4, <3>1, <3>2, AddedIsSound, Zenon
  <2>7. QED
    BY <2>5, <2>6, <2>3 DEF SoundAs
<1>13. SearchSound(all, 1, covers, Discovery)
  BY <1>12 DEF SearchSound
<1>14. LastDepth(all, all, 1)
  <2>1. Len(all) \in Nat
    BY <1>9
  <2>2. QED
    BY <1>12, <2>1 DEF LastDepth
<1>15. SearchClosed(all, 1, covers)
  <2>1. \A i \in 1 .. Len(all) : ~(Cardinality(all[i].rule) < 1)
    BY <1>12
  <2>2. ASSUME NEW j \in DOMAIN covers PROVE Proposed(covers[j], 1, all)
    <3>1. j \in 1 .. Len(vocabulary) /\ covers[j] = Covered(vocabulary[j], Discovery)
      BY DEF CoversOf
    <3>2. Discovery \cap Covered(vocabulary[j], Discovery) = Covered(vocabulary[j], Discovery)
      BY DEF Covered
    <3>3. N(covers[j]) >= MinCoverage => \E c \in 1 .. Len(all) : all[c].mask = covers[j]
      <4>1. 1 \in 1 .. Len(parents)
        BY <1>2
      <4>2. j \notin parents[1].rule /\ parents[1].mask \cap Covered(vocabulary[j], Discovery) = covers[j]
        BY <1>5, <3>1, <3>2, <4>1
      <4>3. N(parents[1].mask \cap Covered(vocabulary[j], Discovery)) >= MinCoverage
              => \E c \in 1 .. Len(all) :
                   all[c].mask = parents[1].mask \cap Covered(vocabulary[j], Discovery)
        BY <1>9, <3>1, <4>1, <4>2, Zenon
      <4>4. QED
        BY <4>2, <4>3, Zenon
    <3>4. \A c \in 1 .. Len(all) : Cardinality(all[c].rule) <= 1
      BY <1>12
    <3>5. QED
      BY <3>3, <3>4 DEF Proposed
  <2>3. QED
    BY <2>1, <2>2 DEF SearchClosed
<1>16. QED
  BY <1>9, <1>11, <1>13, <1>14, <1>15 DEF SearchedTo

\* One more pass: what is proposed after it, and what of that is new.
Pass(all, next, c, l, vocabulary, width) ==
  /\ all = Extended(c, vocabulary, Beam(l, width))
  /\ next = SubSeq(all, Len(c) + 1, Len(all))

\* Each further pass, from the beam of the one before it.
LEMMA NextPass ==
  ASSUME args.features \in Features, NEW vocabulary, Len(vocabulary) \in Nat,
         NEW c \in Seq(Proposals), NEW l \in Seq(Proposals), NEW d \in Nat \ {0}, NEW width \in Nat,
         NEW all, NEW next, Pass(all, next, c, l, vocabulary, width),
         NEW covers, covers = CoversOf(vocabulary),
         SearchedTo(d, c, l, covers, Discovery, width)
  PROVE  /\ all \in Seq(Proposals) /\ next \in Seq(Proposals)
         /\ SearchedTo(d + 1, all, next, covers, Discovery, width)
<1>1. /\ DistinctMasks(c) /\ SearchSound(c, d, covers, Discovery) /\ LastDepth(c, l, d)
      /\ width >= Len(c) => SearchClosed(c, d, covers)
  BY DEF SearchedTo
<1>2. /\ all = Extended(c, vocabulary, Beam(l, width))
      /\ next = SubSeq(all, Len(c) + 1, Len(all))
  BY DEF Pass
<1>3. PICK beam : beam = Beam(l, width)
  OBVIOUS
<1>4. /\ Len(beam) \in Nat
      /\ \A i \in 1 .. Len(beam) : \E k \in 1 .. Len(l) : beam[i] = l[k]
      /\ width >= Len(l) => \A k \in 1 .. Len(l) : \E i \in 1 .. Len(beam) : beam[i] = l[k]
  <2>1. BeamFrom(beam, l, width)
    BY <1>3, BeamOf, Zenon
  <2>2. QED
    BY <2>1 DEF BeamFrom
<1>5. Len(c) \in Nat /\ Len(l) \in Nat /\ DOMAIN c = 1 .. Len(c) /\ DOMAIN l = 1 .. Len(l)
  OBVIOUS
<1>6. \A k \in 1 .. Len(l) : /\ l[k] \in Proposals /\ l[k].rule \in Conjunctions
                             /\ l[k].mask \in SUBSET Discovery
                             /\ SoundAs(l[k], d, covers, Discovery)
  <2> TAKE k \in 1 .. Len(l)
  <2>1. l[k] \in Proposals
    BY <1>5
  <2>2. Cardinality(l[k].rule) = d /\ \E i \in 1 .. Len(c) : l[k] = c[i]
    BY <1>1 DEF LastDepth
  <2>3. l[k].rule \in SUBSET DOMAIN covers /\ l[k].mask = Meet(l[k].rule, covers, Discovery)
    BY <1>1, <2>2 DEF SearchSound
  <2>4. QED
    BY <2>1, <2>2, <2>3, ProposalsAre DEF SoundAs
<1>7. \A i \in 1 .. Len(beam) : /\ beam[i].rule \in Conjunctions /\ beam[i].mask \in SUBSET Discovery
                                /\ SoundAs(beam[i], d, covers, Discovery)
  <2> TAKE i \in 1 .. Len(beam)
  <2>1. PICK k \in 1 .. Len(l) : beam[i] = l[k]
    BY <1>4
  <2>2. QED
    BY <1>6, <2>1
<1>8. /\ all \in Seq(Proposals) /\ Len(c) <= Len(all)
      /\ \A i \in 1 .. Len(c) : all[i] = c[i]
      /\ \A i \in Len(c) + 1 .. Len(all) : ExtendsOne(all[i], vocabulary, beam)
      /\ \A i \in 1 .. Len(beam) : \A j \in 1 .. Len(vocabulary) :
           /\ j \notin beam[i].rule
           /\ N(beam[i].mask \cap Covered(vocabulary[j], Discovery)) >= MinCoverage
           => \E k \in 1 .. Len(all) :
                all[k].mask = beam[i].mask \cap Covered(vocabulary[j], Discovery)
      /\ DistinctMasks(c) => DistinctMasks(all)
  <2>1. all = Extended(c, vocabulary, beam)
    BY <1>2, <1>3
  <2>2. \A i \in 1 .. Len(beam) : beam[i].rule \in Conjunctions /\ beam[i].mask \in SUBSET Discovery
    BY <1>7
  <2>3. QED
    <3>1. all \in Seq(Proposals) /\ ExtendedBy(all, c, vocabulary, beam)
      BY <1>4, <2>1, <2>2, ExtendedOf
    <3>2. QED
      BY <3>1, Zenon DEF ExtendedBy
<1>9. Len(all) \in Nat /\ DOMAIN all = 1 .. Len(all)
  BY <1>8
<1>10. \A i \in Len(c) + 1 .. Len(all) : SoundAs(all[i], d + 1, covers, Discovery)
  <2> TAKE i \in Len(c) + 1 .. Len(all)
  <2>1. PICK r : r = all[i]
    OBVIOUS
  <2>2. ExtendsOne(r, vocabulary, beam)
    BY <1>8, <2>1
  <2>3. \A n \in 1 .. Len(beam) : beam[n].rule \in Conjunctions /\ SoundAs(beam[n], d, covers, Discovery)
    BY <1>7
  <2>4. d \in Nat
    OBVIOUS
  <2>5. SoundAs(r, d + 1, covers, Discovery)
    BY <1>4, <2>2, <2>3, <2>4, AddedIsSound, Zenon
  <2>6. QED
    BY <2>1, <2>5
<1>11. \A i \in 1 .. Len(all) : i \in 1 .. Len(c) \/ i \in Len(c) + 1 .. Len(all)
  BY <1>5, <1>9
<1>12. \A i \in 1 .. Len(c) : i \in 1 .. Len(all)
  BY <1>5, <1>8, <1>9
<1>13. /\ next \in Seq(Proposals) /\ Len(next) = Len(all) - Len(c)
       /\ \A n \in 1 .. Len(next) : Len(c) + n \in Len(c) + 1 .. Len(all) /\ next[n] = all[Len(c) + n]
       /\ \A i \in Len(c) + 1 .. Len(all) : i - Len(c) \in 1 .. Len(next) /\ next[i - Len(c)] = all[i]
  <2>1. PICK first \in Nat : first = Len(c)
    BY <1>5
  <2>2. all \in Seq(Proposals) /\ first <= Len(all) /\ next = SubSeq(all, first + 1, Len(all))
    BY <1>2, <1>8, <2>1
  <2>3. /\ next \in Seq(Proposals) /\ Len(next) = Len(all) - first
        /\ \A n \in 1 .. Len(next) : first + n \in first + 1 .. Len(all) /\ next[n] = all[first + n]
        /\ \A i \in first + 1 .. Len(all) : i - first \in 1 .. Len(next) /\ next[i - first] = all[i]
    <3>1. next \in Seq(Proposals) /\ RestFrom(next, all, first)
      BY <2>2, RestOf
    <3>2. QED
      BY <3>1, Zenon DEF RestFrom
  <2>4. QED
    BY <2>1, <2>3, Zenon
<1>14. \A i \in 1 .. Len(c) : /\ all[i].rule \in SUBSET DOMAIN covers
                              /\ Cardinality(all[i].rule) \in 1 .. d
                              /\ all[i].mask = Meet(all[i].rule, covers, Discovery)
  BY <1>1, <1>8 DEF SearchSound
<1>15. SearchSound(all, d + 1, covers, Discovery)
  <2> SUFFICES ASSUME NEW i \in 1 .. Len(all)
               PROVE  /\ all[i].rule \in SUBSET DOMAIN covers
                      /\ Cardinality(all[i].rule) \in 1 .. d + 1
                      /\ all[i].mask = Meet(all[i].rule, covers, Discovery)
    BY DEF SearchSound
  <2>1. CASE i \in 1 .. Len(c)
    BY <1>14, <2>1
  <2>2. CASE i \in Len(c) + 1 .. Len(all)
    BY <1>10, <2>2 DEF SoundAs
  <2>3. QED
    BY <1>11, <2>1, <2>2
<1>16. LastDepth(all, next, d + 1)
  <2>1. Len(next) <= Len(all)
    <3>1. \A a, b, x : a \in Nat /\ b \in Nat /\ x = b - a => x <= b
      OBVIOUS
    <3>2. QED
      BY <1>5, <1>9, <1>13, <3>1
  <2>2. ASSUME NEW i \in 1 .. Len(all), Cardinality(all[i].rule) = d + 1
        PROVE  \E n \in 1 .. Len(next) : next[n] = all[i]
    <3>1. i \in Len(c) + 1 .. Len(all)
      BY <1>11, <1>14, <2>2
    <3>2. QED
      BY <1>13, <3>1, Zenon
  <2>3. ASSUME NEW n \in 1 .. Len(next)
        PROVE  Cardinality(next[n].rule) = d + 1 /\ \E i \in 1 .. Len(all) : next[n] = all[i]
    <3>1. Len(c) + n \in Len(c) + 1 .. Len(all) /\ next[n] = all[Len(c) + n]
      BY <1>13
    <3>2. Len(c) + n \in 1 .. Len(all)
      BY <1>5, <1>9, <3>1
    <3>3. QED
      BY <1>10, <3>1, <3>2 DEF SoundAs
  <2>4. QED
    BY <2>1, <2>2, <2>3 DEF LastDepth
<1>17. ASSUME width >= Len(all) PROVE SearchClosed(all, d + 1, covers)
  <2>1. width >= Len(c) /\ width >= Len(l)
    BY <1>1, <1>5, <1>8, <1>9, <1>17 DEF LastDepth
  <2>2. SearchClosed(c, d, covers)
    BY <1>1, <2>1
  <2>3. ASSUME NEW mask, NEW n, Proposed(mask, n, c) PROVE Proposed(mask, n, all)
    BY <1>8, <1>12, <2>3 DEF Proposed
  <2>4. \A j \in DOMAIN covers : Proposed(covers[j], 1, all)
    BY <2>2, <2>3 DEF SearchClosed
  <2>5. ASSUME NEW i \in 1 .. Len(all), Cardinality(all[i].rule) < d + 1, NEW j \in DOMAIN covers
        PROVE  Proposed(all[i].mask \cap covers[j], Cardinality(all[i].rule) + 1, all)
    <3>1. i \in 1 .. Len(c)
      <4>1. i \in Len(c) + 1 .. Len(all) => Cardinality(all[i].rule) = d + 1
        BY <1>10 DEF SoundAs
      <4>2. QED
        BY <1>11, <2>5, <4>1
    <3>2. all[i] = c[i] /\ Cardinality(all[i].rule) \in 1 .. d
      BY <1>8, <1>14, <3>1
    <3>3. CASE Cardinality(all[i].rule) < d
      <4>1. Proposed(c[i].mask \cap covers[j], Cardinality(c[i].rule) + 1, c)
        BY <2>2, <3>1, <3>2, <3>3 DEF SearchClosed
      <4>2. QED
        BY <2>3, <3>2, <4>1
    <3>4. CASE Cardinality(all[i].rule) = d
      <4>1. PICK k \in 1 .. Len(l) : l[k] = c[i]
        BY <1>1, <3>1, <3>2, <3>4 DEF LastDepth
      <4>2. PICK b \in 1 .. Len(beam) : beam[b] = l[k]
        BY <1>4, <2>1
      <4>3. beam[b] = all[i]
        BY <3>2, <4>1, <4>2
      <4>4. j \in 1 .. Len(vocabulary) /\ covers[j] = Covered(vocabulary[j], Discovery)
        BY DEF CoversOf
      <4>5. CASE j \in all[i].rule
        <5>1. all[i].mask \cap covers[j] = all[i].mask
          BY <1>14, <3>1, <4>5 DEF Meet
        <5>2. Cardinality(all[i].rule) <= Cardinality(all[i].rule) + 1
          BY <3>2
        <5>3. QED
          BY <5>1, <5>2 DEF Proposed
      <4>6. CASE j \notin all[i].rule
        <5> SUFFICES ASSUME N(all[i].mask \cap covers[j]) >= MinCoverage
                     PROVE  \E n \in 1 .. Len(all) : /\ all[n].mask = all[i].mask \cap covers[j]
                                                     /\ Cardinality(all[n].rule) <= Cardinality(all[i].rule) + 1
          BY DEF Proposed
        <5>1. PICK m \in 1 .. Len(all) : all[m].mask = beam[b].mask \cap Covered(vocabulary[j], Discovery)
          BY <1>8, <4>3, <4>4, <4>6
        <5>2. all[m].mask = all[i].mask \cap covers[j]
          BY <4>3, <4>4, <5>1
        <5>3. Cardinality(all[m].rule) \in 1 .. d + 1
          BY <1>15 DEF SearchSound
        <5>4. QED
          BY <3>4, <5>2, <5>3
      <4>7. QED
        BY <4>5, <4>6
    <3>5. QED
      BY <3>2, <3>3, <3>4
  <2>6. QED
    BY <2>4, <2>5 DEF SearchClosed
<1>18. QED
  BY <1>1, <1>8, <1>13, <1>15, <1>16, <1>17 DEF SearchedTo

-----------------------------------------------------------------------------
(* The miner: from the search to the pruning.                              *)

\* What a row of the tested rules has, when they are tested on these scenarios.
Tested(r, on) ==
  /\ Scored(r)
  /\ r.p \in Nat
  /\ r.mask \in SUBSET on
  /\ {"rule", "mask", "p", "q", "wracc", "lift"} \subseteq DOMAIN r

\* A table of such rows.
TableTested(t, on) ==
  /\ \E n \in Nat : DOMAIN t = 1 .. n
  /\ IsFiniteSet(DOMAIN t) /\ DOMAIN t \in SUBSET Int
  /\ \A i \in DOMAIN t : Tested(t[i], on)

\* The rows that were tested, with what they are ranked by.
RowsScored == TableTested(rows, Confirmation)

\* What the search has after each of its passes.
Searched ==
  /\ ~Refused
  /\ Len(predicates) \in Nat /\ DOMAIN predicates = 1 .. Len(predicates) /\ depth \in 1 .. MaxDepth
  /\ candidates \in Seq(Proposals) /\ level \in Seq(Proposals)
  /\ SearchedTo(depth, candidates, level, CoversOf(predicates), Discovery, args.beam)

\* Depth by depth the search covers what rules of that many predicates cover, what it found
\* is tested and ranked, and the pruning goes through it in that order.
SearchInv ==
  /\ args.features \in Features /\ args.beam \in Nat
  /\ pc \in {"search", "correct", "prune"} => Searched
  /\ pc \in {"correct", "prune"} => depth = MaxDepth \/ level = <<>>
  /\ pc \in {"correct", "prune", "describe"} => RowsScored
  /\ pc = "describe" => kept = Representatives(AtMostFirst(Ranking(rows), MaxPruneCandidates))

\* As long as the script is called with the same arguments, its tables are the same.
LEMMA TablesStay ==
  ASSUME UNCHANGED args
  PROVE  /\ Discovery' = Discovery /\ Confirmation' = Confirmation
         /\ Refused' <=> Refused
         /\ Proposals' = Proposals
         /\ \A v : CoversOf(v)' = CoversOf(v)
<1>1. Joined' = Joined
  BY DEF Joined
<1>2. Rows' = Rows
  BY <1>1 DEF Rows
<1>3. Discovery' = Discovery /\ Confirmation' = Confirmation /\ Failing' = Failing
  BY <1>2 DEF Discovery, Confirmation, Failing, Split
<1>4. Refused' <=> Refused
  BY <1>1, <1>2, <1>3, Zenon DEF Refused
<1>5. \A mask : K(mask)' = K(mask)
  BY <1>3, Zenon DEF K
<1>6. \A mask, all : WRAcc(mask, all)' = WRAcc(mask, all)
  BY <1>5, Zenon DEF WRAcc
<1>7. \A mask, all : Lift(mask, all)' = Lift(mask, all)
  BY <1>5, Zenon DEF Lift
<1>8. \A mask, all : LiftQuality(mask, all)' = LiftQuality(mask, all)
  <2> TAKE mask, all
  <2>1. Lift(mask, all)' = Lift(mask, all) /\ K(mask)' = K(mask) /\ K(all \ mask)' = K(all \ mask)
    BY <1>5, <1>7
  <2>2. (CHOOSE lift \in Lift(mask, all)' : TRUE) = (CHOOSE lift \in Lift(mask, all) : TRUE)
    BY <2>1
  <2>3. QED
    BY <2>1, <2>2, SMT DEF LiftQuality, Unbounded, N
<1>9. \A mask, all : Quality(mask, all)' = Quality(mask, all)
  BY <1>6, <1>8, Zenon DEF Quality
<1>10. Proposals' = Proposals
  BY <1>3, <1>9 DEF Proposals
<1>11. \A p, base : Covered(p, base)' = Covered(p, base)
  BY DEF Covered
<1>12. \A v : CoversOf(v)' = CoversOf(v)
  <2> TAKE v
  <2>1. \A j : Covered(v[j], Discovery)' = Covered(v[j], Discovery)
    BY <1>3, <1>11, Zenon DEF Covered
  <2>2. QED
    BY <2>1 DEF CoversOf
<1>13. QED
  BY <1>3, <1>4, <1>10, <1>12

\* What the predicates cover, after they were found.
LEMMA CoversAfter ==
  ASSUME UNCHANGED args, NEW v, predicates' = v
  PROVE  CoversOf(predicates)' = CoversOf(v)
<1>1. Discovery' = Discovery
  BY TablesStay
<1>2. \A j : Covered(predicates[j], Discovery)' = Covered(v[j], Discovery)
  BY <1>1 DEF Covered
<1>3. QED
  BY <1>2 DEF CoversOf

\* While neither the arguments nor the search change, neither does what holds of the search.
LEMMA SearchedStays == ASSUME UNCHANGED <<args, search>>, Searched PROVE Searched'
<1>1. /\ Discovery' = Discovery /\ (Refused' <=> Refused) /\ Proposals' = Proposals
      /\ \A v : CoversOf(v)' = CoversOf(v)
  BY TablesStay
<1>2. UNCHANGED <<args, predicates, candidates, level, depth>>
  BY DEF search
<1>3. PICK v : v = predicates
  OBVIOUS
<1>4. CoversOf(predicates)' = CoversOf(v)
  BY <1>2, <1>3, CoversAfter
<1>5. CoversOf(predicates)' = CoversOf(predicates)
  BY <1>3, <1>4
<1>6. QED
  BY <1>1, <1>2, <1>5 DEF Searched

\* The first pass.
LEMMA VocabulateSearches ==
  ASSUME args.features \in Features, Vocabulate, pc' = "search"
  PROVE  Searched'
<1>1. PICK v : v = Vocabulary(Discovery)
  OBVIOUS
<1>2. /\ ~Refused /\ predicates' = v /\ args' = args
      /\ candidates' = Extended(<<>>, v, <<NoRule>>) /\ level' = candidates' /\ depth' = 1
  BY <1>1 DEF Vocabulate, Stop
<1>3. Len(v) \in Nat /\ DOMAIN v = 1 .. Len(v)
  <2>1. PICK P : v \in Seq(P)
    BY <1>1, VocabularyIsSeq
  <2>2. QED
    BY <2>1
<1>4. PICK all, covers, width : /\ all = Extended(<<>>, v, <<NoRule>>) /\ covers = CoversOf(v)
                              /\ width = args.beam
  OBVIOUS
<1>5. all \in Seq(Proposals) /\ SearchedTo(1, all, all, covers, Discovery, width)
  BY <1>3, <1>4, FirstPass, Zenon
<1>6. /\ Discovery' = Discovery /\ (Refused' <=> Refused) /\ Proposals' = Proposals
      /\ \A u : CoversOf(u)' = CoversOf(u)
  BY <1>2, TablesStay
<1>7. candidates' = all /\ level' = all /\ depth' = 1
  BY <1>2, <1>4
<1>8. CoversOf(predicates)' = covers
  BY <1>2, <1>4, CoversAfter
<1>9. 1 \in 1 .. MaxDepth /\ (args.beam)' = width
  BY <1>2, <1>4, MinerAssumption
<1>10. QED
  BY <1>2, <1>3, <1>5, <1>6, <1>7, <1>8, <1>9 DEF Searched

\* Each further pass.
LEMMA DeepenSearches ==
  ASSUME args.features \in Features, args.beam \in Nat, Searched, Deepen
  PROVE  Searched'
<1>1. PICK v, c, l, d, width : /\ v = predicates /\ c = candidates /\ l = level /\ d = depth
                               /\ width = args.beam
  OBVIOUS
<1>2. PICK all, next, covers : /\ all = Extended(c, v, Beam(l, width))
                               /\ next = SubSeq(all, Len(c) + 1, Len(all))
                               /\ covers = CoversOf(v)
  OBVIOUS
<1>3. candidates' = all /\ level' = SubSeq(candidates', Len(candidates) + 1, Len(candidates'))
  <2>1. candidates' = Extended(candidates, predicates, Beam(level, args.beam))
    BY Zenon DEF Deepen, Beam
  <2>2. level' = SubSeq(candidates', Len(candidates) + 1, Len(candidates'))
    BY Zenon DEF Deepen
  <2>3. QED
    BY <1>1, <1>2, <2>1, <2>2
<1>4. level' = next /\ depth' = d + 1 /\ UNCHANGED <<args, predicates>> /\ depth < MaxDepth
  BY <1>1, <1>2, <1>3 DEF Deepen
<1>5. /\ ~Refused
      /\ Len(v) \in Nat /\ DOMAIN v = 1 .. Len(v) /\ d \in 1 .. MaxDepth
      /\ c \in Seq(Proposals) /\ l \in Seq(Proposals)
      /\ SearchedTo(d, c, l, covers, Discovery, width)
  BY <1>1, <1>2 DEF Searched
<1>6. /\ all \in Seq(Proposals) /\ next \in Seq(Proposals)
      /\ SearchedTo(d + 1, all, next, covers, Discovery, width)
  <2>1. d \in Nat \ {0} /\ width \in Nat
    BY <1>1, <1>5
  <2>2. c \in Seq(Proposals) /\ l \in Seq(Proposals) /\ Len(v) \in Nat
    BY <1>5
  <2>3. SearchedTo(d, c, l, covers, Discovery, width)
    BY <1>5
  <2>4. all = Extended(c, v, Beam(l, width))
    BY <1>2
  <2>5. next = SubSeq(all, Len(c) + 1, Len(all))
    BY <1>2
  <2>6. covers = CoversOf(v)
    BY <1>2
  <2>7. Pass(all, next, c, l, v, width)
    BY <2>4, <2>5 DEF Pass
  <2>8. QED
    BY <2>1, <2>2, <2>3, <2>6, <2>7, NextPass
<1>7. /\ Discovery' = Discovery /\ (Refused' <=> Refused) /\ Proposals' = Proposals
  BY <1>4, TablesStay
<1>8. CoversOf(predicates)' = covers
  <2>1. predicates' = v /\ UNCHANGED args
    BY <1>1, <1>4
  <2>2. QED
    BY <1>2, <2>1, CoversAfter
<1>9. d + 1 \in 1 .. MaxDepth
  BY <1>1, <1>4, <1>5, MinerAssumption
<1>10. (args.beam)' = width
  BY <1>1, <1>4
<1>11. candidates' = all /\ level' = next /\ depth' = d + 1 /\ predicates' = v
  BY <1>1, <1>3, <1>4
<1>12. QED
  BY <1>5, <1>6, <1>7, <1>8, <1>9, <1>10, <1>11 DEF Searched

\* The p-value of a mask is a number of units.
LEMMA PValueIsNat ==
  ASSUME args.features \in Features, NEW mask \in SUBSET Confirmation
  PROVE  PValue(mask) \in Nat
<1> DEFINE rest == Confirmation \ mask
           exact == FisherP(K(mask), N(mask), K(rest), N(rest))
<1>1. PValue(mask) = exact[1] * (Unit \div exact[2])
  BY Zenon DEF PValue
<1>2. \A some \in SUBSET Confirmation : N(some) \in Nat /\ K(some) \in Nat /\ K(some) <= N(some)
  <2> TAKE some \in SUBSET Confirmation
  <2>1. some \in SUBSET Rows
    BY MasksCounted
  <2>2. IsFiniteSet(some) /\ N(some) \in Nat /\ K(some) \in Nat
    BY <2>1, MasksCounted
  <2>3. Cardinality(some \cap Failing) <= Cardinality(some)
    BY <2>2, FS_Subset
  <2>4. QED
    BY <2>2, <2>3 DEF N, K
<1>3. exact[1] \in Nat /\ exact[2] \in Nat \ {0}
  <2>1. PICK k1, n1, k0, n0 \in Nat : /\ k1 = K(mask) /\ n1 = N(mask) /\ k1 <= n1
                                     /\ k0 = K(rest) /\ n0 = N(rest) /\ k0 <= n0
    BY <1>2
  <2>2. FisherP(k1, n1, k0, n0)[1] \in Nat /\ FisherP(k1, n1, k0, n0)[2] \in Nat \ {0}
    BY <2>1, FisherIsFraction
  <2>3. QED
    BY <2>1, <2>2
<1> HIDE DEF exact
<1>4. Unit \div exact[2] \in Nat
  BY <1>3, LevelAssumption
<1>5. QED
  BY <1>1, <1>3, <1>4

\* What is tested has its place in the order.
LEMMA ConfirmScores ==
  ASSUME args.features \in Features, Searched, Confirm
  PROVE  RowsScored'
<1> DEFINE I == {c \in DOMAIN candidates : Mask(candidates[c].rule, Confirmation) # {}}
           tested == Selected(candidates, I)
           row(c) == LET mask == Mask(c.rule, Confirmation) IN
                     [rule |-> c.rule, mask |-> mask, p |-> PValue(mask), q |-> [num |-> Unit, den |-> 1],
                      wracc |-> WRAcc(mask, Confirmation), lift |-> Lift(mask, Confirmation)]
<1>1. rows' = [i \in DOMAIN tested |-> row(tested[i])]
  BY Zenon DEF Confirm
<1>2. candidates \in Seq(Proposals)
  BY DEF Searched
<1>3. Len(candidates) \in Nat /\ DOMAIN candidates = 1 .. Len(candidates)
  BY <1>2
<1>4. I \in SUBSET Int /\ IsFiniteSet(I)
  <2>1. IsFiniteSet(1 .. Len(candidates))
    BY <1>3, FS_Interval
  <2>2. I \subseteq 1 .. Len(candidates)
    BY <1>3
  <2>3. QED
    BY <2>1, <2>2, FS_Subset
<1>5. \A c \in I : candidates[c] \in Proposals /\ Mask(candidates[c].rule, Confirmation) # {}
  BY <1>2, <1>3
<1> HIDE DEF I
<1>6. PICK n \in Nat : /\ DOMAIN tested = 1 .. n
                       /\ \A k \in 1 .. n : \E c \in I : tested[k] = candidates[c]
  <2>1. PICK J \in SUBSET Int : J = I /\ IsFiniteSet(J)
    BY <1>4
  <2>2. PICK s : s = candidates
    OBVIOUS
  <2>3. /\ Cardinality(J) \in Nat
        /\ DOMAIN Selected(s, J) = 1 .. Cardinality(J)
        /\ \A k \in 1 .. Cardinality(J) : \E i \in J : Selected(s, J)[k] = s[i]
    BY <2>1, SelectedFrom
  <2>4. /\ Cardinality(J) \in Nat
        /\ DOMAIN tested = 1 .. Cardinality(J)
        /\ \A k \in 1 .. Cardinality(J) : \E c \in I : tested[k] = candidates[c]
    BY <2>1, <2>2, <2>3, Zenon
  <2> HIDE DEF tested
  <2>5. QED
    BY <2>4
<1> HIDE DEF tested
<1>7. ASSUME NEW c, c \in Proposals, Mask(c.rule, Confirmation) # {}
      PROVE  Tested(row(c), Confirmation)
  <2>1. PICK mask, rule, p, w, l : /\ mask = Mask(c.rule, Confirmation) /\ rule = c.rule /\ p = PValue(mask)
                                   /\ w = WRAcc(mask, Confirmation) /\ l = Lift(mask, Confirmation)
    OBVIOUS
  <2>2. mask \in SUBSET Confirmation /\ mask # {}
    BY <1>7, <2>1 DEF Mask
  <2>3. /\ IsFraction(w)
        /\ \A x \in l : IsFraction(x)
        /\ \A x, y \in l : x = y
    <3>1. Confirmation \in SUBSET Rows
      BY MasksCounted
    <3>2. QED
      BY <2>1, <2>2, <3>1, MasksScored
  <2>4. Cardinality(rule) \in Nat
    <3>1. rule \in Conjunctions
      BY <1>7, <2>1, ProposalsAre
    <3>2. QED
      BY <3>1, FS_CardinalityType DEF Conjunctions
  <2>5. row(c) = [rule |-> rule, mask |-> mask, p |-> p, q |-> [num |-> Unit, den |-> 1],
                  wracc |-> w, lift |-> l]
    BY <2>1, Zenon
  <2> HIDE DEF row
  <2>6. row(c).wracc = w /\ row(c).lift = l /\ row(c).rule = rule /\ row(c).p = p /\ row(c).mask = mask
    BY <2>5
  <2>7. DOMAIN row(c) = {"rule", "mask", "p", "q", "wracc", "lift"}
    BY <2>5
  <2>8. Scored(row(c))
    BY <2>3, <2>4, <2>6 DEF Scored
  <2>9. p \in Nat
    BY <2>1, <2>2, PValueIsNat
  <2>10. QED
    BY <2>2, <2>6, <2>7, <2>8, <2>9 DEF Tested
<1> HIDE DEF row
<1>8. DOMAIN rows' = 1 .. n
  BY <1>1, <1>6
<1>9. IsFiniteSet(1 .. n) /\ 1 .. n \in SUBSET Int
  BY FS_Interval
<1>10. ASSUME NEW i \in 1 .. n
       PROVE  Tested(rows'[i], Confirmation)
  <2>1. PICK c \in I : tested[i] = candidates[c]
    BY <1>6
  <2>2. rows'[i] = row(candidates[c])
    BY <1>1, <1>6, <2>1
  <2>3. QED
    BY <1>5, <1>7, <2>2
<1>11. PICK table, on : table = rows' /\ on = Confirmation
  OBVIOUS
<1>12. TableTested(table, on)
  BY <1>8, <1>9, <1>10, <1>11 DEF TableTested
<1>13. Confirmation' = on
  <2>1. UNCHANGED args
    BY Zenon DEF Confirm
  <2>2. QED
    BY <1>11, <2>1, TablesStay
<1>14. QED
  BY <1>11, <1>12, <1>13 DEF RowsScored

\* The correction changes what rules are corrected to, and nothing they are ranked by.
LEMMA CorrectKeepsScores == ASSUME RowsScored, Correct PROVE RowsScored'
<1>1. PICK q : q = QValues([i \in DOMAIN rows |-> rows[i].p], Unit)
  OBVIOUS
<1>2. rows' = [i \in DOMAIN rows |-> [rows[i] EXCEPT !.q = q[i]]]
  BY <1>1, Zenon DEF Correct
<1>3. DOMAIN rows' = DOMAIN rows
  BY <1>2
<1>4. ASSUME NEW i \in DOMAIN rows
      PROVE  Tested(rows'[i], Confirmation)
  <2>1. PICK r, x : r = rows[i] /\ x = q[i]
    OBVIOUS
  <2>2. rows'[i] = [r EXCEPT !.q = x]
    BY <1>2, <2>1
  <2>3. Tested(r, Confirmation)
    BY <2>1 DEF RowsScored, TableTested
  <2>4. PICK t : t = [r EXCEPT !.q = x]
    OBVIOUS
  <2>5. DOMAIN t = DOMAIN r
    BY <2>4
  <2>6. t.rule = r.rule /\ t.wracc = r.wracc /\ t.lift = r.lift /\ t.p = r.p /\ t.mask = r.mask
    BY <2>3, <2>4 DEF Tested
  <2>7. Scored(t)
    BY <2>3, <2>6 DEF Tested, Scored
  <2>8. QED
    BY <2>2, <2>3, <2>4, <2>5, <2>6, <2>7 DEF Tested
<1>5. PICK table, on : table = rows' /\ on = Confirmation
  OBVIOUS
<1>6. TableTested(table, on)
  <2>1. IsFiniteSet(DOMAIN rows) /\ DOMAIN rows \in SUBSET Int /\ \E n \in Nat : DOMAIN rows = 1 .. n
    BY DEF RowsScored, TableTested
  <2>2. QED
    BY <1>3, <1>4, <1>5, <2>1 DEF TableTested
<1>7. Confirmation' = on
  <2>1. UNCHANGED args
    BY Zenon DEF Correct
  <2>2. QED
    BY <1>5, <2>1, TablesStay
<1>8. QED
  BY <1>5, <1>6, <1>7 DEF RowsScored

\* While they rest, they stay tested.
LEMMA RowsStay == ASSUME UNCHANGED <<args, rows>>, RowsScored PROVE RowsScored'
<1>1. Confirmation' = Confirmation
  BY TablesStay
<1>2. QED
  BY <1>1 DEF RowsScored

\* Nothing is searched when the script starts.
LEMMA SearchInvInit == MineInit => SearchInv
<1> SUFFICES ASSUME MineInit PROVE SearchInv
  OBVIOUS
<1>1. pc = "validate" /\ args \in [features : Features, metrics : Metrics, beam : BeamWidths, quality : Qualities]
  BY Zenon DEF MineInit
<1>2. args.features \in Features /\ args.beam \in Nat
  BY <1>1, MinerAssumption
<1>3. QED
  BY <1>1, <1>2 DEF SearchInv

\* Every step keeps the invariant.
LEMMA SearchInvNext == SearchInv /\ [MineNext]_mineVars => SearchInv'
<1> SUFFICES ASSUME SearchInv, [MineNext]_mineVars PROVE SearchInv'
  OBVIOUS
<1>1. args.features \in Features /\ args.beam \in Nat
  BY DEF SearchInv
<1>2. UNCHANGED args
  BY DEF MineNext, mineVars, Refuse, Vocabulate, Deepen, Confirm, Correct, Prune, Describe, Tell,
         DeleteClasses, DeleteJob, InsertJob, InsertClass, Inserted, MineRestart, StartedAgain
<1>3. (args.features)' \in Features /\ (args.beam)' \in Nat
  BY <1>1, <1>2
<1>4. ASSUME pc' \notin {"search", "correct", "prune", "describe"} PROVE SearchInv'
  BY <1>3, <1>4 DEF SearchInv
<1>5. CASE Refuse
  BY <1>4, <1>5 DEF Refuse, Stop
<1>6. CASE Vocabulate
  <2>1. pc' \in {"search", "failed"}
    BY <1>6, Zenon DEF Vocabulate, Stop
  <2>2. CASE pc' = "search"
    <3>1. Searched'
      BY <1>1, <1>6, <2>2, VocabulateSearches
    <3>2. QED
      BY <1>3, <2>2, <3>1 DEF SearchInv
  <2>3. QED
    BY <1>4, <2>1, <2>2
<1>7. CASE Deepen
  <2>1. pc = "search" /\ pc' = pc
    BY <1>7, Zenon DEF Deepen
  <2>2. Searched'
    BY <1>1, <1>7, <2>1, DeepenSearches DEF SearchInv
  <2>3. QED
    BY <1>3, <2>1, <2>2 DEF SearchInv
<1>8. CASE Confirm
  <2>1. /\ pc = "search" /\ pc' \in {"correct", "failed"} /\ UNCHANGED search
        /\ depth = MaxDepth \/ level = <<>>
    BY <1>8, Zenon DEF Confirm, Stop
  <2>2. Searched
    BY <2>1 DEF SearchInv
  <2>3. Searched'
    BY <1>2, <2>1, <2>2, SearchedStays
  <2>4. RowsScored'
    BY <1>1, <1>8, <2>2, ConfirmScores
  <2>5. depth' = MaxDepth \/ level' = <<>>
    BY <2>1 DEF search
  <2>6. QED
    BY <1>3, <2>1, <2>3, <2>4, <2>5 DEF SearchInv
<1>9. CASE Correct
  <2>1. pc = "correct" /\ pc' = "prune" /\ UNCHANGED search
    BY <1>9, Zenon DEF Correct
  <2>2. Searched'
    BY <1>2, <2>1, SearchedStays DEF SearchInv
  <2>3. RowsScored'
    BY <1>9, <2>1, CorrectKeepsScores DEF SearchInv
  <2>4. depth' = MaxDepth \/ level' = <<>>
    BY <2>1 DEF SearchInv, search
  <2>5. QED
    BY <1>3, <2>1, <2>2, <2>3, <2>4 DEF SearchInv
<1>10. CASE Prune
  <2>1. /\ pc = "prune" /\ pc' = "describe" /\ UNCHANGED rows
        /\ kept' = Representatives(AtMostFirst(Reportable, MaxPruneCandidates))
    BY <1>10, Zenon DEF Prune
  <2>2. RowsScored'
    BY <1>2, <2>1, RowsStay DEF SearchInv
  <2>3. PICK s : s = rows
    OBVIOUS
  <2>4. kept' = Representatives(AtMostFirst(Ranking(s), MaxPruneCandidates))
    BY <2>1, <2>3, Zenon DEF Reportable, Ranking
  <2>5. rows' = s
    BY <2>1, <2>3
  <2>6. QED
    BY <1>3, <2>1, <2>2, <2>4, <2>5 DEF SearchInv
<1>11. CASE Describe
  BY <1>4, <1>11 DEF Describe
<1>12. CASE Tell
  BY <1>4, <1>12 DEF Tell
<1>13. CASE DeleteClasses
  BY <1>4, <1>13 DEF DeleteClasses
<1>14. CASE DeleteJob
  BY <1>4, <1>14 DEF DeleteJob
<1>15. CASE InsertJob
  BY <1>4, <1>15 DEF InsertJob
<1>16. CASE InsertClass
  BY <1>4, <1>16 DEF InsertClass
<1>17. CASE Inserted
  BY <1>4, <1>17 DEF Inserted
<1>18. CASE MineRestart
  BY <1>4, <1>18 DEF MineRestart, StartedAgain
<1>19. CASE UNCHANGED mineVars
  <2>1. UNCHANGED <<args, pc, search, rows, kept>>
    BY <1>19 DEF mineVars, judged
  <2>2. Searched => Searched'
    BY <2>1, SearchedStays
  <2>3. RowsScored => RowsScored'
    BY <2>1, RowsStay
  <2>4. UNCHANGED <<depth, level>>
    BY <2>1 DEF search
  <2>5. QED
    BY <1>3, <2>1, <2>2, <2>3, <2>4 DEF SearchInv
<1>20. QED
  BY <1>5, <1>6, <1>7, <1>8, <1>9, <1>10, <1>11, <1>12, <1>13, <1>14, <1>15, <1>16, <1>17, <1>18, <1>19
     DEF MineNext

-----------------------------------------------------------------------------
(* The miner: no hypothesis is lost.                                       *)

\* A search that extends every proposal by every predicate proposes what each rule of at
\* most `most` predicates covers, if it clears the floor.
LEMMA ClosedFindsAll ==
  ASSUME NEW base, IsFiniteSet(base), NEW size \in Nat,
         NEW covers, DOMAIN covers = 1 .. size, \A j \in 1 .. size : covers[j] \in SUBSET base,
         NEW c, Len(c) \in Nat, NEW d \in Nat, NEW most \in Nat,
         SearchSound(c, d, covers, base), SearchClosed(c, d, covers),
         d >= most \/ \A i \in 1 .. Len(c) : Cardinality(c[i].rule) # d,
         NEW rule \in SUBSET (1 .. size), Cardinality(rule) \in 1 .. most
  PROVE  Proposed(Meet(rule, covers, base), Cardinality(rule), c)
<1> DEFINE found(n) == \A r \in SUBSET (1 .. size) :
                          Cardinality(r) = n => Proposed(Meet(r, covers, base), n, c)
           Q == {n \in Nat : n + 1 <= most => found(n + 1)}
<1>1. \A r \in SUBSET (1 .. size) : IsFiniteSet(r) /\ Cardinality(r) \in Nat /\ r \in Conjunctions
  <2> TAKE r \in SUBSET (1 .. size)
  <2>1. IsFiniteSet(1 .. size)
    BY FS_Interval
  <2>2. IsFiniteSet(r)
    BY <2>1, FS_Subset
  <2>3. QED
    BY <2>2, FS_CardinalityType DEF Conjunctions
<1>2. found(1)
  <2> TAKE r \in SUBSET (1 .. size)
  <2> SUFFICES ASSUME Cardinality(r) = 1 PROVE Proposed(Meet(r, covers, base), 1, c)
    OBVIOUS
  <2>1. PICK j : r = {j}
    BY <1>1, FS_Singleton
  <2>2. j \in DOMAIN covers /\ covers[j] \in SUBSET base
    BY <2>1
  <2>3. Meet(r, covers, base) = covers[j]
    BY <2>1, <2>2 DEF Meet
  <2>4. QED
    BY <2>2, <2>3 DEF SearchClosed
<1>3. ASSUME NEW n \in Nat \ {0}, n + 1 <= most, found(n) PROVE found(n + 1)
  <2> TAKE r \in SUBSET (1 .. size)
  <2> SUFFICES ASSUME Cardinality(r) = n + 1, N(Meet(r, covers, base)) >= MinCoverage
               PROVE  \E i \in 1 .. Len(c) : c[i].mask = Meet(r, covers, base)
                                          /\ Cardinality(c[i].rule) <= n + 1
    BY DEF Proposed
  <2>1. PICK j : j \in r
    <3>1. r # {}
      <4>1. Cardinality({}) = 0
        BY FS_EmptySet
      <4>2. n + 1 # 0
        BY <1>3
      <4>3. Cardinality(r) = n + 1
        OBVIOUS
      <4>4. QED
        BY <4>1, <4>2, <4>3, Zenon
    <3>2. QED
      BY <3>1
  <2>2. PICK part : part = r \ {j}
    OBVIOUS
  <2>3. part \in SUBSET (1 .. size) /\ j \in DOMAIN covers /\ j \notin part /\ r = part \cup {j}
    BY <2>1, <2>2
  <2>4. /\ Cardinality(r) = Cardinality(part) + 1 /\ Cardinality(part) \in Nat
        /\ Meet(r, covers, base) = Meet(part, covers, base) \cap covers[j]
    <3>1. part \in Conjunctions /\ part \in SUBSET DOMAIN covers
      BY <1>1, <2>3
    <3>2. /\ Cardinality(part) \in Nat
          /\ Cardinality(part \cup {j}) = Cardinality(part) + 1
          /\ Meet(part \cup {j}, covers, base) = Meet(part, covers, base) \cap covers[j]
      BY <2>3, <3>1, RuleGrows
    <3>3. QED
      BY <2>3, <3>2
  <2>5. Cardinality(part) = n
    BY <2>4
  <2>6. N(Meet(part, covers, base)) >= MinCoverage
    <3>1. PICK less, more : less = Meet(r, covers, base) /\ more = Meet(part, covers, base)
      OBVIOUS
    <3>2. less \subseteq more /\ more \subseteq base
      BY <2>4, <3>1 DEF Meet
    <3>3. IsFiniteSet(more)
      BY <3>2, FS_Subset
    <3>4. Cardinality(less) <= Cardinality(more) /\ Cardinality(less) \in Nat /\ Cardinality(more) \in Nat
      BY <3>2, <3>3, FS_Subset, FS_CardinalityType
    <3>5. MinCoverage \in Nat
      BY MinerAssumption
    <3>6. Cardinality(less) >= MinCoverage
      BY <3>1 DEF N
    <3>7. Cardinality(more) >= MinCoverage
      BY <3>4, <3>5, <3>6
    <3>8. QED
      BY <3>1, <3>7 DEF N
  <2>7. PICK i \in 1 .. Len(c) : c[i].mask = Meet(part, covers, base) /\ Cardinality(c[i].rule) <= n
    BY <1>3, <2>3, <2>5, <2>6 DEF Proposed
  <2>8. Cardinality(c[i].rule) \in 1 .. d
    BY DEF SearchSound
  <2>9. Cardinality(c[i].rule) < d
    BY <1>3, <2>7, <2>8
  <2>10. Proposed(c[i].mask \cap covers[j], Cardinality(c[i].rule) + 1, c)
    BY <2>3, <2>9 DEF SearchClosed
  <2>11. c[i].mask \cap covers[j] = Meet(r, covers, base)
    BY <2>4, <2>7
  <2>12. PICK k \in 1 .. Len(c) : /\ c[k].mask = Meet(r, covers, base)
                                  /\ Cardinality(c[k].rule) <= Cardinality(c[i].rule) + 1
    BY <2>10, <2>11 DEF Proposed
  <2>13. Cardinality(c[k].rule) \in Nat
    BY DEF SearchSound
  <2>14. Cardinality(c[k].rule) <= n + 1
    BY <2>7, <2>8, <2>12, <2>13
  <2>15. QED
    BY <2>12, <2>14
<1> HIDE DEF found
<1>4. 0 \in Q
  BY <1>2
<1>5. ASSUME NEW n \in Q PROVE n + 1 \in Q
  <2>1. n \in Nat /\ n + 1 \in Nat \ {0}
    OBVIOUS
  <2>2. ASSUME (n + 1) + 1 <= most PROVE found((n + 1) + 1)
    <3>1. found(n + 1)
      BY <2>1, <2>2
    <3>2. QED
      BY <1>3, <2>1, <2>2, <3>1
  <2>3. QED
    BY <2>1, <2>2
<1>6. Cardinality(rule) - 1 \in Q
  <2>1. Q = Nat
    <3>1. Q \in SUBSET Nat
      OBVIOUS
    <3> HIDE DEF Q
    <3>2. QED
      BY <1>4, <1>5, <3>1, NatSetInduction
  <2>2. Cardinality(rule) - 1 \in Nat
    OBVIOUS
  <2>3. QED
    BY <2>1, <2>2
<1>7. found(Cardinality(rule))
  <2>1. PICK n \in Nat : Cardinality(rule) = n + 1 /\ n \in Q
    <3>1. PICK n \in Nat : n = Cardinality(rule) - 1
      OBVIOUS
    <3>2. QED
      BY <1>6, <3>1
  <2>2. n + 1 <= most
    BY <2>1
  <2>3. QED
    BY <2>1, <2>2
<1>8. QED
  BY <1>7 DEF found

\* What the candidates cover, of a search whose beam never cut.
CoversExactly(c, covers, base) ==
  {c[i].mask : i \in DOMAIN c}
    = {mask \in {Meet(rule, covers, base) :
                   rule \in UNION {kSubset(n, DOMAIN covers) : n \in 1 .. MaxDepth}} : N(mask) >= MinCoverage}

\* A search that ended, and whose beam never cut, has covered everything.
LEMMA SearchIsComplete ==
  ASSUME args.features \in Features,
         NEW v, Len(v) \in Nat, NEW covers, covers = CoversOf(v),
         NEW c \in Seq(Proposals), NEW l, NEW d \in 1 .. MaxDepth, NEW width, width >= Len(c),
         SearchedTo(d, c, l, covers, Discovery, width), d = MaxDepth \/ l = <<>>
  PROVE  CoversExactly(c, covers, Discovery)
<1> DEFINE R == UNION {kSubset(n, DOMAIN covers) : n \in 1 .. MaxDepth}
<1>1. PICK base : base = Discovery
  OBVIOUS
<1>2. /\ IsFiniteSet(base) /\ DOMAIN covers = 1 .. Len(v)
      /\ \A j \in 1 .. Len(v) : covers[j] \in SUBSET base
  <2>1. IsFiniteSet(Discovery)
    BY MasksCounted
  <2>2. QED
    BY <1>1, <2>1 DEF CoversOf, Covered
<1>3. /\ SearchSound(c, d, covers, base) /\ SearchClosed(c, d, covers) /\ LastDepth(c, l, d)
  BY <1>1 DEF SearchedTo
<1>4. MaxDepth \in Nat /\ d \in Nat /\ Len(c) \in Nat /\ DOMAIN c = 1 .. Len(c)
  BY MinerAssumption
<1>5. d >= MaxDepth \/ \A i \in 1 .. Len(c) : Cardinality(c[i].rule) # d
  <2>1. CASE d = MaxDepth
    BY <1>4, <2>1
  <2>2. CASE l = <<>>
    <3>1. 1 .. Len(l) = {}
      BY <2>2
    <3>2. QED
      BY <1>3, <3>1 DEF LastDepth
  <2>3. QED
    BY <2>1, <2>2
<1>6. ASSUME NEW rule
      PROVE  rule \in R <=> rule \in SUBSET (1 .. Len(v)) /\ Cardinality(rule) \in 1 .. MaxDepth
  BY <1>2 DEF kSubset
<1> HIDE DEF R
<1>7. ASSUME NEW i \in DOMAIN c
      PROVE  \E rule \in R : c[i].mask = Meet(rule, covers, base) /\ N(c[i].mask) >= MinCoverage
  <2>1. /\ c[i].rule \in SUBSET DOMAIN covers /\ Cardinality(c[i].rule) \in 1 .. d
        /\ c[i].mask = Meet(c[i].rule, covers, base)
    BY <1>3, <1>4 DEF SearchSound
  <2>2. Cardinality(c[i].rule) \in 1 .. MaxDepth
    BY <1>4, <2>1
  <2>3. c[i].rule \in R
    BY <1>2, <1>6, <2>1, <2>2
  <2>4. c[i] \in Proposals
    BY <1>4
  <2>5. N(c[i].mask) >= MinCoverage
    BY <2>4, ProposalsAre
  <2>6. QED
    BY <2>1, <2>3, <2>5
<1>8. ASSUME NEW rule \in R, N(Meet(rule, covers, base)) >= MinCoverage
      PROVE  \E i \in DOMAIN c : c[i].mask = Meet(rule, covers, base)
  <2>1. rule \in SUBSET (1 .. Len(v)) /\ Cardinality(rule) \in 1 .. MaxDepth
    BY <1>6
  <2>2. Proposed(Meet(rule, covers, base), Cardinality(rule), c)
    BY <1>2, <1>3, <1>4, <1>5, <2>1, ClosedFindsAll
  <2>3. QED
    BY <1>4, <1>8, <2>2 DEF Proposed
<1>9. {c[i].mask : i \in DOMAIN c} = {mask \in {Meet(rule, covers, base) : rule \in R} : N(mask) >= MinCoverage}
  BY <1>7, <1>8
<1>10. QED
  BY <1>1, <1>9 DEF CoversExactly, R

\* With a beam that never cuts, the candidates cover exactly what some conjunction of up to
\* MaxDepth predicates covers and clears the floor, each once.
THEOREM MinerLosesNoHypothesis == MineSpec => []SearchLosesNoHypothesis
<1>1. SearchInv => SearchLosesNoHypothesis
  <2> SUFFICES ASSUME SearchInv, pc = "prune", args.beam >= Len(candidates)
               PROVE  /\ {candidates[c].mask : c \in DOMAIN candidates}
                           = {mask \in {Mask(rule, Discovery) : rule \in Rules} : N(mask) >= MinCoverage}
                      /\ \A c, d \in DOMAIN candidates : candidates[c].mask = candidates[d].mask => c = d
    BY DEF SearchLosesNoHypothesis
  <2>1. PICK v, c, l, d, width, covers : /\ v = predicates /\ c = candidates /\ l = level /\ d = depth
                                         /\ width = args.beam /\ covers = CoversOf(v)
    OBVIOUS
  <2>2. /\ Len(v) \in Nat /\ DOMAIN v = 1 .. Len(v) /\ d \in 1 .. MaxDepth
        /\ c \in Seq(Proposals) /\ SearchedTo(d, c, l, covers, Discovery, width)
    BY <2>1 DEF SearchInv, Searched
  <2>3. d = MaxDepth \/ l = <<>>
    BY <2>1 DEF SearchInv
  <2>4. CoversExactly(c, covers, Discovery)
    <3>1. args.features \in Features /\ width >= Len(c)
      BY <2>1 DEF SearchInv
    <3>2. QED
      BY <2>1, <2>2, <2>3, <3>1, SearchIsComplete
  <2>5. DOMAIN covers = DOMAIN v
    BY <2>1, <2>2 DEF CoversOf
  <2>6. Rules = UNION {kSubset(n, DOMAIN covers) : n \in 1 .. MaxDepth}
    BY <2>1, <2>5, Zenon DEF Rules
  <2>7. ASSUME NEW rule \in Rules PROVE Mask(rule, Discovery) = Meet(rule, covers, Discovery)
    <3>1. \A j \in rule : j \in 1 .. Len(v)
      BY <2>1, <2>2 DEF Rules, kSubset
    <3>2. \A j \in rule : covers[j] = Covered(predicates[j], Discovery)
      BY <2>1, <3>1 DEF CoversOf
    <3>3. QED
      BY <3>2 DEF Mask, Meet
  <2>8. {Mask(rule, Discovery) : rule \in Rules} = {Meet(rule, covers, Discovery) : rule \in Rules}
    BY <2>7
  <2>9. {c[i].mask : i \in DOMAIN c} = {mask \in {Meet(rule, covers, Discovery) : rule \in Rules} : N(mask) >= MinCoverage}
    BY <2>4, <2>6, Zenon DEF CoversExactly
  <2>10. \A i, j \in DOMAIN c : c[i].mask = c[j].mask => i = j
    BY <2>2 DEF SearchedTo, DistinctMasks
  <2>11. {c[i].mask : i \in DOMAIN c} = {mask \in {Mask(rule, Discovery) : rule \in Rules} : N(mask) >= MinCoverage}
    BY <2>8, <2>9
  <2>12. c = candidates
    BY <2>1
  <2>13. {candidates[i].mask : i \in DOMAIN candidates}
           = {mask \in {Mask(rule, Discovery) : rule \in Rules} : N(mask) >= MinCoverage}
    BY <2>11, <2>12
  <2>14. QED
    BY <2>10, <2>12, <2>13
<1>2. QED
  BY <1>1, SearchInvInit, SearchInvNext, PTL DEF MineSpec

\* A rule the pruning drops is represented by a kept one that ranks no lower, and no two
\* kept rules are near-duplicates of each other.
THEOREM MinerDropsRepresented == MineSpec => []EveryDropIsRepresented
<1>1. SearchInv => EveryDropIsRepresented
  <2> SUFFICES ASSUME SearchInv, pc = "describe" PROVE EveryDropIsRepresented
    BY DEF EveryDropIsRepresented
  <2>1. PICK s : s = rows
    OBVIOUS
  <2>2. IsFiniteSet(DOMAIN s) /\ DOMAIN s \in SUBSET Int /\ \A i \in DOMAIN s : Scored(s[i])
    BY <2>1 DEF SearchInv, RowsScored, TableTested, Tested
  <2>3. Reportable = Ranking(s)
    BY <2>1, Zenon DEF Reportable, Ranking
  <2>4. PICK pool : pool = AtMostFirst(Ranking(s), MaxPruneCandidates)
    OBVIOUS
  <2>5. PICK chosen : chosen = Representatives(pool)
    OBVIOUS
  <2>6. kept = chosen
    <3>1. kept = Representatives(AtMostFirst(Ranking(rows), MaxPruneCandidates))
      BY DEF SearchInv
    <3>2. QED
      BY <3>1, <2>1, <2>4, <2>5, Zenon
  <2>7. /\ \A n \in DOMAIN pool :
             \/ \E i \in DOMAIN chosen : chosen[i] = pool[n]
             \/ \E i \in DOMAIN chosen : NearDuplicate(chosen[i], pool[n]) /\ ~RanksAbove(pool[n], chosen[i])
        /\ \A i, j \in DOMAIN chosen : NearDuplicate(chosen[i], chosen[j]) => i = j
    BY <2>2, <2>4, <2>5, DropsRepresented
  <2>8. pool = AtMostFirst(Reportable, MaxPruneCandidates)
    BY <2>3, <2>4, Zenon
  <2>9. QED
    BY <2>6, <2>7, <2>8, Zenon DEF EveryDropIsRepresented, NearDuplicate
<1>2. QED
  BY <1>1, SearchInvInit, SearchInvNext, PTL DEF MineSpec

-----------------------------------------------------------------------------
(* The miner: what is called significant.                                  *)

\* What a class has to have for its place by failure mass.
Weighed(c) ==
  /\ K(c.mask) \in Nat
  /\ \A x \in c.lift : IsFraction(x)
  /\ \A x, y \in c.lift : x = y
  /\ Cardinality(c.rule) \in Nat

\* More failures first, then the higher lift, then the shorter rule.
Heavier(a, b) ==
  \/ K(a.mask) > K(b.mask)
  \/ K(a.mask) = K(b.mask) /\ LiftAbove(a.lift, b.lift)
  \/ K(a.mask) = K(b.mask) /\ ~LiftAbove(b.lift, a.lift)
     /\ Cardinality(a.rule) < Cardinality(b.rule)

\* The order of the classes in the report.
LEMMA ClassesRanked ==
  ASSUME NEW s, NEW I, \A i \in I : Weighed(s[i])
  PROVE  Ranked({p \in I \X I : Heavier(s[p[1]], s[p[2]])}, I)
<1> DEFINE A == {p \in I \X I : K(s[p[1]].mask) > K(s[p[2]].mask)}
           B == {p \in I \X I : LiftAbove(s[p[1]].lift, s[p[2]].lift)}
           C == {p \in I \X I : Cardinality(s[p[1]].rule) < Cardinality(s[p[2]].rule)}
           BC == {p \in I \X I : p \in B \/ (<<p[2], p[1]>> \notin B /\ p \in C)}
           D == {p \in I \X I : Heavier(s[p[1]], s[p[2]])}
<1>1. \A x, y \in I : /\ <<x, y>> \in A <=> K(s[x].mask) > K(s[y].mask)
                      /\ <<x, y>> \in B <=> LiftAbove(s[x].lift, s[y].lift)
                      /\ <<x, y>> \in C <=> Cardinality(s[x].rule) < Cardinality(s[y].rule)
                      /\ <<x, y>> \in D <=> Heavier(s[x], s[y])
  OBVIOUS
<1> HIDE DEF A, B, C
<1>2. \A x, y \in I : <<x, y>> \in BC <=> <<x, y>> \in B \/ (<<y, x>> \notin B /\ <<x, y>> \in C)
  OBVIOUS
<1> HIDE DEF BC, D
<1>3. Ranked(A, I)
  <2>1. \A x \in I : K(s[x].mask) \in Nat
    BY DEF Weighed
  <2>2. QED
    BY <1>1, <2>1 DEF Ranked
<1>4. Ranked(B, I)
  <2>1. \A a \in {s[x].lift : x \in I} : (\A x \in a : IsFraction(x)) /\ \A x, y \in a : x = y
    BY DEF Weighed
  <2>2. /\ \A a, b \in {s[x].lift : x \in I} : LiftAbove(a, b) => ~LiftAbove(b, a)
        /\ \A a, b, c \in {s[x].lift : x \in I} : LiftAbove(a, b) => LiftAbove(a, c) \/ LiftAbove(c, b)
    BY <2>1, LiftRanks
  <2>3. \A x \in I : s[x].lift \in {s[y].lift : y \in I}
    OBVIOUS
  <2>4. QED
    BY <1>1, <2>2, <2>3 DEF Ranked
<1>5. Ranked(C, I)
  <2>1. \A x \in I : Cardinality(s[x].rule) \in Nat
    BY DEF Weighed
  <2>2. QED
    BY <1>1, <2>1 DEF Ranked
<1>6. Ranked(BC, I)
  BY <1>2, <1>4, <1>5, RankedThen
<1>7. ASSUME NEW x \in I, NEW y \in I
      PROVE  <<x, y>> \in D <=> <<x, y>> \in A \/ (<<y, x>> \notin A /\ <<x, y>> \in BC)
  <2>1. K(s[x].mask) \in Nat /\ K(s[y].mask) \in Nat
    BY DEF Weighed
  <2>2. K(s[x].mask) = K(s[y].mask) <=> ~(K(s[x].mask) > K(s[y].mask)) /\ ~(K(s[y].mask) > K(s[x].mask))
    BY <2>1
  <2>3. QED
    BY <1>1, <1>2, <2>2, Zenon DEF Heavier
<1>8. Ranked(D, I)
  BY <1>3, <1>6, <1>7, RankedThen
<1>9. QED
  BY <1>8 DEF D

\* The report lists the classes, all of them and nothing else.
LEMMA ByMassLists ==
  ASSUME NEW s, NEW size \in Nat, DOMAIN s = 1 .. size, \A i \in 1 .. size : Weighed(s[i])
  PROVE  /\ \A n \in DOMAIN ByMass(s) : \E i \in 1 .. size : ByMass(s)[n] = s[i]
         /\ \A i \in 1 .. size : \E n \in DOMAIN ByMass(s) : ByMass(s)[n] = s[i]
<1> DEFINE I == DOMAIN s
           B == {p \in I \X I : Heavier(s[p[1]], s[p[2]])}
           placed == {<<Cardinality({y \in I : Heavier(s[y], s[x])
                                            \/ (~Heavier(s[x], s[y]) /\ y < x)}) + 1, x>> : x \in I}
           g == [n \in 1 .. Cardinality(I) |-> (CHOOSE p \in placed : p[1] = n)[2]]
<1>1. ByMass(s) = [n \in DOMAIN g |-> s[g[n]]]
  BY Zenon DEF ByMass, StableSort, StablePositions, Arranged, Heavier
<1>2. I \in SUBSET Int /\ IsFiniteSet(I) /\ \A i \in I : Weighed(s[i])
  BY FS_Interval
<1>3. I = 1 .. size
  OBVIOUS
<1> HIDE DEF I
<1>4. \A x, y \in I : <<x, y>> \in B <=> Heavier(s[x], s[y])
  OBVIOUS
<1>5. Ranked(B, I)
  BY <1>2, ClassesRanked
<1> HIDE DEF B
<1>6. StablyPlaced(placed, I, B)
  <2>1. ASSUME NEW x \in I
        PROVE  {y \in I : Heavier(s[y], s[x]) \/ (~Heavier(s[x], s[y]) /\ y < x)}
                 = {y \in I : <<y, x>> \in B \/ (<<x, y>> \notin B /\ y < x)}
    BY <1>4, Zenon
  <2>2. QED
    BY <2>1, Zenon DEF StablyPlaced
<1> HIDE DEF placed
<1>7. PICK t, h : t = ByMass(s) /\ h = g
  OBVIOUS
<1>8. ListedBy(t, s, placed, I)
  <2>1. h = [n \in 1 .. Cardinality(I) |-> h[n]]
    BY <1>7
  <2>2. ASSUME NEW n \in 1 .. Cardinality(I), \E p \in placed : p[1] = n
        PROVE  \E p \in placed : p[1] = n /\ h[n] = p[2]
    <3>1. PICK p \in placed : p = (CHOOSE q \in placed : q[1] = n) /\ p[1] = n
      BY <2>2, Zenon
    <3>2. h[n] = p[2]
      BY <3>1, <1>7
    <3>3. QED
      BY <3>1, <3>2
  <2>3. Lists(h, placed, I)
    BY <2>1, <2>2 DEF Lists
  <2>4. t = [n \in DOMAIN h |-> s[h[n]]]
    <3> HIDE DEF g
    <3>1. QED
      BY <1>1, <1>7, Zenon
  <2>5. QED
    BY <2>3, <2>4, Zenon DEF ListedBy
<1>9. SortedBy(t, s, I, B)
  BY <1>2, <1>5, <1>6, <1>8, StableSortSorts
<1>10. /\ \A n \in 1 .. Cardinality(I) : \E i \in I : t[n] = s[i]
       /\ \A i \in I : \E n \in 1 .. Cardinality(I) : t[n] = s[i]
       /\ t = [n \in 1 .. Cardinality(I) |-> t[n]]
  BY <1>9, Zenon DEF SortedBy
<1>11. DOMAIN t = 1 .. Cardinality(I)
  BY <1>10
<1>12. QED
  BY <1>3, <1>7, <1>10, <1>11, Zenon

\* The p-values of a table of tested rules, and what the step-up procedure rejects of them.
PsOf(t) == [j \in DOMAIN t |-> t[j].p]
Rejected(t) == Reject(PsOf(t), Alpha)

\* A row that clears the level is rejected.
CorrectedAre(t) == \A i \in DOMAIN t : ClearsStrictly(t[i].q, Alpha) => i \in Rejected(t)

\* The correction of a table of tested rules.
LEMMA CorrectionRejects ==
  ASSUME NEW on, NEW t, TableTested(t, on), NEW q, q = QValues(PsOf(t), Unit),
         NEW u, u = [i \in DOMAIN t |-> [t[i] EXCEPT !.q = q[i]]]
  PROVE  CorrectedAre(u)
<1>1. PICK n \in Nat : DOMAIN t = 1 .. n
  BY DEF TableTested
<1>2. PICK p : p = PsOf(t)
  OBVIOUS
<1>3. p \in Seq(Nat) /\ DOMAIN p = DOMAIN t
  <2>1. p \in [1 .. n -> Nat]
    BY <1>1, <1>2 DEF PsOf, TableTested, Tested
  <2>2. QED
    BY <1>1, <2>1
<1>4. ASSUME NEW i \in DOMAIN t PROVE u[i].q = q[i] /\ u[i].p = t[i].p
  <2>1. u[i] = [t[i] EXCEPT !.q = q[i]]
    OBVIOUS
  <2>2. PICK r : r = t[i]
    OBVIOUS
  <2>3. "q" \in DOMAIN r /\ "p" \in DOMAIN r
    BY <2>2 DEF TableTested, Tested
  <2>4. QED
    BY <2>1, <2>2, <2>3
<1>5. DOMAIN u = DOMAIN t
  OBVIOUS
<1>6. PsOf(u) = p
  BY <1>2, <1>4, <1>5 DEF PsOf
<1>7. ASSUME NEW i \in DOMAIN u, ClearsStrictly(u[i].q, Alpha) PROVE i \in Rejected(u)
  <2>1. i \in DOMAIN p /\ u[i].q = QValues(p, Unit)[i]
    BY <1>2, <1>3, <1>4, <1>5
  <2>2. PICK x : x = QValues(p, Unit)[i]
    OBVIOUS
  <2>3. x.num \in Nat /\ x.den \in Nat \ {0}
    BY <1>3, <2>1, <2>2, QIsFraction
  <2>4. x.num < Alpha * x.den
    BY <1>7, <2>1, <2>2 DEF ClearsStrictly
  <2>5. x.num <= Alpha * x.den
    BY <2>3, <2>4, LevelAssumption
  <2>6. Clears(QValues(p, Unit)[i], Alpha)
    BY <2>2, <2>5 DEF Clears
  <2>7. i \in Reject(p, Alpha)
    BY <1>3, <2>1, <2>6, ClearsIsRejected
  <2>8. QED
    BY <1>6, <2>7, Zenon DEF Rejected
<1>8. QED
  BY <1>7 DEF CorrectedAre

\* What is reported as significant is rejected, and what was kept and clears the level is
\* reported.
Reported(t, chosen, all) ==
  /\ \A n \in Significant(all) : \E i \in Rejected(t) : t[i].rule = all[n].rule
  /\ \A i \in DOMAIN chosen : ClearsStrictly(chosen[i].q, Alpha) =>
       \E n \in DOMAIN all : all[n].rule = chosen[i].rule

\* From the tested rules to the classes.
FamilyInv ==
  /\ pc \in {"prune", "describe"} => CorrectedAre(rows)
  /\ pc \in {"tell", "write", "delete_job", "insert_job", "insert_classes"} =>
       Reported(rows, kept, result.all)

\* The classes that are described are those that were kept, but for the cap.
LEMMA DescribeReports ==
  ASSUME args.features \in Features, RowsScored, CorrectedAre(rows),
         kept = Representatives(AtMostFirst(Ranking(rows), MaxPruneCandidates)), Describe
  PROVE  Reported(rows, kept, result'.all)
<1> DEFINE I == {i \in DOMAIN kept : i <= MaxClasses \/ ClearsStrictly(kept[i].q, Alpha)}
<1>1. PICK t, chosen, on : t = rows /\ chosen = kept /\ on = Confirmation
  OBVIOUS
<1>2. TableTested(t, on)
  BY <1>1 DEF RowsScored
<1>3. PICK m \in Nat : DOMAIN chosen = 1 .. m /\ \A i \in 1 .. m : \E j \in DOMAIN t : chosen[i] = t[j]
  <2>1. IsFiniteSet(DOMAIN t) /\ DOMAIN t \in SUBSET Int /\ \A i \in DOMAIN t : Scored(t[i])
    BY <1>2 DEF TableTested, Tested
  <2>2. PICK pool : pool = AtMostFirst(Ranking(t), MaxPruneCandidates)
    OBVIOUS
  <2>3. chosen = Representatives(pool)
    BY <1>1, <2>2, Zenon
  <2>4. QED
    BY <2>1, <2>2, <2>3, DropsRepresented
<1>4. I \in SUBSET Int /\ IsFiniteSet(I) /\ I \subseteq 1 .. m
  <2>1. I \subseteq 1 .. m
    BY <1>1, <1>3
  <2>2. IsFiniteSet(1 .. m)
    BY <1>3, FS_Interval
  <2>3. QED
    BY <2>1, <2>2, FS_Subset
<1>5. PICK final : final = Final
  OBVIOUS
<1>6. final = Selected(chosen, I)
  BY <1>1, <1>5, Zenon DEF Final
<1>7. \A i \in DOMAIN chosen : ClearsStrictly(chosen[i].q, Alpha) => i \in I
  BY <1>1
<1> HIDE DEF I
<1>8. PICK size \in Nat :
        /\ DOMAIN final = 1 .. size
        /\ \A n \in 1 .. size : \E i \in I : final[n] = chosen[i]
        /\ \A i \in I : \E n \in 1 .. size : final[n] = chosen[i]
  <2>1. /\ Cardinality(I) \in Nat
        /\ DOMAIN Selected(chosen, I) = 1 .. Cardinality(I)
        /\ \A n \in 1 .. Cardinality(I) : \E i \in I : Selected(chosen, I)[n] = chosen[i]
        /\ \A i \in I : \E n \in 1 .. Cardinality(I) : Selected(chosen, I)[n] = chosen[i]
    BY <1>4, SelectedFrom
  <2>2. QED
    BY <1>6, <2>1
<1>9. ASSUME NEW n \in 1 .. size PROVE \E j \in DOMAIN t : final[n] = t[j]
  BY <1>3, <1>4, <1>8
<1>10. PICK significant \in SUBSET {i \in DOMAIN Final : MaySignify(Final[i])} :
         LET class(i) == [rule |-> Final[i].rule, mask |-> Final[i].mask, lift |-> Final[i].lift,
                          significant |-> i \in significant]
             list     == ByMass([i \in DOMAIN Final |-> class(i)])
         IN result' = [all |-> list, stored |-> AtMostFirst(list, TopK)]
  BY Zenon DEF Describe
<1>11. PICK cs : /\ cs = [i \in DOMAIN Final |-> [rule |-> Final[i].rule, mask |-> Final[i].mask,
                                                   lift |-> Final[i].lift, significant |-> i \in significant]]
                 /\ result' = [all |-> ByMass(cs), stored |-> AtMostFirst(ByMass(cs), TopK)]
  BY <1>10, Zenon
<1>12. cs = [i \in DOMAIN final |-> [rule |-> final[i].rule, mask |-> final[i].mask,
                                     lift |-> final[i].lift, significant |-> i \in significant]]
  BY <1>5, <1>11, Zenon
<1>13. \A i \in significant : i \in 1 .. size /\ ClearsStrictly(final[i].q, Alpha)
  <2>1. \A i \in significant : i \in DOMAIN final /\ MaySignify(final[i])
    BY <1>5, <1>10, Zenon
  <2>2. QED
    BY <1>8, <2>1, Zenon DEF MaySignify
<1>14. PICK all : all = ByMass(cs) /\ all = result'.all
  BY <1>11
<1>15. DOMAIN cs = 1 .. size
  BY <1>8, <1>12
<1>16. \A i \in 1 .. size : /\ cs[i].rule = final[i].rule /\ cs[i].mask = final[i].mask
                            /\ cs[i].lift = final[i].lift
                            /\ (cs[i].significant <=> i \in significant)
  BY <1>8, <1>12
<1>17. \A i \in 1 .. size : Weighed(cs[i])
  <2> TAKE i \in 1 .. size
  <2>1. PICK j \in DOMAIN t : final[i] = t[j]
    BY <1>9
  <2>2. Scored(final[i]) /\ final[i].mask \in SUBSET Confirmation
    BY <1>1, <1>2, <2>1 DEF TableTested, Tested
  <2>3. K(final[i].mask) \in Nat
    BY <2>2, MasksCounted
  <2>4. QED
    BY <1>16, <2>2, <2>3 DEF Weighed, Scored
<1>18. /\ \A n \in DOMAIN all : \E i \in 1 .. size : all[n] = cs[i]
       /\ \A i \in 1 .. size : \E n \in DOMAIN all : all[n] = cs[i]
  <2>1. /\ \A n \in DOMAIN ByMass(cs) : \E i \in 1 .. size : ByMass(cs)[n] = cs[i]
        /\ \A i \in 1 .. size : \E n \in DOMAIN ByMass(cs) : ByMass(cs)[n] = cs[i]
    BY <1>15, <1>17, ByMassLists
  <2>2. QED
    BY <1>14, <2>1, Zenon
<1>19. ASSUME NEW n \in Significant(all) PROVE \E i \in Rejected(t) : t[i].rule = all[n].rule
  <2>1. n \in DOMAIN all /\ all[n].significant
    BY DEF Significant
  <2>2. PICK i \in 1 .. size : all[n] = cs[i]
    BY <1>18, <2>1
  <2>3. i \in significant
    BY <1>16, <2>1, <2>2
  <2>4. ClearsStrictly(final[i].q, Alpha)
    BY <1>13, <2>3
  <2>5. PICK j \in DOMAIN t : final[i] = t[j]
    BY <1>9
  <2>6. j \in Rejected(t)
    BY <1>1, <2>4, <2>5 DEF CorrectedAre
  <2>7. t[j].rule = all[n].rule
    BY <1>16, <2>2, <2>5
  <2>8. QED
    BY <2>6, <2>7
<1>20. ASSUME NEW i \in DOMAIN chosen, ClearsStrictly(chosen[i].q, Alpha)
       PROVE  \E n \in DOMAIN all : all[n].rule = chosen[i].rule
  <2>1. PICK k \in 1 .. size : final[k] = chosen[i]
    BY <1>7, <1>8, <1>20
  <2>2. PICK n \in DOMAIN all : all[n] = cs[k]
    BY <1>18
  <2>3. QED
    BY <1>16, <2>1, <2>2
<1>21. Reported(t, chosen, all)
  BY <1>19, <1>20, Zenon DEF Reported
<1>22. QED
  BY <1>1, <1>14, <1>21

\* Nothing is corrected or reported when the script starts.
LEMMA FamilyInvInit == MineInit => FamilyInv
BY DEF MineInit, FamilyInv

\* Every step keeps the invariant: what is reported rests until the script starts again.
LEMMA FamilyInvNext == SearchInv /\ FamilyInv /\ [MineNext]_mineVars => FamilyInv'
<1> SUFFICES ASSUME SearchInv, FamilyInv, [MineNext]_mineVars PROVE FamilyInv'
  OBVIOUS
<1> DEFINE Reporting == {"tell", "write", "delete_job", "insert_job", "insert_classes"}
<1>1. ASSUME pc' \notin {"prune", "describe"}, pc' \notin Reporting PROVE FamilyInv'
  BY <1>1 DEF FamilyInv
<1>2. ASSUME pc \in Reporting, pc' \in Reporting, UNCHANGED judged PROVE FamilyInv'
  BY <1>2 DEF FamilyInv, judged
<1>3. CASE Refuse
  <2>1. pc' = "failed"
    BY <1>3, Zenon DEF Refuse, Stop
  <2>2. QED
    BY <1>1, <2>1
<1>4. CASE Vocabulate
  <2>1. pc' \in {"search", "failed"}
    BY <1>4, Zenon DEF Vocabulate, Stop
  <2>2. QED
    BY <1>1, <2>1
<1>5. CASE Deepen
  <2>1. pc' = "search"
    BY <1>5, Zenon DEF Deepen
  <2>2. QED
    BY <1>1, <2>1
<1>6. CASE Confirm
  <2>1. pc' \in {"correct", "failed"}
    BY <1>6, Zenon DEF Confirm, Stop
  <2>2. QED
    BY <1>1, <2>1
<1>7. CASE Correct
  <2>1. pc = "correct" /\ pc' = "prune"
    BY <1>7, Zenon DEF Correct
  <2>2. RowsScored
    BY <2>1 DEF SearchInv
  <2>3. PICK t, on, q : t = rows /\ on = Confirmation /\ q = QValues(PsOf(t), Unit)
    OBVIOUS
  <2>4. rows' = [i \in DOMAIN t |-> [t[i] EXCEPT !.q = q[i]]]
    <3>1. rows' = [i \in DOMAIN rows |->
                     [rows[i] EXCEPT !.q = QValues([j \in DOMAIN rows |-> rows[j].p], Unit)[i]]]
      BY <1>7, Zenon DEF Correct
    <3>2. QED
      BY <2>3, <3>1 DEF PsOf
  <2>5. PICK u : u = rows'
    OBVIOUS
  <2>6. TableTested(t, on)
    BY <2>2, <2>3 DEF RowsScored
  <2>7. CorrectedAre(u)
    BY <2>3, <2>4, <2>5, <2>6, CorrectionRejects
  <2>8. QED
    BY <2>1, <2>5, <2>7 DEF FamilyInv
<1>8. CASE Prune
  <2>1. pc = "prune" /\ pc' = "describe" /\ UNCHANGED rows
    BY <1>8, Zenon DEF Prune
  <2>2. QED
    BY <2>1 DEF FamilyInv
<1>9. CASE Describe
  <2>1. pc = "describe" /\ pc' \in {"tell", "write"} /\ UNCHANGED <<rows, kept>>
    BY <1>9, Zenon DEF Describe
  <2>2. /\ args.features \in Features /\ RowsScored
        /\ kept = Representatives(AtMostFirst(Ranking(rows), MaxPruneCandidates))
    BY <2>1 DEF SearchInv
  <2>3. Reported(rows, kept, result'.all)
    BY <1>9, <2>1, <2>2, DescribeReports DEF FamilyInv
  <2>4. QED
    BY <2>1, <2>3 DEF FamilyInv
<1>10. CASE Tell
  <2>1. pc = "tell" /\ pc' \in {"write", "done"} /\ UNCHANGED judged
    BY <1>10, Zenon DEF Tell
  <2>2. QED
    BY <1>1, <1>2, <2>1
<1>11. CASE DeleteClasses
  BY <1>2, <1>11 DEF DeleteClasses
<1>12. CASE DeleteJob
  BY <1>2, <1>12 DEF DeleteJob
<1>13. CASE InsertJob
  BY <1>2, <1>13 DEF InsertJob
<1>14. CASE InsertClass
  BY <1>2, <1>14 DEF InsertClass
<1>15. CASE Inserted
  <2>1. pc = "insert_classes" /\ pc' \in {"done", "tell"} /\ UNCHANGED judged
    BY <1>15, Zenon DEF Inserted
  <2>2. QED
    BY <1>1, <1>2, <2>1
<1>16. CASE MineRestart
  <2>1. pc' = "validate"
    BY <1>16, Zenon DEF MineRestart, StartedAgain
  <2>2. QED
    BY <1>1, <2>1
<1>17. CASE UNCHANGED mineVars
  <2>1. UNCHANGED <<pc, judged>>
    BY <1>17 DEF mineVars
  <2>2. QED
    BY <2>1 DEF FamilyInv, judged
<1>18. QED
  BY <1>3, <1>4, <1>5, <1>6, <1>7, <1>8, <1>9, <1>10, <1>11, <1>12, <1>13, <1>14, <1>15, <1>16, <1>17
     DEF MineNext

\* What is called significant is rejected by the step-up procedure over the whole family of
\* tested rules, and no rule that was kept and clears it is lost to the cap on the classes.
THEOREM MinerSurvivorsAreTheFamilys == MineSpec => []SurvivorsAreTheFamilys
<1>1. FamilyInv => SurvivorsAreTheFamilys
  BY Zenon DEF FamilyInv, SurvivorsAreTheFamilys, Reported, Rejected, PsOf
<1>2. MineInit => SearchInv /\ FamilyInv
  BY SearchInvInit, FamilyInvInit
<1>3. SearchInv /\ FamilyInv /\ [MineNext]_mineVars => (SearchInv /\ FamilyInv)'
  BY SearchInvNext, FamilyInvNext
<1>4. QED
  BY <1>1, <1>2, <1>3, PTL DEF MineSpec

=============================================================================
