-------------------------------- MODULE Load --------------------------------
(***************************************************************************)
(* Load of src/operator.go: build one operator per runbook found under    *)
(* the path (collecting the paths of their include steps), keep those     *)
(* whose path matches RUNN_RUN and, with skipIncluded, is not included by *)
(* a loaded runbook, visiting the map om in Go's arbitrary order; then    *)
(* sortOperators, partOperators (shard) and sampleOperators.              *)
(*                                                                         *)
(* A runbook is its path, a number: numeric order stands for the string   *)
(* order of paths.  om is keyed by bookPath, so no two operators share a  *)
(* path and sortOperators' tie-break on desc never applies.               *)
(***************************************************************************)
EXTENDS Integers, Sequences, SequencesExt, Relation, TLC

CONSTANTS
  AllBooks,      \* runbook files, loaded or only reachable through include
  IncludeSets,   \* possible sets of include paths of one runbook
  MatchSets,     \* possible sets of paths that the RUNN_RUN regexp matches
  ShardConfigs,  \* possible <<runShardN, runShardIndex>>
  SampleSizes    \* possible runSample values

VARIABLES
  loaded, includes, match, skipIncluded, shard, runSample, broken, \* inputs
  pc, toLoad, skipPaths, om, visited, ops, picks, rest,
  sorted, sharded   \* ghosts: the batch before sharding and before sampling

inputs == <<loaded, includes, match, skipIncluded, shard, runSample, broken>>
vars == <<inputs, pc, toLoad, skipPaths, om, visited, ops, picks, rest,
          sorted, sharded>>

-----------------------------------------------------------------------------
(* The helpers of Load.                                                    *)

\* sortOperators: sort.SliceStable by bookPath (then desc).
SortOperators(s) == SortSeq(s, LAMBDA a, b : a < b)

\* Mutant: the shard test divides by the number of operators, not by n.
PartOperatorsModLen(s, n, i) ==
  LET RECURSIVE Part(_, _)
      Part(ii, part) ==
        IF ii = Len(s) THEN part
        ELSE Part(ii + 1, IF ii % Len(s) = i THEN Append(part, s[ii + 1]) ELSE part)
  IN  Part(0, <<>>)

\* partOperators: the operators at the 0-based positions ii with
\* math.Mod(ii, n) = i, in order.
PartOperators(s, n, i) ==
  LET RECURSIVE Part(_, _)
      Part(ii, part) ==
        IF ii = Len(s) THEN part
        ELSE Part(ii + 1, IF ii % n = i THEN Append(part, s[ii + 1]) ELSE part)
  IN  Part(0, <<>>)

-----------------------------------------------------------------------------

Init ==
  /\ loaded \in SUBSET AllBooks \ {{}}
  /\ includes \in [AllBooks -> IncludeSets]
  /\ match \in MatchSets
  /\ skipIncluded \in BOOLEAN
  /\ shard \in ShardConfigs
  /\ runSample \in SampleSizes
  \* New fails on no runbook, or on the last one loaded.
  /\ broken \in {{}, {CHOOSE b \in loaded : \A c \in loaded : c <= b}}
  /\ pc = "new"
  /\ toLoad = loaded
  /\ skipPaths = {}
  /\ om = {}
  /\ visited = {}
  /\ ops = <<>>
  /\ picks = <<>>
  /\ rest = <<>>
  /\ sorted = <<>>
  /\ sharded = <<>>

\* One iteration of `for _, b := range books`: New, which may fail and then
\* fails Load; with skipIncluded the include paths of the operator's steps
\* are added to skipPaths; om[o.bookPath] = o.
NewBook ==
  /\ pc = "new"
  /\ toLoad # {}
  /\ LET b == Min(toLoad)
     IN  IF b \in broken
           THEN /\ pc' = "failed"
                /\ UNCHANGED <<toLoad, skipPaths, om>>
           ELSE /\ toLoad' = toLoad \ {b}
                /\ skipPaths' = IF skipIncluded THEN skipPaths \cup includes[b]
                                                ELSE skipPaths
                /\ om' = om \cup {b}
                /\ UNCHANGED pc
  /\ UNCHANGED <<inputs, visited, ops, picks, rest, sorted, sharded>>

NewDone ==
  /\ pc = "new"
  /\ toLoad = {}
  /\ pc' = "filter"
  /\ UNCHANGED <<inputs, toLoad, skipPaths, om, visited, ops, picks, rest,
                 sorted, sharded>>

\* Mutant: the skipPaths test is dropped.
FilterBookNoSkip ==
  /\ pc = "filter"
  /\ \E p \in om \ visited :
       /\ visited' = visited \cup {p}
       /\ ops' = IF p \in match THEN Append(ops, p) ELSE ops
  /\ UNCHANGED <<inputs, pc, toLoad, skipPaths, om, picks, rest, sorted, sharded>>

\* One iteration of `for p, o := range om`, in any order: skip p when it
\* does not match RUNN_RUN or is in skipPaths, else append it.
FilterBook ==
  /\ pc = "filter"
  /\ \E p \in om \ visited :
       /\ visited' = visited \cup {p}
       /\ ops' = IF p \in match /\ p \notin skipPaths THEN Append(ops, p) ELSE ops
  /\ UNCHANGED <<inputs, pc, toLoad, skipPaths, om, picks, rest, sorted, sharded>>

\* After the loop: sortOperators, then partOperators when runShardN > 0.
SortAndShard ==
  /\ pc = "filter"
  /\ visited = om
  /\ LET s == SortOperators(ops)
         p == IF shard[1] > 0 THEN PartOperators(s, shard[1], shard[2]) ELSE s
     IN  /\ sorted' = s
         /\ sharded' = p
         /\ ops' = p
  /\ pc' = "sample"
  /\ UNCHANGED <<inputs, toLoad, skipPaths, om, visited, picks, rest>>

\* sampleOperators with runSample > 0: a batch no longer than the sample
\* is returned as it is; otherwise the copy n is drawn from.
SampleStart ==
  /\ pc = "sample"
  /\ IF runSample > 0 /\ Len(ops) > runSample
       THEN /\ pc' = "pick"
            /\ rest' = ops
       ELSE /\ pc' = "done"
            /\ UNCHANGED rest
  /\ UNCHANGED <<inputs, toLoad, skipPaths, om, visited, ops, picks, sorted, sharded>>

\* Mutant: the loop runs for i <= num.
SamplePickOffByOne ==
  /\ pc = "pick"
  /\ \E idx \in 1..Len(rest) :
       /\ picks' = Append(picks, rest[idx])
       /\ rest' = RemoveAt(rest, idx)
  /\ IF Len(picks) = runSample
       THEN /\ pc' = "done"
            /\ ops' = picks'
       ELSE UNCHANGED <<pc, ops>>
  /\ UNCHANGED <<inputs, toLoad, skipPaths, om, visited, sorted, sharded>>

\* Mutant: the drawn operator is left in n.
SamplePickNoRemove ==
  /\ pc = "pick"
  /\ \E idx \in 1..Len(rest) :
       /\ picks' = Append(picks, rest[idx])
       /\ UNCHANGED rest
  /\ IF Len(picks) + 1 = runSample
       THEN /\ pc' = "done"
            /\ ops' = picks'
       ELSE UNCHANGED <<pc, ops>>
  /\ UNCHANGED <<inputs, toLoad, skipPaths, om, visited, sorted, sharded>>

\* One iteration of the sampling loop: idx := rand.Intn(len(n)), append
\* n[idx] to the sample and remove it from n; the last one returns it.
SamplePick ==
  /\ pc = "pick"
  /\ \E idx \in 1..Len(rest) :
       /\ picks' = Append(picks, rest[idx])
       /\ rest' = RemoveAt(rest, idx)
  /\ IF Len(picks) + 1 = runSample
       THEN /\ pc' = "done"
            /\ ops' = picks'
       ELSE UNCHANGED <<pc, ops>>
  /\ UNCHANGED <<inputs, toLoad, skipPaths, om, visited, sorted, sharded>>

\* Load has returned the batch or an error.
Returned ==
  /\ pc \in {"done", "failed"}
  /\ UNCHANGED vars

Next ==
  \/ NewBook
  \/ NewDone
  \/ FilterBook
  \/ SortAndShard
  \/ SampleStart
  \/ SamplePick
  \/ Returned

Spec == Init /\ [][Next]_vars

-----------------------------------------------------------------------------
(* Properties.                                                             *)

TypeOK ==
  /\ pc \in {"new", "filter", "sample", "pick", "done", "failed"}
  /\ toLoad \subseteq loaded /\ om \subseteq loaded /\ visited \subseteq om
  /\ skipPaths \subseteq AllBooks
  /\ Len(picks) \in 0..runSample
  /\ \A s \in {ops, picks, rest, sorted, sharded} : s \in Seq(loaded)

\* The operators Load selects, per the code: the loaded runbooks that match
\* RUNN_RUN and, with skipIncluded, are not included by a loaded runbook.
Selected ==
  {p \in loaded : p \in match /\ ~(skipIncluded /\ p \in UNION {includes[b] : b \in loaded})}

\* Reference: the one ordering of a set of paths that is ascending.
Ascending(S) == CHOOSE s \in SetToSeqs(S) : IsSorted(s, <)

\* Reference: the elements of s at the 1-based positions p with (p-1) mod n = i.
Stripe(s, n, i) ==
  LET pos == Ascending({p \in DOMAIN s : (p - 1) % n = i})
  IN  [q \in DOMAIN pos |-> s[pos[q]]]

(* Without sampling, the batch Load returns does not depend on the order  *)
(* in which Go iterates the map om: it is the selected runbooks in path   *)
(* order, cut to the requested shard.                                      *)
LoadMatchesReference ==
  pc = "done" /\ runSample = 0 =>
    ops = IF shard[1] > 0 THEN Stripe(Ascending(Selected), shard[1], shard[2])
                          ELSE Ascending(Selected)

(* Running the batch once per shard index 0..runShardN-1 runs every        *)
(* selected operator in exactly one shard (partOperators partitions it).  *)
ShardsCoverBatch ==
  pc = "done" /\ shard[1] > 0 =>
    \A o \in ToSet(sorted) :
      Cardinality({j \in 0..(shard[1] - 1) : o \in ToSet(PartOperators(sorted, shard[1], j))}) = 1

(* sampleOperators draws runSample distinct operators of the batch, or    *)
(* returns the batch when it is not longer than runSample.                 *)
SampleDrawsDistinct ==
  pc = "done" /\ runSample > 0 =>
    /\ Len(ops) = IF Len(sharded) <= runSample THEN Len(sharded) ELSE runSample
    /\ ToSet(ops) \subseteq ToSet(sharded)
    /\ Cardinality(ToSet(ops)) = Len(ops)

(* The batch runs in (bookPath, desc) order (spec, "Batch operator order  *)
(* is sorted"), sampled or not.                                             *)
BatchOrderSorted ==
  pc = "done" => IsSorted(ops, LAMBDA a, b : a < b)

\* includes as a relation: a runbook's include steps name the other.
IncludeRel == [e \in AllBooks \X AllBooks |-> e[2] \in includes[e[1]]]

\* Runbooks reachable from a loaded runbook through one or more includes.
IncludedTransitively ==
  LET C == TransitiveClosure(IncludeRel, AllBooks)
  IN  {c \in AllBooks : \E a \in loaded : C[a, c]}

\* No runbook includes itself, directly or not (a cycle is an error).
Acyclic ==
  LET C == TransitiveClosure(IncludeRel, AllBooks)
  IN  \A b \in AllBooks : ~C[b, b]

(* With skipIncluded and no include cycle, no runbook reachable through   *)
(* include steps of the loaded runbooks is run on its own (spec, Load     *)
(* step 3: "the transitive set of paths reachable through include").      *)
SkipIncludedTransitive ==
  pc = "done" /\ skipIncluded /\ Acyclic => ToSet(ops) \cap IncludedTransitively = {}

=============================================================================
