----------------------------- MODULE StepBuilder -----------------------------
(***************************************************************************)
(* New and operator.AppendStep of src/operator.go: once the operator's   *)
(* root is generated, the runner names checked for duplicates and the     *)
(* runner errors collected, each raw step                                  *)
(* map is turned into a step.  AppendStep takes out the sections if,      *)
(* desc, loop, retry, test, dump and bind (an ill-typed one is a build    *)
(* error), then pop takes one remaining key, in Go map order, as the      *)
(* dispatch key: include, exec or the name of an http, db or grpc runner. *)
(*                                                                         *)
(* A raw step is a function from its keys to the shape of their values:  *)
(* "ok" for a value of the type AppendStep expects, "bad" otherwise.      *)
(***************************************************************************)
EXTENDS Integers, Sequences, SequencesExt

CONSTANTS
  NumSteps,      \* len(bk.rawSteps)
  RawSteps,      \* possible raw step maps
  RunnerSets,    \* possible <<http, db, grpc>> runner name sets of a book
  None           \* the runnerKey of a step without dispatch

VARIABLES
  raw, runners, runnerErr,   \* inputs: bk.rawSteps, the runners, bk.runnerErrs # {}
  rootErr,                   \* input: generateOperatorRoot fails
  pc, i, steps,
  keys,                      \* the keys set of New's duplicate-name loops
  x,                         \* which runner map (1 http, 2 db, 3 grpc) is iterated
  todo                       \* names of that map the range has not reached yet

inputs == <<raw, runners, runnerErr, rootErr>>
names == <<keys, x, todo>>
vars == <<inputs, pc, i, steps, names>>

\* The sections AppendStep takes out of the step map, in its order.
Sections == <<"if", "desc", "loop", "retry", "test", "dump", "bind">>
Hooks == {"test", "dump", "bind"}

HttpRunners == runners[1]
DbRunners == runners[2]
GrpcRunners == runners[3]

\* Every section present has a value of the expected type (string if and
\* desc, a valid loop, bool or string test, string dump, map of strings bind).
SectionsValid(r) == \A s \in DOMAIN r \cap ToSet(Sections) : r[s] = "ok"

\* Mutant: the deprecated retry section is neither checked nor taken out.
DispatchesKeepRetry(r) == DOMAIN r \ (ToSet(Sections) \ {"retry"})

\* The keys left after the sections are deleted; pop picks one of them.
Dispatches(r) == DOMAIN r \ ToSet(Sections)

\* The runner a dispatch key selects: include and exec first, then the http,
\* db and grpc runners in that order (the detected flag).
Kind(k) ==
  CASE k = "include"      -> "include"
    [] k = "exec"         -> "exec"
    [] k \in HttpRunners  -> "http"
    [] k \in DbRunners    -> "db"
    [] k \in GrpcRunners  -> "grpc"
    [] OTHER              -> "unknown"

\* A step as built: its dispatch key and runner kind, and its post-hooks.
Built(r, k) ==
  [runnerKey |-> k,
   kind      |-> IF k = None THEN "none" ELSE Kind(k),
   hooks     |-> DOMAIN r \cap Hooks]

\* Mutant: the step is appended before the checks that may reject it.
RejectAfterAppend(r, k) ==
  /\ pc' = "failed"
  /\ steps' = Append(steps, Built(r, k))
  /\ UNCHANGED i

\* AppendStep returns an error, and New returns it.
Reject(r, k) ==
  /\ pc' = "failed"
  /\ UNCHANGED <<i, steps>>

\* o.steps = append(o.steps, step).
Accept(r, k) ==
  /\ steps' = Append(steps, Built(r, k))
  /\ i' = i + 1
  /\ UNCHANGED pc

-----------------------------------------------------------------------------

Init ==
  /\ raw \in [1..NumSteps -> RawSteps]
  /\ runners \in RunnerSets
  /\ runnerErr \in BOOLEAN
  /\ rootErr \in BOOLEAN
  /\ pc = "root"
  /\ i = 1
  /\ steps = <<>>
  /\ keys = {}
  /\ x = 1
  /\ todo = HttpRunners

\* o.id, then o.root = bk.generateOperatorRoot(), whose error New returns
\* before it looks at the runners.
GenerateRoot ==
  /\ pc = "root"
  /\ pc' = IF rootErr THEN "failed" ELSE "names"
  /\ UNCHANGED <<inputs, i, steps, names>>

\* Mutant: the db loop checks a name against keys but does not add it, so
\* a grpc runner may share a db runner's name.
CheckRunnerNameNoDbRecord ==
  /\ pc = "names"
  /\ \E n \in todo :
       IF x > 1 /\ n \in keys
         THEN pc' = "failed" /\ UNCHANGED <<keys, todo>>
         ELSE /\ keys' = IF x = 2 THEN keys ELSE keys \cup {n}
              /\ todo' = todo \ {n}
              /\ UNCHANGED pc
  /\ UNCHANGED <<inputs, i, steps, x>>

\* One iteration of a keys loop of New, over the names of a runner map in
\* Go map order: the http loop only adds the name to keys; the db and grpc
\* loops return "duplicate runner names" for a name already in keys.
CheckRunnerName ==
  /\ pc = "names"
  /\ \E n \in todo :
       IF x > 1 /\ n \in keys
         THEN pc' = "failed" /\ UNCHANGED <<keys, todo>>
         ELSE /\ keys' = keys \cup {n}
              /\ todo' = todo \ {n}
              /\ UNCHANGED pc
  /\ UNCHANGED <<inputs, i, steps, x>>

\* A keys loop is over: the next runner map, or on to the runner errors.
NextRunnerMap ==
  /\ pc = "names"
  /\ todo = {}
  /\ IF x < 3
       THEN x' = x + 1 /\ todo' = runners[x + 1] /\ UNCHANGED pc
       ELSE pc' = "errs" /\ UNCHANGED <<x, todo>>
  /\ UNCHANGED <<inputs, i, steps, keys>>

\* The runner errors of the book are returned together.
CheckRunnerErrs ==
  /\ pc = "errs"
  /\ pc' = IF runnerErr THEN "failed" ELSE "steps"
  /\ UNCHANGED <<inputs, i, steps, names>>

\* AppendStep(key, bk.rawSteps[i]).
AppendStep ==
  /\ pc = "steps"
  /\ i <= NumSteps
  /\ LET r == raw[i] IN
       \/ /\ ~SectionsValid(r)
          /\ Reject(r, None)
       \/ /\ SectionsValid(r)
          /\ Dispatches(r) = {}
          /\ Accept(r, None)
       \/ /\ SectionsValid(r)
          /\ \E k \in Dispatches(r) :
               IF Kind(k) # "unknown" /\ r[k] = "ok"
                 THEN Accept(r, k)
                 ELSE Reject(r, k)
  /\ UNCHANGED <<inputs, names>>

\* New returns the operator.
NewReturns ==
  /\ pc = "steps"
  /\ i > NumSteps
  /\ pc' = "done"
  /\ UNCHANGED <<inputs, i, steps, names>>

\* New has returned the operator or an error.
Returned ==
  /\ pc \in {"done", "failed"}
  /\ UNCHANGED vars

Next ==
  \/ GenerateRoot
  \/ CheckRunnerName
  \/ NextRunnerMap
  \/ CheckRunnerErrs
  \/ AppendStep
  \/ NewReturns
  \/ Returned

Spec == Init /\ [][Next]_vars

-----------------------------------------------------------------------------
(* Properties.                                                             *)

BuiltSteps ==
  [runnerKey: UNION {DOMAIN r : r \in RawSteps} \cup {None},
   kind: {"none", "include", "exec", "http", "db", "grpc", "unknown"},
   hooks: SUBSET Hooks]

TypeOK ==
  /\ pc \in {"root", "names", "errs", "steps", "done", "failed"}
  /\ i \in 1..(NumSteps + 1)
  /\ steps \in Seq(BuiltSteps)
  /\ Len(steps) = i - 1
  /\ keys \subseteq UNION {runners[y] : y \in 1..3}
  /\ x \in 1..3
  /\ todo \subseteq runners[x]

\* The reserved keys of a step map (spec, Step Builder).
SpecReserved == {"if", "desc", "loop", "retry", "test", "dump", "bind"}

\* A well-formed step map (spec, Step Builder): valid sections, and either
\* exactly one dispatch entry naming include, exec or a declared runner, or
\* none and at least one post-hook.
WellFormed(r) ==
  LET d == DOMAIN r \ SpecReserved
  IN  /\ SectionsValid(r)
      /\ \/ Cardinality(d) = 1 /\ \A k \in d : Kind(k) # "unknown" /\ r[k] = "ok"
         \/ d = {} /\ DOMAIN r \cap Hooks # {}

NamesDisjoint ==
  /\ HttpRunners \cap DbRunners = {}
  /\ HttpRunners \cap GrpcRunners = {}
  /\ DbRunners \cap GrpcRunners = {}

(* New gets past its duplicate-name loops only when no name is declared *)
(* for runners of two kinds (spec invariant 1; spec 8 scenario 5, the    *)
(* same key for an http and a grpc runner is a duplicate-key error),      *)
(* whatever order Go's range visits each runner map in: the one keys set *)
(* shared by the three loops must hold every http and db name by the     *)
(* time the db and grpc names are looked up in it.                        *)
DuplicateNamesRejected ==
  pc \in {"errs", "steps", "done"} => NamesDisjoint

(* New rejects a runbook only for a build error: with a root, disjoint    *)
(* runner names, no runner error and every step map well-formed, it returns the  *)
(* operator, whichever key of the map pop returns.                         *)
WellFormedRunbookBuilds ==
  pc = "failed" =>
    ~(NamesDisjoint /\ ~rootErr /\ ~runnerErr /\ \A j \in 1..NumSteps : WellFormed(raw[j]))

(* New accepts only well-formed step maps (spec, Step Builder: with more *)
(* than one dispatch entry, or none and no post-hook, "the step is        *)
(* ill-formed", a build error that prevents any step from running).       *)
AcceptsOnlyWellFormed ==
  pc = "done" => \A j \in 1..NumSteps : WellFormed(raw[j])

=============================================================================
