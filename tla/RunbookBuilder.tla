---------------------------- MODULE RunbookBuilder ----------------------------
(***************************************************************************)
(* runbook.AppendStep of src/runbook.go: a curl command line becomes an   *)
(* HTTP step whose runner is found or allocated by setRunner from the     *)
(* request's DSN (scheme://host); other tokens become an exec step.       *)
(*                                                                         *)
(* A DSN is a record of its scheme and host; a runner key is the pair of  *)
(* its prefix and number, 0 standing for the bare prefix ("req") and n    *)
(* for the prefix followed by n ("req2").                                  *)
(***************************************************************************)
EXTENDS Integers, Sequences, SequencesExt

CONSTANTS
  DSNs,       \* DSNs curl requests may have
  MaxSteps    \* bound on the number of appended steps

VARIABLES
  runners,    \* rb.Runners: a sequence of <<key, dsn>>
  steps       \* rb.Steps: <<"http", key, dsn>> or <<"exec">>

vars == <<runners, steps>>

Prefix(dsn) ==
  CASE dsn.scheme \in {"http", "https"} -> "req"
    [] dsn.scheme = "grpc"              -> "greq"
    [] OTHER                            -> "db"

\* The runners counted by setRunner under the same prefix as dsn.
SamePrefix(dsn) == {r \in 1..Len(runners) : Prefix(runners[r][2]) = Prefix(dsn)}

\* Mutant: the count is used without adding one.
NewKeyNoIncrement(dsn) ==
  LET c == Cardinality(SamePrefix(dsn))
  IN  <<Prefix(dsn), IF c > 0 THEN c ELSE 0>>

\* Mutant: a number is only given from the third runner of a prefix on.
NewKeyOffByOne(dsn) ==
  LET c == Cardinality(SamePrefix(dsn))
  IN  <<Prefix(dsn), IF c > 1 THEN c + 1 ELSE 0>>

\* The key of a new runner: the bare prefix for the first, else the prefix
\* and the count of runners of that prefix plus one.
NewKey(dsn) ==
  LET c == Cardinality(SamePrefix(dsn))
  IN  <<Prefix(dsn), IF c > 0 THEN c + 1 ELSE 0>>

\* Mutant: the loop does not return the key of a runner with the same DSN.
KnownKeyNever(dsn) == {}

\* The keys of runners whose DSN is dsn (the early return of the loop).
KnownKey(dsn) == {runners[r][1] : r \in {r \in 1..Len(runners) : runners[r][2] = dsn}}

Init ==
  /\ runners = <<>>
  /\ steps = <<>>

\* curlToStep: setRunner returns the key of the DSN's runner, appending a
\* runner when there is none; then CreateHTTPStepMapSlice may fail, after
\* the runner was appended.  (A curl command curlreq cannot parse returns
\* before any change.)
AppendCurlStep ==
  /\ Len(steps) < MaxSteps
  /\ \E dsn \in DSNs, created \in BOOLEAN :
       LET known == KnownKey(dsn)
           key == IF known # {} THEN CHOOSE k \in known : TRUE ELSE NewKey(dsn)
       IN  /\ runners' = IF known # {} THEN runners ELSE Append(runners, <<key, dsn>>)
           /\ steps' = IF created THEN Append(steps, <<"http", key, dsn>>) ELSE steps

\* cmdToStep: an exec step with the joined command.
AppendCmdStep ==
  /\ Len(steps) < MaxSteps
  /\ steps' = Append(steps, <<"exec">>)
  /\ UNCHANGED runners

Next == AppendCurlStep \/ AppendCmdStep

Spec == Init /\ [][Next]_vars

-----------------------------------------------------------------------------
(* Properties.                                                             *)

\* Runner keys as the spec names them: req, req2, req3, ... ("req1" never).
Keys == {"req", "greq", "db"} \X ({0} \cup 2..MaxSteps)

TypeOK ==
  /\ runners \in Seq(Keys \X DSNs)
  /\ steps \in Seq({<<"exec">>} \cup ({"http"} \X Keys \X DSNs))
  /\ Len(steps) <= MaxSteps

(* setRunner never gives two runners the same key, however the DSNs of    *)
(* the curl commands repeat and interleave with exec steps.               *)
KeysUnique ==
  \A r1, r2 \in 1..Len(runners) : runners[r1][1] = runners[r2][1] => r1 = r2

(* Each DSN has one runner, and every HTTP step names the runner of its   *)
(* own request's DSN (spec: "allocate or reuse a runner key").            *)
RunnersMatchSteps ==
  /\ \A r1, r2 \in 1..Len(runners) : runners[r1][2] = runners[r2][2] => r1 = r2
  /\ \A s \in ToSet(steps) :
       s[1] = "http" => \E r \in 1..Len(runners) : runners[r] = <<s[2], s[3]>>

=============================================================================
