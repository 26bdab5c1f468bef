--------------------------- MODULE MC_StepBuilder ---------------------------
EXTENDS StepBuilder

\* Step maps: well-formed ones with a runner, exec with the deprecated retry
\* section, a test-only step, and ill-formed or ill-typed ones: only an if,
\* two dispatch entries, an unknown runner next to a known one, a test that
\* is not a bool or string, an include whose config does not parse.
MC_RawSteps ==
  { "req" :> "ok",
    ("req" :> "ok") @@ ("test" :> "ok"),
    ("retry" :> "ok") @@ ("exec" :> "ok"),
    "test" :> "ok",
    "if" :> "ok",
    ("req" :> "ok") @@ ("exec" :> "ok"),
    ("db" :> "ok") @@ ("x" :> "ok"),
    ("db" :> "ok") @@ ("test" :> "bad"),
    "include" :> "bad" }

\* <<http, db, grpc>> runner names: disjoint, or sharing a name between
\* http and db, db and grpc (also with two db names), or http and grpc.
MC_RunnerSets ==
  { <<{"req"}, {"db"}, {}>>,
    <<{"req"}, {"req", "db"}, {}>>,
    <<{"req"}, {"db", "x"}, {"x", "g"}>>,
    <<{"req"}, {"db"}, {"db"}>>,
    <<{"req"}, {}, {"req"}>> }

=============================================================================
