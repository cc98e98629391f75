---------------------------- MODULE MCPipeline ----------------------------
(* Instances of Pipeline.                                                  *)
EXTENDS Pipeline

CONSTANTS r1, r2

\* Calls with a fetched, a given local and no log, and with all a branch needs;
\* and one that nothing can be made of.
Arg(log, test, repo, mode, extra) ==
    [log |-> log, test |-> test, repo |-> repo, mode |-> mode, extra |-> extra]

Varied == { Arg("build", TRUE, TRUE, "none", "list"),
            Arg("local", TRUE, TRUE, "pr", "none"),
            Arg("remote", FALSE, FALSE, "suggest", "list"),
            Arg("none", TRUE, FALSE, "none", "bad"),
            Arg("local", FALSE, TRUE, "none", "bad") }

\* A call without a mode, the log of a build, an extra evidence file.
Plain == { Arg("build", TRUE, TRUE, "none", "list") }
=============================================================================
