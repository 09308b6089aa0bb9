--------------------------- MODULE MCBuildPipeline ---------------------------
(***************************************************************************)
(* Two commands and two plugins, members of one workspace.  Of the first   *)
(* plugin there is a revision with a settings page, one without a page,    *)
(* for another BTCPay, and one that depends on a library BTCPay lacks.     *)
(***************************************************************************)
EXTENDS BuildPipeline, TLC

CONSTANTS first, second, here, there, shared, old, new, current, outdated

TwoCommands == (first :> {"build", "package --docker"}) @@ (second :> {"package", "package --docker"})
OneCli == (first :> current @@ second :> current)
Generators == (first :> outdated @@ second :> current)
OneWorkspace == (here :> shared @@ there :> shared)

Plain(p) ==
    [plugin |-> p, page |-> FALSE, strip |-> FALSE, needsMore |-> FALSE, toml |-> None,
     version |-> 1, rendersPlainly |-> TRUE]

FourRevisions ==
    <<[Plain(here) EXCEPT !.page = TRUE],
      [Plain(here) EXCEPT !.toml = new, !.version = 2],
      [Plain(here) EXCEPT !.needsMore = TRUE],
      [Plain(there) EXCEPT !.rendersPlainly = FALSE]>>

\* A plugin whose release profile strips the library, from one revision on.
StrippedRevisions ==
    <<Plain(here), [Plain(here) EXCEPT !.strip = TRUE], Plain(there)>>
=============================================================================
