---------------------------- MODULE MCScreens ----------------------------
(* Small instances of Screens. *)
EXTENDS Screens, TLC

CONSTANTS a, b, c, git, other, pin1, pin2

\* Two logs of a skill of the disposition table and one of a skill outside it.
MCSkillOf == a :> git @@ b :> git @@ c :> other
MCPinOf == a :> pin1 @@ b :> pin2 @@ c :> None
MCTargets == <<git>>

AdmissibleEntry(l) == [log |-> l, ruling |-> "admissible", d4 |-> "absent"]

\* A first manifest, one that is refused whole, and the grown one of a later version.
MCManifests == {<<AdmissibleEntry(a)>>,
                <<AdmissibleEntry(a), [log |-> b, ruling |-> "admissible", d4 |-> "half"]>>,
                <<AdmissibleEntry(a), [log |-> c, ruling |-> "admissible", d4 |-> "leak"],
                  AdmissibleEntry(b)>>}

\* The manifest of a version after the re-screen: its prompt was checked clean.
MCRescreened == {<<AdmissibleEntry(a), AdmissibleEntry(c),
                   [log |-> b, ruling |-> "admissible", d4 |-> "clean"]>>}

\* supersede_d4_screen_runs: "Supersede the four disposition-table screen runs
\* (#402)", of which log a is one and the re-screened log b is not.
RescreenStands == OnlyRowsVoidedOf({a})
=============================================================================
