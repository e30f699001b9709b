----------------------------- MODULE MCUpgrade -----------------------------
(***************************************************************************)
(* Instances of Upgrade for TLC: the component graphs of the bundled apps, *)
(* reduced to the parts that behave differently, and small flag histories. *)
(***************************************************************************)
EXTENDS Upgrade, TLC

NoBundle   == << >>
MeetBundle == "egress" :> "livekit"

Flag(v, cs, full, new) ==
  [version |-> v, components |-> cs, full |-> full, new |-> new]

NoBaseline     == [v \in Versions |-> 0]
RaisedBaseline == [v \in Versions |-> IF v = MaxVersion THEN MaxVersion - 1 ELSE 0]

\* messages: a flag of the provider relay mode skips, a new component, and a
\* flag of every unit.
MessagesFlags == {Flag(2, {"socks"}, FALSE, {}), Flag(2, {"core"}, FALSE, {"mpa"}),
                  Flag(2, {}, TRUE, {})}
\* drive: a core flag, then one of every unit.
DriveFlags == {Flag(2, {"core"}, FALSE, {}), Flag(3, {}, TRUE, {})}
\* meet: a flag of the bundled provider, livekit newly offered, then a livekit
\* flag that asks for the full questionnaire.
MeetFlags == {Flag(2, {"egress"}, FALSE, {}), Flag(2, {"core"}, FALSE, {"livekit"}),
              Flag(3, {"livekit"}, TRUE, {})}
============================================================================
