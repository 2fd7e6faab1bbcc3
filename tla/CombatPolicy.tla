---------------------------- MODULE CombatPolicy ----------------------------
(***************************************************************************)
(* What the combat policy (brain/combat.py) does with one observed frame.  *)
(*                                                                         *)
(* A frame is the combat HUD of one capture together with the bearing of   *)
(* the selected unit: who is selected, how it fares, whether the player is *)
(* in combat and fit, and what the frame offers (sees).                    *)
(***************************************************************************)
EXTENDS Integers

CONSTANTS
  Units,     \* the identities a frame can show
  NoUnit     \* nothing is selected

ASSUME UnitsAssumption == NoUnit \notin Units

\* Health in a small instance of at most Full points. A unit without any may not
\* be marked as dead yet.
Full == 2
Hurt == 1
Drained == 0
Dead == -1

\* What a frame can offer for a selected unit: no bearing of this frame; the
\* marker lost; the marker off centre; or the marker in the centre and then the
\* unit out of range, an ability ready, or nothing to do but wait.
Steering == {"unbound", "lost", "aside", "out"}
Abilities == {"attack", "builder", "finisher", "lethal"}
Waiting == {"orbit", "wait"}

\* What it can offer without one: nothing in view, a candidate near the edge,
\* one at a point that may be clicked, one in the centre without such a point,
\* or a marker without any candidate.
Candidates == {"nothing", "edge", "point", "centred", "marker"}

Kinds == {"hostile", "neutral", "risky", "unfit", "player", "none"}
Players == {"well", "critical", "dead"}

FramesOf(units, healths, kinds, combats, players, sights) ==
  [unit : units, health : healths, kind : kinds, combat : combats, player : players,
   sees : sights]

\* The frames that differ for the code: a unit that is refused at sight is in plain
\* view, and one seen by a player who may not fight has no bearing. A live player
\* fares like any unfit unit; the strafe of an orbit is offered in combat only. A
\* neutral unit differs from a hostile one when it replaces another, whatever it
\* offers, and when it may be replaced because it cannot be reached.
FightFrames ==
  FramesOf(Units, {Full, Hurt}, {"hostile"}, BOOLEAN, {"well"},
           Steering \cup Abilities \cup {"wait"})
  \cup FramesOf(Units, {Full, Hurt}, {"hostile"}, {TRUE}, {"well"}, {"orbit"})
  \cup FramesOf(Units, {Full, Hurt}, {"neutral"}, BOOLEAN, {"well"}, {"lost", "out"})

OtherFrames ==
  FramesOf(Units, {Full}, {"risky", "unfit"}, BOOLEAN, {"well"}, {"wait"})
  \cup FramesOf(Units, {Full}, {"hostile"}, BOOLEAN, {"critical", "dead"}, {"unbound"})
  \cup FramesOf(Units, {Drained}, {"hostile"}, BOOLEAN, {"well"}, {"wait"})

CorpseFrames ==
  FramesOf(Units, {Dead}, {"hostile", "unfit", "player"}, BOOLEAN, {"well"}, {"unbound"})
  \cup FramesOf(Units, {Dead}, {"hostile"}, BOOLEAN, {"dead"}, {"unbound"})

\* Without a unit a player who may not fight fares like one in combat, but for what
\* the policy itself says of it.
EmptyFrames ==
  FramesOf({NoUnit}, {Dead}, {"none"}, BOOLEAN, {"well"}, Candidates)
  \cup FramesOf({NoUnit}, {Dead}, {"none"}, BOOLEAN, {"critical", "dead"}, {"nothing", "centred"})

Frames == FightFrames \cup OtherFrames \cup CorpseFrames \cup EmptyFrames

Empty(f) == f.unit = NoUnit
Live(f) == f.unit # NoUnit /\ f.health # Dead
Corpse(f) == f.unit # NoUnit /\ f.health = Dead
Alive(f) == f.player # "dead"
Fit(f) == f.kind \in {"hostile", "neutral"}
Visible(f) == f.unit # NoUnit /\ f.sees \notin {"unbound", "lost"}

\* RogueLevelOneCombatPolicy.decide, branch after branch. With motion_managed
\* the motion engine turns, searches and approaches, and the policy holds.
Decide(f, managed) ==
  CASE f.player = "dead" -> "stop"
    [] f.player = "critical" -> "retreat"
    [] Empty(f) -> "acquire"
    [] f.kind \in {"unfit", "player"} -> "stop"
    [] Corpse(f) \/ f.health = Drained -> "defeated"
    [] f.kind = "risky" -> "reject"
    [] f.sees = "unbound" -> "hold"
    [] f.sees \in {"lost", "aside", "out", "orbit"} /\ managed -> "hold"
    [] f.sees = "lost" -> "search"
    [] f.sees = "aside" -> "turn"
    [] f.sees = "out" -> "approach"
    [] f.sees = "wait" -> "hold"
    [] OTHER -> f.sees
=============================================================================
