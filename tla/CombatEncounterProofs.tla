----------------------- MODULE CombatEncounterProofs -----------------------
(***************************************************************************)
(* Proofs about CombatEncounter, for any units and any budgets.            *)
(***************************************************************************)
EXTENDS CombatEncounter, TLAPS

Offers == Steering \cup Abilities \cup Waiting

\* Every frame has a unit, a health, a player and a sight of the known ones.
LEMMA FrameFacts ==
  ASSUME NEW f \in Frames
  PROVE  /\ f.unit \in Selected /\ f.health \in Healths
         /\ f.sees \in IF Empty(f) THEN Candidates ELSE Offers
         /\ f.kind \in Kinds /\ f.player \in Players
         /\ f.combat \in BOOLEAN
<1>. NoUnit \notin Units
  BY UnitsAssumption
<1>. USE DEF FramesOf, Selected, Healths, Offers, Empty, Kinds, Players, Steering, Abilities,
             Waiting, Candidates
<1>1. CASE f \in FightFrames
  BY <1>1 DEF FightFrames
<1>2. CASE f \in OtherFrames
  BY <1>2 DEF OtherFrames
<1>3. CASE f \in CorpseFrames
  BY <1>3 DEF CorpseFrames
<1>4. CASE f \in EmptyFrames
  BY <1>4 DEF EmptyFrames
<1>. QED  BY <1>1, <1>2, <1>3, <1>4 DEF Frames

\* The decisions there are, and when the loop advances or calls a unit defeated.
Decisions ==
  Attacks \cup Selects \cup {"hold", "settle", "stop", "defeated"}
    \cup {"approach", "search", "turn", "orbit", "face", "scan", "retreat"}

LEMMA DecisionFacts ==
  ASSUME NEW f \in Frames
  PROVE  /\ Decision(f) \in Decisions
         /\ Decision(f) = "advance" => mem.target = NoUnit
         /\ Decision(f) = "defeated" => Corpse(f) \/ f.health = Drained
         /\ Decision(f) = "settle" => CanSettle(Tracked(f))
<1>1. Empty(f) \/ f.sees \in Offers
  BY FrameFacts
<1>2. /\ Decide(f, opt.motion) \in Decisions \cup {"reject"}
      /\ Decide(f, opt.motion) \notin {"advance", "settle"}
      /\ Decide(f, opt.motion) = "defeated" => Corpse(f) \/ f.health = Drained
  <2>1. Decide(f, opt.motion) \in {"stop", "retreat", "acquire", "defeated", "reject", "hold", "search",
                                  "turn", "approach"}
        \/ (f.sees \in Abilities \cup {"orbit"} /\ Decide(f, opt.motion) = f.sees)
    BY <1>1 DEF Decide, Offers, Steering, Abilities, Waiting
  <2>2. Decide(f, opt.motion) = "defeated" => Corpse(f) \/ f.health = Drained
    BY <1>1 DEF Decide, Offers, Steering, Abilities, Waiting
  <2>. QED  BY <2>1, <2>2 DEF Decisions, Abilities, Attacks, Blows, Selects
<1>3. /\ Proposal(f) \in Decisions \cup {"reject"}
      /\ Proposal(f) # "settle"
      /\ Proposal(f) = "advance" => mem.target = NoUnit
      /\ Proposal(f) = "defeated" => Corpse(f) \/ f.health = Drained
  BY <1>2 DEF Proposal, Seek, Decisions, Attacks, Blows, Selects
<1>. QED  BY <1>3 DEF Decision, Another, SettleOrStop, Decisions, Attacks, Blows, Selects

-----------------------------------------------------------------------------
(* Type correctness.                                                       *)

LEMMA Budgets ==
  /\ ChangeBudget \in Nat /\ LossBudget \in Nat /\ DamageBudget \in Nat /\ ClearBudget \in Nat
  /\ SettleBudget \in Nat /\ MismatchBudget \in Nat /\ MaxCycles \in Nat
  /\ MaxActions \in Nat /\ MaxApproaches \in Nat /\ MaxTurns \in Nat /\ MaxFacings \in Nat
  /\ MaxLoots \in Nat
  /\ SeekBudget \in Nat \ {0} /\ ConfirmBudget \in Nat \ {0}
  BY EncounterAssumption DEF EncounterAssumption

LEMMA NothingTyped == NoMemory \in Memories /\ NoRequest \in Requests
<1>1. NoBlow \in [unit : Selected, kind : Blows \cup {"none"}, health : Healths,
                  seen : 0..(DamageBudget + ClearBudget)]
  BY Budgets DEF NoBlow, Selected, Healths
<1>. QED  BY <1>1, Budgets DEF NoMemory, Memories, NoRequest, Requests, Selected, Healths, Actions

\* What the loop's stages keep of the memory: the lock, and no open blow.
Keeps(m) ==
  m \in Memories /\ m.target = mem.target /\ m.pending = NoBlow /\ m.settle = mem.settle

LEMMA ChangedKeeps ==
  ASSUME TypeOK, NEW f \in Frames
  PROVE  Keeps(Changed(f))
<1>1. NoBlow \in [unit : Selected, kind : Blows \cup {"none"}, health : Healths,
                  seen : 0..(DamageBudget + ClearBudget)]
  BY Budgets DEF NoBlow, Selected, Healths
<1>2. f.unit \in Selected /\ 0 \in 0..ChangeBudget /\ mem \in Memories
  BY FrameFacts, Budgets DEF TypeOK
<1>. HIDE DEF NoBlow
<1>. QED  BY <1>1, <1>2 DEF Keeps, Changed, Memories

\* Updates of the fields that are not kept.
LEMMA UpdatesKeep ==
  ASSUME NEW m \in Memories, NEW unit \in Selected, NEW other \in Selected
  PROVE  /\ [m EXCEPT !.stranger = NoUnit, !.strikes = 0] \in Memories
         /\ [m EXCEPT !.observed = unit] \in Memories
         /\ [m EXCEPT !.visible = other, !.loss = 0] \in Memories
         /\ [m EXCEPT !.observed = unit, !.visible = NoUnit, !.loss = 0] \in Memories
         /\ \A b \in BOOLEAN : [m EXCEPT !.point = b] \in Memories
<1>1. 0 \in 0..MismatchBudget /\ 0 \in 0..LossBudget /\ NoUnit \in Selected
  BY Budgets DEF Selected
<1>2. [m EXCEPT !.stranger = NoUnit, !.strikes = 0] \in Memories
  BY <1>1 DEF Memories
<1>3. [m EXCEPT !.observed = unit] \in Memories
  BY DEF Memories
<1>4. [m EXCEPT !.visible = other, !.loss = 0] \in Memories
  BY <1>1 DEF Memories
<1>5. [m EXCEPT !.observed = unit, !.visible = NoUnit, !.loss = 0] \in Memories
  BY <1>1 DEF Memories
<1>6. \A b \in BOOLEAN : [m EXCEPT !.point = b] \in Memories
  BY DEF Memories
<1>. QED  BY <1>2, <1>3, <1>4, <1>5, <1>6

LEMMA CalmKeeps ==
  ASSUME TypeOK, NEW f \in Frames
  PROVE  Keeps(Calm(f))
<1>. DEFINE c == Changed(f)
            m == [c EXCEPT !.stranger = NoUnit, !.strikes = 0]
<1>1. Keeps(c)
  BY ChangedKeeps
<1>2. m \in Memories
  <2>1. c \in Memories /\ NoUnit \in Selected
    BY <1>1 DEF Keeps, Selected
  <2>. QED  BY <2>1, UpdatesKeep
<1>3. m.target = c.target /\ m.pending = c.pending /\ m.settle = c.settle
  BY <1>1 DEF Keeps, Memories
<1>. QED  BY <1>1, <1>2, <1>3 DEF Keeps, Calm

LEMMA BoundKeeps ==
  ASSUME TypeOK, NEW f \in Frames
  PROVE  Keeps(Bound(f))
<1>. DEFINE c == Calm(f)
            gone == [c EXCEPT !.visible = NoUnit, !.loss = 0]
            moved == [c EXCEPT !.observed = f.unit, !.visible = NoUnit, !.loss = 0]
            same == [c EXCEPT !.observed = f.unit]
<1>1. f.unit \in Selected /\ NoUnit \in Selected
  BY FrameFacts DEF Selected
<1>2. Keeps(c)
  BY CalmKeeps
<1>3. gone \in Memories /\ moved \in Memories /\ same \in Memories
  BY <1>1, <1>2, UpdatesKeep DEF Keeps
<1>4. gone.target = c.target /\ gone.pending = c.pending /\ gone.settle = c.settle
  BY <1>2 DEF Keeps, Memories
<1>5. moved.target = c.target /\ moved.pending = c.pending /\ moved.settle = c.settle
  BY <1>2 DEF Keeps, Memories
<1>6. same.target = c.target /\ same.pending = c.pending /\ same.settle = c.settle
  BY <1>2 DEF Keeps, Memories
<1>. QED  BY <1>2, <1>3, <1>4, <1>5, <1>6 DEF Keeps, Bound

LEMMA FollowedKeeps ==
  ASSUME TypeOK, NEW f \in Frames
  PROVE  Keeps(Followed(f)) /\ Followed(f).loss = Bound(f).loss
<1>. DEFINE c == Bound(f)
            m == [c EXCEPT !.progress = @ \/ f.health < mem.health, !.health = f.health]
<1>1. Keeps(c)
  BY BoundKeeps
<1>2. f.health \in Healths /\ (c.progress \/ f.health < mem.health) \in BOOLEAN
  BY FrameFacts
<1>3. m \in Memories
  BY <1>1, <1>2 DEF Keeps, Memories
<1>4. m.target = c.target /\ m.pending = c.pending /\ m.settle = c.settle /\ m.loss = c.loss
  BY <1>1 DEF Keeps, Memories
<1>. QED  BY <1>1, <1>3, <1>4 DEF Keeps, Followed

LEMMA TrackedKeeps ==
  ASSUME TypeOK, NEW f \in Frames
  PROVE  Keeps(Tracked(f))
<1>. DEFINE c == Followed(f)
            m == [c EXCEPT !.visible = f.unit, !.loss = 0]
<1>1. Keeps(c) /\ f.unit \in Selected
  BY FollowedKeeps, FrameFacts
<1>2. m \in Memories
  BY <1>1, UpdatesKeep DEF Keeps
<1>3. m.target = c.target /\ m.pending = c.pending /\ m.settle = c.settle
  BY <1>1 DEF Keeps, Memories
<1>. QED  BY <1>1, <1>2, <1>3 DEF Keeps, Tracked

LEMMA ConsideredKeeps ==
  ASSUME TypeOK, NEW f \in Frames
  PROVE  Keeps(Considered(f)) /\ Considered(f).settle = mem.settle
<1>. DEFINE c == Tracked(f)
            m == [c EXCEPT !.point = FALSE]
<1>1. Keeps(c)
  BY TrackedKeeps
<1>2. m \in Memories
  <2>1. c \in Memories /\ NoUnit \in Selected
    BY <1>1 DEF Keeps, Selected
  <2>. QED  BY <2>1, UpdatesKeep
<1>3. m.target = c.target /\ m.pending = c.pending /\ m.settle = c.settle
  BY <1>1 DEF Keeps, Memories
<1>. QED  BY <1>1, <1>2, <1>3 DEF Keeps, Considered

\* Type correctness in two parts: what the endings of a step set, and the rest.
LoopTyped ==
  /\ stage \in Waits \cup Through \cup {"bind", "closing", "closeGate", "over"}
  /\ mem \in Memories /\ request \in Requests
  /\ seen \in 0..(SeekBudget + ConfirmBudget)
  /\ outcome \in {"none", "defeated", "failed"} /\ subject \in Selected
  /\ witness \in Healths
  /\ waited \in 0..(MismatchBudget + 1)

RestTyped ==
  /\ opt \in Options /\ used \in Counters
  /\ bound \in Selected /\ closed \in BOOLEAN /\ cancelled \in BOOLEAN
  /\ motionHeld \in BOOLEAN /\ motionCancelled \in BOOLEAN
  /\ stop \in {"armed", "motion", "release", "done"} /\ keyDown \in BOOLEAN
  /\ stuck \in BOOLEAN /\ victims \subseteq Units

LEMMA TwoParts == (TypeOK <=> LoopTyped /\ RestTyped) /\ (TypeOK' <=> LoopTyped' /\ RestTyped')
  BY DEF TypeOK, LoopTyped, RestTyped

LEMMA Zeroes ==
  0 \in 0..(SeekBudget + ConfirmBudget) /\ 0 \in 0..(MismatchBudget + 1)
  BY Budgets

LEMMA FailTyped ==
  ASSUME TypeOK, Fail
  PROVE  LoopTyped'
  BY NothingTyped, Zeroes DEF TypeOK, Fail, LoopTyped

LEMMA WaitTyped ==
  ASSUME TypeOK, NEW m \in Memories, Wait(m)
  PROVE  LoopTyped'
  BY Zeroes DEF TypeOK, Wait, LoopTyped, result

LEMMA WaitForStrangerTyped ==
  ASSUME TypeOK, NEW m \in Memories, NEW unit, WaitForStranger(m, unit)
  PROVE  LoopTyped'
<1>1. waited' \in 0..(MismatchBudget + 1)
  BY Budgets DEF TypeOK, WaitForStranger
<1>. QED  BY <1>1 DEF TypeOK, WaitForStranger, LoopTyped, result

LEMMA RequestTyped ==
  ASSUME NEW action \in Actions, NEW f \in Frames, NEW corpse
  PROVE  Request(action, f, corpse) \in Requests
<1>1. GateAccepts(action, f, corpse) \in BOOLEAN
  BY DEF GateAccepts
<1>. QED  BY <1>1, FrameFacts DEF Request, Requests

LEMMA ActTyped ==
  ASSUME TypeOK, NEW m \in Memories, NEW r \in Requests, Act(m, r)
  PROVE  LoopTyped'
  BY Zeroes DEF TypeOK, Act, LoopTyped, result, Through

LEMMA DefeatTyped ==
  ASSUME TypeOK, NEW f \in Frames, NEW unit \in Selected, Defeat(f, unit)
  PROVE  LoopTyped'
<1>1. /\ Request("loot", f, unit) \in Requests
      /\ Request("select", f, unit) \in Requests
  BY RequestTyped DEF Actions, Recoveries
<1>. QED  BY <1>1, FrameFacts, NothingTyped, Zeroes DEF TypeOK, Defeat, LoopTyped

\* The loop body, question after question.
LEMMA BlowTyped ==
  ASSUME TypeOK, NEW f \in Frames, NEW spent, BlowGone(f) \/ BlowUnseen(f, spent)
  PROVE  LoopTyped'
<1>1. mem \in Memories /\ mem.pending.unit \in Selected /\ mem.pending.seen \in Nat
  BY Budgets DEF TypeOK, Memories
<1>2. [mem EXCEPT !.pending = NoBlow] \in Memories
  BY NothingTyped, <1>1 DEF NoMemory, Memories
<1>3. ASSUME mem.pending.seen < DamageBudget \/ mem.pending.seen < ClearBudget
      PROVE  [mem EXCEPT !.pending.seen = @ + 1] \in Memories
  <2>1. mem.pending.seen + 1 \in 0..(DamageBudget + ClearBudget)
    BY <1>1, <1>3, Budgets
  <2>. QED  BY <1>1, <2>1 DEF Memories
<1>4. CASE BlowGone(f)
  BY <1>1, <1>3, <1>4, DefeatTyped, WaitTyped, FailTyped DEF BlowGone, Blow
<1>5. CASE BlowUnseen(f, spent)
  BY <1>1, <1>2, <1>3, <1>5, WaitTyped, FailTyped DEF BlowUnseen, Blow
<1>. QED  BY <1>4, <1>5

LEMMA SettleTyped ==
  ASSUME NEW m \in Memories, CanSettle(m)
  PROVE  Settle(m) \in Memories
<1>1. m.settle + 1 \in 0..SettleBudget
  BY Budgets DEF Memories, CanSettle
<1>. QED  BY <1>1 DEF Settle, Memories

LEMMA SearchTyped ==
  ASSUME TypeOK, NEW f \in Frames,
         TargetGone(f) \/ ChangeMissing(f) \/ StrangeUnit(f)
           \/ RebindWaits(f) \/ RebindRefused(f) \/ BearingLost(f)
  PROVE  LoopTyped'
<1>. /\ mem \in Memories /\ mem.target \in Selected /\ f.unit \in Selected
  BY FrameFacts DEF TypeOK, Memories
<1>1. CASE TargetGone(f)
  BY <1>1, SettleTyped, DefeatTyped, WaitTyped, FailTyped DEF TargetGone
<1>2. CASE ChangeMissing(f)
  <2>1. CASE mem.changes < ChangeBudget
    <3>1. mem.changes + 1 \in 0..ChangeBudget
      BY <2>1, Budgets DEF Memories
    <3>2. [mem EXCEPT !.pending = NoBlow, !.changes = @ + 1] \in Memories
      BY <3>1, NothingTyped DEF NoMemory, Memories
    <3>. QED  BY <1>2, <2>1, <3>2, WaitTyped DEF ChangeMissing
  <2>. QED  BY <1>2, <2>1, FailTyped DEF ChangeMissing
<1>3. ASSUME NEW m \in Memories, Strike(m, f.unit).strikes <= MismatchBudget
      PROVE  Strike(m, f.unit) \in Memories
  <2>1. 1 \in Nat /\ m.strikes + 1 \in Nat /\ Strike(m, f.unit).strikes \in Nat
    BY Budgets DEF Memories, Strike
  <2>2. Strike(m, f.unit).strikes \in 0..MismatchBudget
    BY <1>3, <2>1, Budgets
  <2>. QED  BY <2>2 DEF Strike, Memories
<1>4. CASE StrangeUnit(f)
  BY <1>3, <1>4, ChangedKeeps, WaitForStrangerTyped, FailTyped DEF StrangeUnit, Keeps
<1>5. CASE RebindWaits(f)
  BY <1>3, <1>5, CalmKeeps, WaitForStrangerTyped DEF RebindWaits, Rebinding, Keeps
<1>6. CASE RebindRefused(f)
  BY <1>6, FailTyped DEF RebindRefused
<1>7. CASE BearingLost(f)
  <2>1. Followed(f) \in Memories /\ Followed(f).loss < LossBudget
    BY <1>7, FollowedKeeps DEF BearingLost, BriefLoss, Keeps
  <2>2. Followed(f).loss + 1 \in 0..LossBudget
    BY <2>1, Budgets DEF Memories
  <2>3. [Followed(f) EXCEPT !.loss = @ + 1] \in Memories
    BY <2>1, <2>2 DEF Memories
  <2>. QED  BY <1>7, <2>3, WaitTyped DEF BearingLost
<1>. QED  BY <1>1, <1>2, <1>4, <1>5, <1>6, <1>7

LEMMA DecidedTyped ==
  ASSUME TypeOK, NEW f \in Frames, Decided(f)
  PROVE  LoopTyped'
<1>1. /\ Considered(f) \in Memories /\ Considered(f).settle = mem.settle
      /\ Tracked(f) \in Memories /\ Tracked(f).settle = mem.settle
      /\ mem.target \in Selected /\ f.unit \in Selected
  BY ConsideredKeeps, TrackedKeeps, FrameFacts DEF Keeps, TypeOK, Memories
<1>2. \A b \in BOOLEAN : [Considered(f) EXCEPT !.point = b] \in Memories
  BY <1>1 DEF Memories
<1>. DEFINE d == Decision(f)
<1>3. CASE d = "settle" /\ Wait(Settle(Considered(f)))
  <2>1. Considered(f).settle + 1 \in 0..SettleBudget
    BY <1>1, <1>3, DecisionFacts, Budgets DEF CanSettle, Memories
  <2>2. Settle(Considered(f)) \in Memories
    BY <1>1, <2>1 DEF Settle, Memories
  <2>. QED  BY <1>3, <2>2, WaitTyped
<1>4. CASE DecideWaits(f, d)
  BY <1>1, <1>2, <1>3, <1>4, WaitTyped DEF DecideWaits
<1>5. CASE DecideStops(d)
  BY <1>5, FailTyped DEF DecideStops
<1>6. CASE DecideDefeated(f, d)
  BY <1>1, <1>6, DefeatTyped DEF DecideDefeated
<1>7. CASE DecideActs(f, d)
  <2>1. d \in Actions
    BY <1>7, DecisionFacts DEF DecideActs, Decisions, Actions
  <2>. QED  BY <1>2, <1>7, <2>1, RequestTyped, ActTyped DEF DecideActs
<1>. QED  BY <1>4, <1>5, <1>6, <1>7 DEF Decided

LEMMA LoopBodyTyped ==
  ASSUME TypeOK, LoopBody
  PROVE  TypeOK'
<1>1. PICK f \in Frames, spent \in BOOLEAN :
        /\ \/ BlowGone(f) \/ BlowUnseen(f, spent)
           \/ TargetGone(f) \/ ChangeMissing(f)
           \/ StrangeUnit(f) \/ RebindWaits(f) \/ RebindRefused(f)
           \/ Known(f) /\ (BearingLost(f) \/ Decided(f))
        /\ MotionFollows(f)
  BY DEF LoopBody
<1>2. LoopTyped'
  BY <1>1, BlowTyped, SearchTyped, DecidedTyped
<1>3. motionHeld' \in BOOLEAN
  BY <1>1 DEF MotionFollows, TypeOK
<1>. QED  BY <1>2, <1>3, TwoParts DEF LoopBody, TypeOK, RestTyped, gate

-----------------------------------------------------------------------------
(* How the loop body ends, for everything that follows.                    *)

\* It waits: the lock stays, and so does the open blow, or it is over.
LoopWaits ==
  /\ UNCHANGED <<stage, request, outcome, subject, witness>>
  /\ mem'.target = mem.target
  /\ mem'.pending = NoBlow \/ (mem.pending # NoBlow /\ mem'.pending.unit = mem.pending.unit)

\* It acts on a frame that does not show a living unit other than the locked one.
LoopActs(f) ==
  /\ Decision(f) \notin {"hold", "settle", "stop", "defeated"}
  /\ ~Strange(f)
  /\ \E m \in Memories :
       m.target = mem.target /\ m.pending = NoBlow /\ Act(m, Request(Decision(f), f, bound))

\* It calls the struck, the locked or, with neither, the selected unit defeated, on a
\* frame that shows another one or none, or this one dead or without health.
LoopDefeats(f, unit) ==
  /\ Defeat(f, unit)
  /\ \/ Blow # NoBlow /\ unit = Blow.unit /\ f.unit # Blow.unit
     \/ unit = mem.target /\ Empty(f)
     \/ /\ unit = (IF mem.target = NoUnit THEN f.unit ELSE mem.target)
        /\ Corpse(f) \/ f.health = Drained

LoopEndsWith(f) ==
  \/ LoopWaits \/ Fail \/ LoopActs(f)
  \/ \E unit \in Selected : LoopDefeats(f, unit)

LEMMA WaitWaits ==
  ASSUME NEW m, Wait(m) \/ (\E unit : WaitForStranger(m, unit)),
         m.target = mem.target,
         m.pending = NoBlow \/ (mem.pending # NoBlow /\ m.pending.unit = mem.pending.unit)
  PROVE  LoopWaits
  BY DEF Wait, WaitForStranger, LoopWaits, result

LEMMA LoopEnds ==
  ASSUME TypeOK, LoopBody
  PROVE  \E f \in Frames : LoopEndsWith(f) /\ MotionFollows(f)
<1>1. PICK f \in Frames, spent \in BOOLEAN :
        /\ \/ BlowGone(f) \/ BlowUnseen(f, spent)
           \/ TargetGone(f) \/ ChangeMissing(f)
           \/ StrangeUnit(f) \/ RebindWaits(f) \/ RebindRefused(f)
           \/ Known(f) /\ (BearingLost(f) \/ Decided(f))
        /\ MotionFollows(f)
  BY DEF LoopBody
<1>. SUFFICES LoopEndsWith(f)
  BY <1>1
<1>. /\ mem \in Memories /\ mem.target \in Selected /\ mem.pending.unit \in Selected
     /\ f.unit \in Selected
  BY FrameFacts DEF TypeOK, Memories
<1>2. \A m : m \in Memories /\ CanSettle(m)
               => Settle(m).target = m.target /\ Settle(m).pending = m.pending
  BY DEF Settle, Memories
<1>3. CASE BlowGone(f) \/ BlowUnseen(f, spent)
  <2>. DEFINE later == [mem EXCEPT !.pending.seen = @ + 1]
              past == [mem EXCEPT !.pending = NoBlow]
  <2>1. /\ later.target = mem.target /\ later.pending.unit = mem.pending.unit
        /\ past.target = mem.target /\ past.pending = NoBlow
    BY DEF Memories
  <2>. QED
    BY <1>3, <2>1, WaitWaits
       DEF BlowGone, BlowUnseen, Blow, LoopEndsWith, LoopDefeats
<1>4. CASE TargetGone(f)
  <2>1. mem.pending = NoBlow \/ mem.pending # NoBlow
    OBVIOUS
  <2>. QED
    BY <1>2, <1>4, <2>1, WaitWaits DEF TargetGone, Gone, LoopEndsWith, LoopDefeats
<1>5. CASE ChangeMissing(f)
  <2>. DEFINE m == [mem EXCEPT !.pending = NoBlow, !.changes = @ + 1]
  <2>1. m.target = mem.target /\ m.pending = NoBlow
    BY DEF Memories
  <2>. QED  BY <1>5, <2>1, WaitWaits DEF ChangeMissing, LoopEndsWith
<1>6. CASE StrangeUnit(f) \/ RebindWaits(f) \/ RebindRefused(f)
  <2>1. \A m : m \in Memories =>
          Strike(m, f.unit).target = m.target /\ Strike(m, f.unit).pending = m.pending
    BY DEF Strike, Memories
  <2>. QED
    BY <1>6, <2>1, ChangedKeeps, CalmKeeps, WaitWaits
       DEF StrangeUnit, RebindWaits, RebindRefused, Keeps, LoopEndsWith
<1>7. CASE BearingLost(f)
  <2>. DEFINE m == [Followed(f) EXCEPT !.loss = @ + 1]
  <2>1. m.target = mem.target /\ m.pending = NoBlow
    BY FollowedKeeps DEF Keeps, Memories
  <2>. QED  BY <1>7, <2>1, WaitWaits DEF BearingLost, LoopEndsWith
<1>8. CASE Known(f) /\ Decided(f)
  <2>. DEFINE d == Decision(f)
  <2>1. \A b \in BOOLEAN :
          /\ [Considered(f) EXCEPT !.point = b] \in Memories
          /\ [Considered(f) EXCEPT !.point = b].target = mem.target
          /\ [Considered(f) EXCEPT !.point = b].pending = NoBlow
    BY ConsideredKeeps DEF Keeps, Memories
  <2>2. CASE DecideWaits(f, d)
    <3>1. Considered(f).target = mem.target /\ Considered(f).pending = NoBlow
          /\ Settle(Considered(f)).target = mem.target
          /\ Settle(Considered(f)).pending = NoBlow
      BY ConsideredKeeps DEF Keeps, Settle, Memories
    <3>. QED  BY <2>1, <2>2, <3>1, WaitWaits DEF DecideWaits, LoopEndsWith
  <2>3. CASE DecideStops(d)
    BY <2>3 DEF DecideStops, LoopEndsWith
  <2>4. CASE DecideDefeated(f, d)
    BY <2>4, DecisionFacts DEF DecideDefeated, LoopEndsWith, LoopDefeats
  <2>5. CASE DecideActs(f, d)
    BY <1>8, <2>1, <2>5 DEF DecideActs, Decided, Known, LoopEndsWith, LoopActs
  <2>. QED  BY <1>8, <2>2, <2>3, <2>4, <2>5 DEF Decided
<1>. QED  BY <1>1, <1>3, <1>4, <1>5, <1>6, <1>7, <1>8

-----------------------------------------------------------------------------
(* What an accepted request guarantees until it is committed.              *)

\* The counters an action of this kind adds to are below their limits.
Room(action) ==
  /\ used.actions < MaxActions
  /\ action = "approach" => used.approaches < MaxApproaches
  /\ action \in {"scan", "search"} => used.turns < MaxTurns
  /\ action = "turn" => used.facings < MaxFacings
  /\ action = "loot" => used.loots < MaxLoots

\* The gate limits everything but a turn to the view's edge; the loop limits that.
Fits(r) ==
  /\ r.sound => Room(r.action) /\ (r.action \in Attacks => r.unit # NoUnit)
  /\ r.action = "face" => used.facings < MaxFacings

RequestInv ==
  /\ stage \in {"apply", "held", "commit"} => request.sound
  /\ Fits(request)

LEMMA GateFacts ==
  ASSUME NEW action \in Actions, NEW f, NEW corpse, GateAccepts(action, f, corpse)
  PROVE  /\ Room(action)
         /\ action \in Attacks => Live(f)
         /\ action \notin Recoveries \cup {"advance"} => Live(f) \/ Empty(f)
         /\ action = "loot" => f.unit = corpse
  BY DEF GateAccepts, Room, Actions, Attacks, Blows, Selects, Recoveries, Abilities, ExactCorpse

LEMMA RequestFits ==
  ASSUME NEW action \in Actions, NEW f, NEW corpse,
         action = "face" => used.facings < MaxFacings
  PROVE  Fits(Request(action, f, corpse))
  BY GateFacts DEF Request, Fits, Live

LEMMA FaceIsLimited ==
  ASSUME TypeOK, NEW f, Decision(f) = "face"
  PROVE  used.facings < MaxFacings
<1>1. used.facings \in Nat /\ MaxFacings \in Nat
  BY Budgets DEF TypeOK, Counters
<1>2. ~(used.facings >= MaxFacings)
  BY DEF Decision, Another, SettleOrStop
<1>. QED  BY <1>1, <1>2

LEMMA NothingFits == Fits(NoRequest)
  BY DEF Fits, NoRequest

LEMMA FailFits ==
  ASSUME Fail
  PROVE  RequestInv'
  BY NothingFits DEF Fail, RequestInv, Fits, NoRequest

\* An action is handed to the gate, or a kill to the recovery.
LEMMA ActFits ==
  ASSUME UNCHANGED used, NEW action \in Actions, NEW f, NEW corpse, NEW m,
         action = "face" => used.facings < MaxFacings,
         Act(m, Request(action, f, corpse))
  PROVE  RequestInv'
<1>1. Fits(Request(action, f, corpse))
  BY RequestFits
<1>. QED  BY <1>1 DEF Act, RequestInv, Fits, Room

LEMMA DefeatFits ==
  ASSUME UNCHANGED used, NEW f, NEW unit, Defeat(f, unit)
  PROVE  RequestInv'
<1>1. Fits(Request("loot", f, unit)) /\ Fits(Request("select", f, unit))
  BY RequestFits DEF Actions, Recoveries
<1>. QED  BY <1>1, NothingFits DEF Defeat, RequestInv, Fits, Room

LEMMA LoopFits ==
  ASSUME TypeOK, RequestInv, LoopBody
  PROVE  RequestInv'
<1>1. PICK f \in Frames : LoopEndsWith(f)
  BY LoopEnds
<1>. stage = "frame" /\ UNCHANGED used
  BY DEF LoopBody, gate
<1>2. CASE LoopWaits
  BY <1>2 DEF LoopWaits, RequestInv, Fits, Room
<1>3. CASE LoopActs(f)
  <2>1. Decision(f) \in Actions
    BY <1>3, DecisionFacts DEF LoopActs, Decisions, Actions
  <2>. QED  BY <1>3, <2>1, FaceIsLimited, ActFits DEF LoopActs
<1>4. CASE \E unit \in Selected : LoopDefeats(f, unit)
  BY <1>4, DefeatFits DEF LoopDefeats
<1>. QED  BY <1>1, <1>2, <1>3, <1>4, FailFits DEF LoopEndsWith

LEMMA CountedTyped ==
  ASSUME TypeOK, Fits(request), request.sound
  PROVE  Counted(request.action) \in Counters
<1>. USE Budgets
<1>1. /\ used \in Counters /\ used.actions + 1 \in 0..MaxActions
      /\ 0 \in 0..MaxApproaches /\ 0 \in 0..MaxTurns /\ 0 \in 0..MaxFacings
  BY DEF TypeOK, Counters, Fits, Room
<1>2. request.action = "approach" => used.approaches + 1 \in 0..MaxApproaches
  BY DEF TypeOK, Counters, Fits, Room
<1>3. request.action \in {"scan", "search"} => used.turns + 1 \in 0..MaxTurns
  BY DEF TypeOK, Counters, Fits, Room
<1>4. request.action \in {"turn", "face"} => used.facings + 1 \in 0..MaxFacings
  BY DEF TypeOK, Counters, Fits, Room
<1>5. request.action = "loot" => used.loots + 1 \in 0..MaxLoots
  BY DEF TypeOK, Counters, Fits, Room
<1>. HIDE Budgets
<1>. QED  BY <1>1, <1>2, <1>3, <1>4, <1>5 DEF Counted, Counters, Selects

LEMMA RememberedTyped ==
  ASSUME TypeOK
  PROVE  Remembered(request) \in Memories
<1>1. /\ mem \in Memories /\ mem.cycles + 1 \in Nat /\ NoUnit \in Selected
      /\ 0 \in 0..ChangeBudget /\ 0 \in 0..LossBudget /\ 0 \in 0..(DamageBudget + ClearBudget)
  BY Budgets DEF TypeOK, Memories, Selected
<1>2. request.unit \in Selected /\ request.health \in Healths
  BY DEF TypeOK, Requests
<1>. QED  BY <1>1, <1>2 DEF Remembered, Memories

-----------------------------------------------------------------------------
(* Type correctness of the specification.                                  *)

TypeInv == TypeOK /\ RequestInv

\* A step that fails and leaves the counters alone, whatever it does to the rest.
LEMMA FailKeepsType ==
  ASSUME TypeInv, Fail, UNCHANGED used, RestTyped'
  PROVE  TypeInv'
  BY FailTyped, FailFits, TwoParts DEF TypeInv

LEMMA GateKeepsType ==
  ASSUME TypeInv, Gate
  PROVE  TypeInv'
<1>. USE DEF TypeInv
<1>1. CASE Admit
  <2>1. TypeOK'
    BY <1>1 DEF Admit, OnlyGate, gate, motion, result, TypeOK, Through
  <2>2. RequestInv'
    BY <1>1 DEF Admit, gate, RequestInv, Fits, Room
  <2>. QED  BY <2>1, <2>2
<1>2. CASE Press
  <2>1. victims' \subseteq Units
    BY <1>2 DEF Press, TypeOK, RequestInv, Fits, Requests, Selected
  <2>2. TypeOK'
    BY <1>2, <2>1 DEF Press, OnlyGate, motion, result, TypeOK, Through
  <2>3. RequestInv'
    BY <1>2 DEF Press, RequestInv, Fits, Room
  <2>. QED  BY <2>2, <2>3
<1>3. CASE Lift
  <2>1. TypeOK'
    BY <1>3 DEF Lift, OnlyGate, motion, result, TypeOK, Through
  <2>2. RequestInv'
    BY <1>3 DEF Lift, RequestInv, Fits, Room
  <2>. QED  BY <2>1, <2>2
<1>4. CASE Refuse
  BY <1>4, FailKeepsType DEF Refuse, gate, motion, TypeOK, RestTyped
<1>5. CASE ApplyRaises
  BY <1>5, FailKeepsType DEF ApplyRaises, motion, TypeOK, RestTyped
<1>6. CASE ReleaseRaises
  BY <1>6, FailKeepsType DEF ReleaseRaises, motion, TypeOK, RestTyped
<1>7. CASE Spoil
  BY <1>7, FailKeepsType DEF Spoil, motion, TypeOK, RestTyped
<1>8. CASE Commit
  <2>1. Fits(request) /\ request.sound
    BY <1>8 DEF Commit, RequestInv
  <2>2. used' \in Counters /\ mem' \in Memories /\ request' = NoRequest
    BY <1>8, <2>1, CountedTyped, RememberedTyped DEF Commit
  <2>3. stage' \in {"frame", "restore", "confirm"}
    BY <1>8 DEF Commit
  <2>4. RequestInv'
    BY <2>2, <2>3, NothingFits DEF RequestInv, Fits, NoRequest
  <2>. QED
    BY <1>8, <2>2, <2>3, <2>4, NothingTyped DEF Commit, motion, result, TypeOK, Waits, Through
<1>. QED  BY <1>1, <1>2, <1>3, <1>4, <1>5, <1>6, <1>7, <1>8 DEF Gate

\* One more frame of a wait.
LEMMA OneMoreFrame ==
  ASSUME TypeOK, seen + 1 < SeekBudget \/ seen + 1 < ConfirmBudget
  PROVE  seen + 1 \in 0..(SeekBudget + ConfirmBudget)
  BY Budgets DEF TypeOK

LEMMA LootAgainKeepsType ==
  ASSUME TypeInv, OnlyRecovery, NEW f \in Frames,
         LootAgain(f) \/ Act(mem, Request("reselect", f, subject))
  PROVE  TypeInv'
<1>1. UNCHANGED used /\ RestTyped'
  BY DEF OnlyRecovery, gate, motion, TypeInv, TypeOK, RestTyped
<1>2. CASE Fail
  BY <1>1, <1>2, FailKeepsType
<1>3. ASSUME NEW action \in {"loot", "reselect"}, Act(mem, Request(action, f, subject))
      PROVE  TypeInv'
  <2>1. action \in Actions /\ action # "face"
    BY DEF Actions, Recoveries
  <2>2. LoopTyped'
    BY <1>3, <2>1, RequestTyped, ActTyped DEF TypeInv, TypeOK
  <2>. QED  BY <1>1, <1>3, <2>1, <2>2, ActFits, TwoParts DEF TypeInv
<1>. QED  BY <1>2, <1>3 DEF LootAgain

LEMMA RecoveryKeepsType ==
  ASSUME TypeInv, Recovery
  PROVE  TypeInv'
<1>1. CASE Bind
  <2>1. TypeOK'
    BY <1>1 DEF TypeInv, Bind, OnlyGate, motion, result, TypeOK, Waits, Through
  <2>2. RequestInv'
    BY <1>1 DEF TypeInv, Bind, OnlyGate, RequestInv, Fits, Room
  <2>. QED  BY <2>1, <2>2 DEF TypeInv
<1>2. CASE BindRefused
  BY <1>2, FailKeepsType DEF TypeInv, BindRefused, gate, motion, TypeOK, RestTyped
<1>3. ASSUME OnlyRecovery, UNCHANGED <<stage, mem, request, result, waited>>,
             seen' \in 0..(SeekBudget + ConfirmBudget)
      PROVE  TypeInv'
  BY <1>3 DEF TypeInv, OnlyRecovery, gate, motion, result, TypeOK, RequestInv, Fits, Room
<1>4. ASSUME OnlyRecovery, Fail
      PROVE  TypeInv'
  BY <1>4, FailKeepsType DEF OnlyRecovery, TypeInv, gate, motion, TypeOK, RestTyped
<1>5. CASE Restore
  <2>1. PICK f \in Frames :
          IF ExactCorpse(f, subject) THEN LootAgain(f)
          ELSE IF seen + 1 < SeekBudget
               THEN seen' = seen + 1 /\ UNCHANGED <<stage, mem, request, result, waited>>
               ELSE Fail
    BY <1>5 DEF Restore
  <2>. QED
    BY <1>3, <1>4, <1>5, <2>1, OneMoreFrame, LootAgainKeepsType DEF Restore, TypeInv
<1>6. CASE Confirm
  <2>1. CASE /\ stage' = "closing" /\ outcome' = "defeated" /\ seen' = 0
             /\ UNCHANGED <<mem, request, subject, witness, waited>>
    BY <1>6, <2>1, Zeroes
       DEF Confirm, OnlyRecovery, TypeInv, gate, motion, TypeOK, RequestInv, Fits, Room, Waits,
           Through
  <2>2. CASE /\ seen + 1 < ConfirmBudget
             /\ seen' = seen + 1 /\ UNCHANGED <<stage, mem, request, result, waited>>
    BY <1>3, <1>6, <2>2, OneMoreFrame DEF Confirm, TypeInv
  <2>3. CASE \E f \in Frames :
               \/ ExactCorpse(f, subject) /\ LootAgain(f)
               \/ ~ExactCorpse(f, subject) /\ f.combat /\ Fail
               \/ /\ ~ExactCorpse(f, subject) /\ ~f.combat
                  /\ Act(mem, Request("reselect", f, subject))
    BY <1>4, <1>6, <2>3, LootAgainKeepsType DEF Confirm
  <2>. QED  BY <1>6, <2>1, <2>2, <2>3 DEF Confirm
<1>. QED  BY <1>1, <1>2, <1>5, <1>6 DEF Recovery

LEMMA RestKeepsType ==
  ASSUME TypeInv, MotionRaises \/ Expire \/ Checkpoint \/ CloseMotion \/ CloseGate \/ Takeover
  PROVE  TypeInv'
<1>. USE DEF TypeInv
<1>. motionHeld \in BOOLEAN
  BY DEF TypeOK
<1>1. CASE MotionRaises
  BY <1>1, FailKeepsType DEF MotionRaises, MotionReleaseFails, gate, TypeOK, RestTyped
<1>2. CASE Expire
  BY <1>2, FailKeepsType DEF Expire, gate, motion, TypeOK, RestTyped
<1>3. CASE Checkpoint
  <2>1. RestTyped' /\ UNCHANGED used
    BY <1>3 DEF Checkpoint, MotionReleaseFails, gate, TypeOK, RestTyped
  <2>2. CASE Fail
    BY <2>1, <2>2, FailKeepsType
  <2>3. CASE UNCHANGED <<stage, mem, request, seen, result, waited>>
    BY <2>1, <2>3 DEF TypeOK, RestTyped, RequestInv, Fits, Room, result
  <2>. QED  BY <1>3, <2>2, <2>3 DEF Checkpoint
<1>4. CASE CloseMotion
  <2>1. TypeOK'
    BY <1>4 DEF CloseMotion, MotionReleaseFails, gate, result, TypeOK
  <2>2. RequestInv'
    BY <1>4 DEF CloseMotion, gate, RequestInv, Fits, Room
  <2>. QED  BY <2>1, <2>2
<1>5. CASE CloseGate
  <2>1. TypeOK'
    BY <1>5 DEF CloseGate, motion, result, TypeOK
  <2>2. RequestInv'
    BY <1>5 DEF CloseGate, RequestInv, Fits, Room
  <2>. QED  BY <2>1, <2>2
<1>6. CASE Takeover
  <2>1. /\ UNCHANGED <<opt, stage, mem, request, used, bound, closed, seen, outcome, subject,
                      witness, waited, victims>>
        /\ stop' \in {"motion", "release", "done"} /\ cancelled' \in {cancelled, TRUE}
        /\ keyDown' \in {keyDown, FALSE} /\ stuck' \in {stuck, TRUE}
        /\ motionHeld' \in BOOLEAN /\ motionCancelled' \in {motionCancelled, TRUE}
    BY <1>6 DEF Takeover, TakeMotion, TakeGate, TakeRelease, OnlyTakeover, MotionReleaseFails,
                motion, result
  <2>2. TypeOK'
    <3>1. RestTyped'
      BY <2>1 DEF TypeOK, RestTyped
    <3>2. LoopTyped'
      BY <2>1 DEF TypeOK, LoopTyped
    <3>. QED  BY <3>1, <3>2, TwoParts
  <2>3. RequestInv'
    BY <2>1 DEF RequestInv, Fits, Room
  <2>. QED  BY <2>2, <2>3
<1>. QED  BY <1>1, <1>2, <1>3, <1>4, <1>5, <1>6

LEMMA TypeInvInit ==
  ASSUME Init
  PROVE  TypeInv
<1>1. used \in Counters
  BY Budgets DEF Init, Counters
<1>2. witness \in Healths
  BY DEF Init, Selected, Healths
<1>3. stage = "frame" /\ request = NoRequest
  BY DEF Init
<1>. QED
  BY <1>1, <1>2, <1>3, NothingTyped, NothingFits, Zeroes
     DEF Init, TypeInv, TypeOK, RequestInv, Selected, Waits

LEMMA TypeInvStep ==
  ASSUME TypeInv, [Next]_vars
  PROVE  TypeInv'
<1>1. CASE LoopBody
  BY <1>1, LoopBodyTyped, LoopFits DEF TypeInv
<1>2. CASE UNCHANGED vars
  BY <1>2 DEF vars, gate, motion, result, TypeInv, TypeOK, RequestInv, Fits, Room
<1>. QED
  BY <1>1, <1>2, GateKeepsType, RecoveryKeepsType, RestKeepsType DEF Next

\* Every variable keeps its type and every budget of the loop and of the arm is kept,
\* for any units, options and budgets: the gate counts an action only after it checked
\* that there was room for it.
THEOREM TypeCorrect == Spec => []TypeOK
<1>1. TypeInv => TypeOK
  BY DEF TypeInv
<1>. QED  BY <1>1, TypeInvInit, TypeInvStep, PTL DEF Spec

THEOREM TypeInvariant == Spec => []TypeInv
<1>. QED  BY TypeInvInit, TypeInvStep, PTL DEF Spec

-----------------------------------------------------------------------------
(* What is held, and when it is let go.                                    *)

InRecovery ==
  stage \in {"bind", "restore", "confirm"} \/ (stage \in Through /\ request.action \in Recoveries)

\* A takeover has cancelled and released the motion before it cancels the gate, and
\* the gate before it is done; a key is down between a press and a release only.
TakeoverInv ==
  /\ stop # "armed" => motionCancelled /\ (motionHeld => stuck)
  /\ stop \in {"release", "done"} => cancelled
  /\ stop = "done" /\ keyDown => stuck
  /\ keyDown => stage = "held" \/ stuck

\* The end of the encounter, one lock after the other.
CloseInv ==
  /\ motionHeld => opt.motion
  /\ stage \in {"closeGate", "over"} => (opt.motion => motionCancelled) /\ (motionHeld => stuck)
  /\ stage = "over" => closed /\ cancelled

\* A unit with an open blow is the locked one, and the loop waits for what it did.
BlowInv ==
  mem.pending = NoBlow
    \/ (stage = "frame" /\ mem.pending.unit = mem.target /\ mem.target # NoUnit)

StillInv == InRecovery => ~motionHeld \/ witness = Drained

HeldInv == TypeInv /\ TakeoverInv /\ CloseInv /\ BlowInv /\ StillInv

LEMMA NothingOpen == NoMemory.pending = NoBlow
  BY DEF NoMemory

LEMMA FailIsStill ==
  ASSUME Fail
  PROVE  BlowInv' /\ StillInv'
  BY NothingOpen DEF Fail, BlowInv, StillInv, InRecovery, Through

\* A frame that ends a fight is none that motion follows, unless the unit on it has
\* no health left.
LEMMA DefeatIsStill ==
  ASSUME HeldInv, NEW f \in Frames, NEW unit, LoopDefeats(f, unit), MotionFollows(f)
  PROVE  BlowInv' /\ StillInv'
<1>1. BlowInv' /\ witness' = f.health
  BY NothingOpen DEF LoopDefeats, Defeat, BlowInv
<1>2. motionHeld' => MotionSafe(f)
  BY DEF MotionFollows, HeldInv, CloseInv
<1>3. MotionSafe(f) => f.health = Drained
  BY DEF LoopDefeats, MotionSafe, AboutUnit, Live, Corpse, Empty, Blow, HeldInv, BlowInv
<1>. QED  BY <1>1, <1>2, <1>3 DEF StillInv

LEMMA LoopBodyHolds ==
  ASSUME HeldInv, LoopBody
  PROVE  HeldInv'
<1>. TypeInv /\ TypeInv' /\ stage = "frame"
  BY TypeInvStep DEF HeldInv, LoopBody, Next
<1>1. PICK f \in Frames : LoopEndsWith(f) /\ MotionFollows(f)
  BY LoopEnds DEF TypeInv
<1>2. motionHeld' => opt.motion /\ (motionHeld \/ ~motionCancelled)
  BY <1>1 DEF MotionFollows, HeldInv, CloseInv
<1>3. UNCHANGED <<opt, cancelled, closed, keyDown, motionCancelled, stop, stuck>>
  BY DEF LoopBody, gate
<1>4. stage' \in {"frame", "admit", "bind", "closing"}
  BY <1>1 DEF LoopEndsWith, LoopWaits, Fail, LoopActs, Act, LoopDefeats, Defeat
<1>5. TakeoverInv' /\ CloseInv'
  BY <1>2, <1>3, <1>4 DEF HeldInv, TakeoverInv, CloseInv
<1>6. BlowInv' /\ StillInv'
  <2>1. CASE LoopWaits
    BY <2>1 DEF LoopWaits, HeldInv, BlowInv, StillInv, InRecovery, Through
  <2>2. CASE LoopActs(f)
    <3>1. Decision(f) \notin Recoveries
      BY <2>2, DecisionFacts DEF LoopActs, Decisions, Attacks, Blows, Selects, Recoveries
    <3>. QED  BY <2>2, <3>1 DEF LoopActs, Act, Request, BlowInv, StillInv, InRecovery
  <2>3. CASE \E unit \in Selected : LoopDefeats(f, unit)
    BY <1>1, <2>3, DefeatIsStill
  <2>. QED  BY <1>1, <2>1, <2>2, <2>3, FailIsStill DEF LoopEndsWith
<1>. QED  BY <1>5, <1>6 DEF HeldInv

LEMMA GateHolds ==
  ASSUME HeldInv, Gate
  PROVE  HeldInv'
<1>. TypeInv /\ TypeInv'
  BY TypeInvStep DEF HeldInv, Next
<1>1. TakeoverInv' /\ CloseInv'
  <2>1. /\ UNCHANGED <<opt, motionHeld, motionCancelled, stop>>
        /\ stage \in Through /\ stage' \notin {"closeGate", "over"}
    BY DEF Gate, Admit, Refuse, Press, Lift, ApplyRaises, ReleaseRaises, Spoil, Commit, OnlyGate,
           Fail, motion, Through
  <2>2. (stuck => stuck') /\ (cancelled => cancelled')
    <3>1. CASE Admit \/ Refuse \/ Press \/ Lift \/ ApplyRaises \/ Commit
      <4>1. UNCHANGED <<stuck, cancelled>>
        BY <3>1 DEF Admit, Refuse, Press, Lift, ApplyRaises, Commit, gate
      <4>. QED  BY <4>1
    <3>2. CASE ReleaseRaises
      BY <3>2 DEF ReleaseRaises
    <3>3. CASE Spoil
      <4>1. UNCHANGED stuck /\ (UNCHANGED cancelled \/ cancelled' = TRUE)
        BY <3>3 DEF Spoil
      <4>. QED  BY <4>1
    <3>. QED  BY <3>1, <3>2, <3>3 DEF Gate
  <2>3. keyDown' => stuck' \/ (stage' = "held" /\ ~cancelled')
    BY DEF Gate, Admit, Refuse, Press, Lift, ApplyRaises, ReleaseRaises, Spoil, Commit, gate,
           HeldInv, TypeInv, TypeOK, TakeoverInv, Fail
  <2>. QED  BY <2>1, <2>2, <2>3 DEF HeldInv, TakeoverInv, CloseInv, Through
<1>2. CASE Admit \/ Press \/ Lift
  <2>1. /\ UNCHANGED <<mem, motionHeld, witness>> /\ request'.action = request.action
        /\ stage \in Through /\ stage' \in Through
    BY <1>2 DEF Admit, Press, Lift, OnlyGate, motion, result, Through
  <2>2. BlowInv' /\ StillInv'
    BY <2>1 DEF HeldInv, BlowInv, StillInv, InRecovery, Through
  <2>. QED  BY <1>1, <2>2 DEF HeldInv
<1>3. CASE Commit
  <2>1. StillInv'
    BY <1>3 DEF HeldInv, StillInv, InRecovery, Through, Commit, motion, result, Recoveries
  <2>2. request.sound /\ Fits(request) /\ mem \in Memories
    BY <1>3 DEF Commit, TypeInv, RequestInv, TypeOK
  <2>3. mem.pending = NoBlow /\ mem' = Remembered(request)
    BY <1>3 DEF HeldInv, BlowInv, Commit
  <2>4. BlowInv'
    <3>1. CASE request.action \in Blows
      <4>1. Remembered(request).target = request.unit /\ Remembered(request).pending.unit = request.unit
        BY <2>2, <3>1 DEF Remembered, Memories, Blows
      <4>2. stage' = "frame"
        BY <1>3, <3>1 DEF Commit, Blows
      <4>. QED  BY <2>2, <2>3, <3>1, <4>1, <4>2 DEF BlowInv, Fits, Attacks
    <3>2. CASE request.action \notin Blows
      <4>1. Remembered(request).pending = mem.pending
        BY <2>2, <3>2 DEF Remembered, Memories
      <4>. QED  BY <2>3, <4>1 DEF BlowInv
    <3>. QED  BY <3>1, <3>2
  <2>. QED  BY <1>1, <2>1, <2>4 DEF HeldInv
<1>. QED
  BY <1>1, <1>2, <1>3, FailIsStill DEF HeldInv, Gate, Refuse, ApplyRaises, ReleaseRaises, Spoil

LEMMA RecoveryHolds ==
  ASSUME HeldInv, Recovery
  PROVE  HeldInv'
<1>. TypeInv /\ TypeInv'
  BY TypeInvStep DEF HeldInv, Next
<1>1. /\ UNCHANGED <<opt, cancelled, closed, keyDown, motionHeld, motionCancelled, stop, stuck>>
      /\ stage \notin {"held", "closeGate", "over"} /\ stage' \notin {"closeGate", "over"}
  BY DEF Recovery, Bind, BindRefused, Restore, Confirm, OnlyGate, OnlyRecovery, LootAgain, Act,
         Fail, gate, motion
<1>2. TakeoverInv' /\ CloseInv'
  BY <1>1 DEF HeldInv, TakeoverInv, CloseInv
<1>3. (BlowInv' /\ StillInv') \/ Fail
  BY <1>1 DEF HeldInv, BlowInv, StillInv, InRecovery, Recovery, Bind, BindRefused, Restore, Confirm,
              OnlyGate, LootAgain, Act, Through, result
<1>. QED  BY <1>2, <1>3, FailIsStill DEF HeldInv

LEMMA RestHolds ==
  ASSUME HeldInv, MotionRaises \/ Expire \/ Checkpoint \/ CloseMotion \/ CloseGate \/ Takeover
  PROVE  HeldInv'
<1>. TypeInv /\ TypeInv'
  BY TypeInvStep DEF HeldInv, Next
<1>1. CASE MotionRaises \/ Expire \/ Checkpoint
  <2>1. /\ UNCHANGED <<opt, cancelled, closed, keyDown, motionCancelled, stop>>
        /\ stage \notin {"held", "closeGate", "over"} /\ stage' \notin {"closeGate", "over"}
        /\ motionHeld' => opt.motion /\ (motionHeld \/ ~motionCancelled \/ stuck')
        /\ stuck => stuck'
    <3>1. CASE MotionRaises
      <4>1. \/ (stuck => stuck') /\ (motionHeld' => motionHeld \/ ~motionCancelled)
            \/ stuck'
        BY <3>1 DEF MotionRaises, MotionReleaseFails
      <4>2. /\ UNCHANGED <<opt, cancelled, closed, keyDown, motionCancelled, stop>>
            /\ stage = "frame" /\ stage' = "closing" /\ opt.motion
        BY <3>1 DEF MotionRaises, Fail, gate
      <4>. QED  BY <4>1, <4>2
    <3>2. CASE Expire
      BY <3>2 DEF Expire, Fail, gate, motion, Waits, HeldInv, CloseInv
    <3>3. CASE Checkpoint
      BY <3>3 DEF Checkpoint, MotionReleaseFails, Fail, gate, Waits
    <3>. QED  BY <1>1, <3>1, <3>2, <3>3
  <2>2. TakeoverInv' /\ CloseInv'
    BY <2>1 DEF HeldInv, TakeoverInv, CloseInv
  <2>3. (BlowInv' /\ StillInv') \/ Fail
    BY <1>1 DEF HeldInv, BlowInv, StillInv, InRecovery, MotionRaises, Expire, Checkpoint, result
  <2>. QED  BY <2>2, <2>3, FailIsStill DEF HeldInv
<1>2. CASE CloseMotion \/ CloseGate
  <2>1. CASE CloseMotion
    <3>1. TakeoverInv' /\ CloseInv'
      BY <2>1 DEF HeldInv, TakeoverInv, CloseInv, CloseMotion, MotionReleaseFails, gate
    <3>2. BlowInv' /\ StillInv'
      BY <2>1 DEF HeldInv, BlowInv, StillInv, InRecovery, Through, CloseMotion
    <3>. QED  BY <3>1, <3>2 DEF HeldInv
  <2>2. CASE CloseGate
    <3>1. TakeoverInv' /\ CloseInv'
      BY <2>2 DEF HeldInv, TypeInv, TypeOK, TakeoverInv, CloseInv, CloseGate, motion
    <3>2. BlowInv' /\ StillInv'
      BY <2>2 DEF HeldInv, BlowInv, StillInv, InRecovery, Through, CloseGate
    <3>. QED  BY <3>1, <3>2 DEF HeldInv
  <2>. QED  BY <1>2, <2>1, <2>2
<1>3. CASE Takeover
  BY <1>3 DEF HeldInv, TypeInv, TypeOK, TakeoverInv, CloseInv, BlowInv, StillInv, InRecovery, Takeover,
              TakeMotion, TakeGate, TakeRelease, OnlyTakeover, MotionReleaseFails, motion, result
<1>. QED  BY <1>1, <1>2, <1>3

LEMMA HeldInvInit ==
  ASSUME Init
  PROVE  HeldInv
  BY TypeInvInit, NothingOpen
     DEF Init, HeldInv, TakeoverInv, CloseInv, BlowInv, StillInv, InRecovery, Through

LEMMA HeldInvStep ==
  ASSUME HeldInv, [Next]_vars
  PROVE  HeldInv'
<1>1. CASE UNCHANGED vars
  BY <1>1, TypeInvStep
     DEF vars, gate, motion, result, HeldInv, TakeoverInv, CloseInv, BlowInv, StillInv, InRecovery
<1>. QED
  BY <1>1, LoopBodyHolds, GateHolds, RecoveryHolds, RestHolds DEF Next

\* Wherever a takeover meets the encounter, once it is done nothing is held and nothing
\* comes down any more, unless the backend failed to release.
THEOREM NothingAfterTakeover == Spec => []TakeoverStops
<1>1. HeldInv => TakeoverStops
  BY DEF HeldInv, TakeoverInv, TakeoverStops
<1>. QED  BY <1>1, HeldInvInit, HeldInvStep, PTL DEF Spec

\* However an encounter ends, its gate is closed and nothing is held, unless the
\* backend failed to release.
THEOREM EndReleases == Spec => []OverIsReleased
<1>1. HeldInv => OverIsReleased
  BY DEF HeldInv, TakeoverInv, CloseInv, OverIsReleased
<1>. QED  BY <1>1, HeldInvInit, HeldInvStep, PTL DEF Spec

\* Recovery never clicks while motion holds an input, except after a unit that had no
\* health left and was not marked dead.
THEOREM RecoveryIsStill == Spec => []RecoveryStandsStill
<1>1. HeldInv => RecoveryStandsStill
  BY DEF HeldInv, StillInv, InRecovery, RecoveryStandsStill
<1>. QED  BY <1>1, HeldInvInit, HeldInvStep, PTL DEF Spec

-----------------------------------------------------------------------------
(* Whom an encounter attacks.                                              *)

Fighting == stage \in Through /\ request.action \notin Recoveries

\* The units that were attacked are the locked one while the encounter fights, the one
\* of an attack that is not committed yet, and the defeated one in recovery. An accepted
\* action was decided on the locked unit, or on none, or nothing is locked yet.
VictimInv ==
  /\ stage = "frame" => victims \subseteq {mem.target}
  /\ Fighting =>
       /\ \/ victims \subseteq {mem.target}
          \/ request.action \in Attacks /\ victims \subseteq {request.unit}
       /\ request.sound => request.unit = NoUnit \/ mem.target \in {NoUnit, request.unit}
  /\ InRecovery =>
       /\ victims \subseteq {subject}
       /\ request.action = "loot" => request.unit = subject
  /\ stage = "bind" => request.action \in Recoveries
  /\ OneVictim

FightInv == HeldInv /\ VictimInv

LEMMA FailKeepsVictims ==
  ASSUME VictimInv, Fail, UNCHANGED victims
  PROVE  VictimInv'
  BY DEF VictimInv, Fighting, InRecovery, Through, Fail, OneVictim

LEMMA DefeatKeepsVictims ==
  ASSUME FightInv, stage = "frame", UNCHANGED victims, NEW f \in Frames, NEW unit,
         LoopDefeats(f, unit)
  PROVE  VictimInv'
<1>1. victims \subseteq {mem.target} /\ NoUnit \notin victims /\ OneVictim
  BY UnitsAssumption DEF FightInv, VictimInv, HeldInv, TypeInv, TypeOK
<1>2. victims \subseteq {unit}
  BY <1>1 DEF LoopDefeats, Blow, FightInv, HeldInv, BlowInv
<1>3. /\ subject' = unit /\ stage' \in {"bind", "closing"}
      /\ stage' = "bind" => request' = Request(IF ExactCorpse(f, unit) THEN "loot" ELSE "select", f, unit)
  BY DEF LoopDefeats, Defeat
<1>4. stage' = "bind" /\ request'.action = "loot" => request'.unit = unit
  BY <1>3 DEF Request, ExactCorpse
<1>5. stage' = "bind" => request'.action \in Recoveries
  BY <1>3 DEF Request, Recoveries
<1>. QED
  BY <1>1, <1>2, <1>3, <1>4, <1>5 DEF VictimInv, Fighting, InRecovery, Through, OneVictim

LEMMA ActKeepsVictims ==
  ASSUME FightInv, stage = "frame", UNCHANGED victims, NEW f \in Frames, LoopActs(f)
  PROVE  VictimInv'
<1>1. victims \subseteq {mem.target} /\ OneVictim
  BY DEF FightInv, VictimInv
<1>2. Decision(f) \in Actions \ Recoveries
  BY DecisionFacts
     DEF LoopActs, Decisions, Actions, Attacks, Blows, Selects, Recoveries
<1>3. /\ stage' = "admit" /\ request' = Request(Decision(f), f, bound) /\ mem'.target = mem.target
      /\ ~Strange(f)
  BY DEF LoopActs, Act
<1>4. request'.sound => request'.unit = NoUnit \/ mem.target \in {NoUnit, request'.unit}
  <2>1. request'.sound => Decision(f) = "advance" \/ Live(f) \/ Empty(f)
    BY <1>2, <1>3, GateFacts DEF Request
  <2>. QED  BY <1>3, <2>1, DecisionFacts DEF Request, Strange, Empty
<1>. QED
  BY <1>1, <1>2, <1>3, <1>4 DEF VictimInv, Fighting, InRecovery, Through, OneVictim, Request

LEMMA LoopKeepsVictims ==
  ASSUME FightInv, LoopBody
  PROVE  VictimInv'
<1>1. PICK f \in Frames : LoopEndsWith(f)
  BY LoopEnds DEF FightInv, HeldInv, TypeInv
<1>. stage = "frame" /\ UNCHANGED victims
  BY DEF LoopBody
<1>2. CASE LoopWaits
  BY <1>2 DEF LoopWaits, FightInv, VictimInv, Fighting, InRecovery, Through, OneVictim
<1>. QED
  BY <1>1, <1>2, FailKeepsVictims, ActKeepsVictims, DefeatKeepsVictims DEF LoopEndsWith, FightInv

LEMMA PressKeepsVictims ==
  ASSUME FightInv, Press
  PROVE  VictimInv'
<1>1. /\ stage \in Through /\ stage' \in Through /\ UNCHANGED <<request, mem, subject>>
      /\ stage' = "held"
  BY DEF Press, OnlyGate, result, Through
<1>2. request.sound /\ Fits(request) /\ NoUnit \notin victims
  BY UnitsAssumption DEF Press, FightInv, HeldInv, TypeInv, RequestInv, TypeOK
<1>3. CASE request.action \in Attacks
  <2>1. request.action \notin Recoveries
    BY <1>3 DEF Attacks, Blows, Recoveries
  <2>2. request.unit # NoUnit /\ mem.target \in {NoUnit, request.unit}
    BY <1>1, <1>2, <1>3, <2>1 DEF Fits, FightInv, VictimInv, Fighting
  <2>3. victims' \subseteq {request.unit}
    BY <1>1, <1>2, <1>3, <2>1, <2>2 DEF Press, FightInv, VictimInv, Fighting
  <2>. QED
    BY <1>1, <1>2, <1>3, <2>1, <2>2, <2>3 DEF VictimInv, Fighting, InRecovery, OneVictim
<1>4. CASE request.action \notin Attacks
  <2>1. UNCHANGED victims
    BY <1>4 DEF Press
  <2>. QED
    BY <1>1, <1>4, <2>1 DEF FightInv, VictimInv, Fighting, InRecovery, OneVictim
<1>. QED  BY <1>3, <1>4

LEMMA CommitKeepsVictims ==
  ASSUME FightInv, Commit
  PROVE  VictimInv'
<1>1. /\ stage = "commit" /\ UNCHANGED <<victims, subject>> /\ mem' = Remembered(request)
      /\ request' = NoRequest
  BY DEF Commit, result
<1>2. CASE request.action \in Recoveries
  <2>1. stage' \in {"restore", "confirm"}
    BY <1>2 DEF Commit, Recoveries
  <2>. QED
    BY <1>1, <1>2, <2>1
       DEF FightInv, VictimInv, Fighting, InRecovery, Through, NoRequest, OneVictim
<1>3. CASE request.action \notin Recoveries
  <2>1. stage' = "frame"
    BY <1>3 DEF Commit, Recoveries
  <2>2. /\ request.action \in Attacks => Remembered(request).target = request.unit
        /\ request.action \notin Attacks => Remembered(request).target = mem.target
    BY DEF Remembered, Attacks, Blows, FightInv, HeldInv, TypeInv, TypeOK, Memories
  <2>3. request.action \in Attacks => request.unit # NoUnit
    BY <1>1 DEF FightInv, HeldInv, TypeInv, RequestInv, Fits
  <2>4. NoUnit \notin victims
    BY UnitsAssumption DEF FightInv, HeldInv, TypeInv, TypeOK
  <2>5. victims \subseteq {mem'.target}
    BY <1>1, <1>3, <2>2, <2>3, <2>4
       DEF FightInv, VictimInv, HeldInv, TypeInv, RequestInv, Fighting, Through
  <2>. QED
    BY <1>1, <2>1, <2>5 DEF FightInv, VictimInv, Fighting, InRecovery, Through, OneVictim
<1>. QED  BY <1>2, <1>3

LEMMA GateKeepsVictims ==
  ASSUME FightInv, Gate
  PROVE  VictimInv'
<1>1. CASE Admit \/ Lift
  <2>1. /\ stage \in Through /\ stage' \in Through /\ UNCHANGED <<request, mem, subject, victims>>
    BY <1>1 DEF Admit, Lift, OnlyGate, result, Through
  <2>. QED  BY <2>1 DEF FightInv, VictimInv, Fighting, InRecovery, Through, OneVictim
<1>2. CASE Refuse \/ ApplyRaises \/ ReleaseRaises \/ Spoil
  BY <1>2, FailKeepsVictims DEF FightInv, Refuse, ApplyRaises, ReleaseRaises, Spoil
<1>. QED  BY <1>1, <1>2, PressKeepsVictims, CommitKeepsVictims DEF Gate

LEMMA RecoveryKeepsVictims ==
  ASSUME FightInv, Recovery
  PROVE  VictimInv'
<1>1. UNCHANGED victims /\ InRecovery
  BY DEF Recovery, Bind, BindRefused, Restore, Confirm, OnlyGate, OnlyRecovery, InRecovery
<1>2. CASE Bind
  <2>1. /\ UNCHANGED <<request, subject>> /\ stage' = "admit"
        /\ request.action \in Recoveries
    BY <1>2 DEF Bind, OnlyGate, result, FightInv, VictimInv
  <2>. QED  BY <1>1, <2>1 DEF FightInv, VictimInv, Fighting, InRecovery, Through, OneVictim
<1>3. CASE Fail
  BY <1>1, <1>3, FailKeepsVictims DEF FightInv
<1>4. ASSUME NEW f \in Frames, NEW action \in {"loot", "reselect"},
             action = "loot" => ExactCorpse(f, subject), Act(mem, Request(action, f, subject))
      PROVE  VictimInv'
  <2>1. /\ stage' = "admit" /\ UNCHANGED subject
        /\ request'.action = action /\ request'.unit = f.unit
    BY <1>4 DEF Act, Request, result
  <2>. QED
    BY <1>1, <1>4, <2>1
       DEF ExactCorpse, FightInv, VictimInv, Fighting, InRecovery, Recoveries, Through, OneVictim
<1>5. ASSUME UNCHANGED <<stage, mem, request, result, waited>>
      PROVE  VictimInv'
  BY <1>1, <1>5 DEF result, FightInv, VictimInv, Fighting, InRecovery, Through, OneVictim
<1>6. ASSUME NEW f \in Frames, ExactCorpse(f, subject), LootAgain(f)
      PROVE  VictimInv'
  BY <1>3, <1>4, <1>6 DEF LootAgain
<1>7. CASE Restore
  BY <1>3, <1>5, <1>6, <1>7 DEF Restore
<1>8. CASE Confirm
  <2>1. CASE stage' = "closing" /\ UNCHANGED subject
    BY <1>1, <2>1 DEF FightInv, VictimInv, Fighting, InRecovery, Through, OneVictim
  <2>2. CASE \E f \in Frames :
               \/ ExactCorpse(f, subject) /\ LootAgain(f)
               \/ Fail
               \/ Act(mem, Request("reselect", f, subject))
    BY <1>3, <1>4, <1>6, <2>2
  <2>. QED  BY <1>5, <1>8, <2>1, <2>2 DEF Confirm
<1>. QED  BY <1>2, <1>3, <1>7, <1>8 DEF Recovery, BindRefused

LEMMA RestKeepsVictims ==
  ASSUME FightInv, MotionRaises \/ Expire \/ Checkpoint \/ CloseMotion \/ CloseGate \/ Takeover
  PROVE  VictimInv'
<1>1. UNCHANGED victims
  BY DEF MotionRaises, Expire, Checkpoint, CloseMotion, CloseGate, Takeover, TakeMotion, TakeGate,
         TakeRelease, OnlyTakeover
<1>2. CASE Fail
  BY <1>1, <1>2, FailKeepsVictims DEF FightInv
<1>3. CASE UNCHANGED <<stage, mem, request, subject>>
  BY <1>1, <1>3 DEF FightInv, VictimInv, Fighting, InRecovery, Through, OneVictim
<1>4. CASE stage' \in {"closeGate", "over"}
  BY <1>1, <1>4 DEF FightInv, VictimInv, Fighting, InRecovery, Through, OneVictim
<1>. QED
  BY <1>2, <1>3, <1>4
     DEF MotionRaises, Expire, Checkpoint, CloseMotion, CloseGate, Takeover, TakeMotion, TakeGate,
         TakeRelease, OnlyTakeover, result

LEMMA FightInvInit ==
  ASSUME Init
  PROVE  FightInv
  BY HeldInvInit DEF Init, FightInv, VictimInv, Fighting, InRecovery, Through, OneVictim

LEMMA FightInvStep ==
  ASSUME FightInv, [Next]_vars
  PROVE  FightInv'
<1>1. HeldInv'
  BY HeldInvStep DEF FightInv
<1>2. CASE UNCHANGED vars
  BY <1>1, <1>2
     DEF vars, result, FightInv, VictimInv, Fighting, InRecovery, Through, OneVictim
<1>. QED
  BY <1>1, <1>2, LoopKeepsVictims, GateKeepsVictims, RecoveryKeepsVictims, RestKeepsVictims
     DEF Next, FightInv

\* An encounter attacks one unit at most, whatever units come into view, replace the
\* selected one or arrive after a cycle.
THEOREM AttacksOneUnit == Spec => []OneVictim
<1>1. FightInv => OneVictim
  BY DEF FightInv, VictimInv
<1>. QED  BY <1>1, FightInvInit, FightInvStep, PTL DEF Spec

\* Once a unit was attacked, no input is pressed for another one, except to find the
\* corpse again.
THEOREM StaysWithIt == Spec => []FollowsItsVictim
<1>1. FightInv => FollowsItsVictim
  <2>. SUFFICES ASSUME FightInv, stage = "held", request.action \notin {"select", "reselect"},
                       request.unit # NoUnit
                PROVE  victims \subseteq {request.unit}
    BY DEF FollowsItsVictim
  <2>1. NoUnit \notin victims /\ request.sound
    BY UnitsAssumption DEF FightInv, HeldInv, TypeInv, TypeOK, RequestInv
  <2>2. CASE request.action = "loot"
    BY <2>2 DEF FightInv, VictimInv, InRecovery, Recoveries, Through
  <2>3. CASE request.action # "loot"
    BY <2>1, <2>3 DEF FightInv, VictimInv, Fighting, Recoveries, Through
  <2>. QED  BY <2>2, <2>3
<1>. QED  BY <1>1, FightInvInit, FightInvStep, PTL DEF Spec

-----------------------------------------------------------------------------
(* Patience: what is true of PatienceIsBounded.                             *)

\* Once the fight is bound to a unit, the frames in a row that show the same other
\* one are bounded: nothing but the search for a first unit resets their count.
PatientOnceBound == mem.target # NoUnit => waited <= MismatchBudget

\* Bound, the loop remembers every frame of the row that waited; and nothing is
\* waited for outside the loop.
PatienceInv ==
  /\ stage # "frame" => waited = 0
  /\ mem.target # NoUnit => waited <= mem.strikes

LEMMA NobodyWaitsOutside ==
  ASSUME TypeOK, waited' = 0, mem' \in Memories
  PROVE  PatienceInv'
<1>1. mem'.strikes \in 0..MismatchBudget
  BY DEF Memories
<1>. QED  BY <1>1 DEF PatienceInv

\* The row of the same strange unit and its count grow together.
LEMMA StrikesCount ==
  ASSUME TypeOK, PatienceInv, NEW f \in Frames, mem.target # NoUnit,
         WaitForStranger(Strike(Changed(f), f.unit), f.unit)
  PROVE  waited' <= mem'.strikes
<1>. DEFINE m == Changed(f)
<1>1. mem \in Memories /\ m \in Memories
  BY ChangedKeeps DEF TypeOK, Keeps
<1>2. m.stranger = mem.stranger /\ m.strikes = mem.strikes
  BY <1>1 DEF Changed, Memories
<1>3. mem'.strikes = IF mem.stranger = f.unit THEN mem.strikes + 1 ELSE 1
  <2>1. mem' = Strike(m, f.unit)
    BY DEF WaitForStranger
  <2>. QED  BY <1>1, <1>2, <2>1 DEF Strike, Memories
<1>4. mem.strikes \in Nat /\ waited \in Nat
  BY <1>1, Budgets DEF Memories, TypeOK
<1>5. waited <= mem.strikes
  BY DEF PatienceInv
<1>. QED
  BY <1>2, <1>3, <1>4, <1>5 DEF WaitForStranger

LEMMA LoopIsPatient ==
  ASSUME TypeOK, PatienceInv, LoopBody
  PROVE  PatienceInv'
<1>1. PICK f \in Frames, spent \in BOOLEAN :
        \/ BlowGone(f) \/ BlowUnseen(f, spent)
        \/ TargetGone(f) \/ ChangeMissing(f)
        \/ StrangeUnit(f) \/ RebindWaits(f) \/ RebindRefused(f)
        \/ Known(f) /\ (BearingLost(f) \/ Decided(f))
  BY DEF LoopBody
<1>2. mem' \in Memories
  BY LoopBodyTyped DEF TypeOK
<1>3. ASSUME waited' = 0 PROVE PatienceInv'
  BY <1>2, <1>3, NobodyWaitsOutside
<1>4. CASE BlowGone(f) \/ BlowUnseen(f, spent) \/ TargetGone(f) \/ ChangeMissing(f)
  BY <1>3, <1>4 DEF BlowGone, BlowUnseen, TargetGone, ChangeMissing, Defeat, Wait, Fail
<1>5. CASE StrangeUnit(f)
  <2>1. CASE Fail
    BY <1>3, <2>1 DEF Fail
  <2>2. CASE WaitForStranger(Strike(Changed(f), f.unit), f.unit)
    <3>1. mem.target # NoUnit
      BY <1>5 DEF StrangeUnit, Strange
    <3>2. stage' = "frame"
      BY <2>2 DEF WaitForStranger, LoopBody
    <3>. QED  BY <2>2, <3>1, <3>2, StrikesCount DEF PatienceInv
  <2>. QED  BY <1>5, <2>1, <2>2 DEF StrangeUnit
<1>6. CASE RebindWaits(f)
  <2>. DEFINE m == Strike(Calm(f), f.unit)
  <2>1. mem.target = NoUnit /\ mem' = m /\ stage' = "frame"
    BY <1>6 DEF RebindWaits, Rebinding, Stable, WaitForStranger, LoopBody
  <2>2. m.target = NoUnit
    BY <2>1, CalmKeeps DEF Keeps, Strike, Memories
  <2>. QED  BY <2>1, <2>2 DEF PatienceInv
<1>7. CASE RebindRefused(f)
  BY <1>3, <1>7 DEF RebindRefused, Fail
<1>8. CASE BearingLost(f) \/ Decided(f)
  BY <1>3, <1>8 DEF BearingLost, Decided, DecideWaits, DecideStops, DecideDefeated, DecideActs,
                    Defeat, Wait, Fail, Act
<1>. QED  BY <1>1, <1>4, <1>5, <1>6, <1>7, <1>8

LEMMA RestIsPatient ==
  ASSUME TypeInv, TypeOK', PatienceInv, [Next]_vars, ~LoopBody
  PROVE  PatienceInv'
<1>1. mem' \in Memories
  BY DEF TypeOK
<1>2. ASSUME waited' = 0 PROVE PatienceInv'
  BY <1>1, <1>2, NobodyWaitsOutside DEF TypeInv
<1>3. ASSUME UNCHANGED waited, stage # "frame" PROVE waited' = 0
  BY <1>3 DEF PatienceInv
<1>4. ASSUME UNCHANGED <<waited, mem, stage>> PROVE PatienceInv'
  BY <1>4 DEF PatienceInv
<1>5. ASSUME Fail PROVE waited' = 0
  BY <1>5 DEF Fail
<1>6. CASE Gate
  BY <1>2, <1>3, <1>5, <1>6
     DEF Gate, Admit, Refuse, Press, Lift, ApplyRaises, ReleaseRaises, Spoil, Commit, OnlyGate
<1>7. CASE Recovery
  BY <1>2, <1>3, <1>5, <1>7
     DEF Recovery, Bind, BindRefused, Restore, Confirm, LootAgain, Act, OnlyGate
<1>8. CASE MotionRaises \/ Expire \/ Checkpoint \/ Takeover
  BY <1>2, <1>4, <1>5, <1>8
     DEF MotionRaises, Expire, Checkpoint, Takeover, TakeMotion, TakeGate, TakeRelease, OnlyTakeover
<1>9. CASE CloseMotion \/ CloseGate
  BY <1>2, <1>3, <1>9 DEF CloseMotion, CloseGate
<1>10. CASE UNCHANGED vars
  BY <1>4, <1>10 DEF vars
<1>. QED  BY <1>6, <1>7, <1>8, <1>9, <1>10 DEF Next

LEMMA PatienceStep ==
  ASSUME TypeInv, PatienceInv, [Next]_vars
  PROVE  PatienceInv'
<1>1. TypeOK'
  BY TypeInvStep DEF TypeInv
<1>. QED  BY <1>1, LoopIsPatient, RestIsPatient DEF TypeInv

\* Bound to a unit, the encounter waits for MismatchBudget consecutive frames of the
\* same other unit at most, as the comment at combat_gateway.py:88-92 says; only the
\* choice of the first unit is without it (PatienceIsBounded).
THEOREM BoundFightIsPatient == Spec => []PatientOnceBound
<1>1. Init => PatienceInv
  BY DEF Init, PatienceInv, NoMemory
<1>2. TypeInv /\ PatienceInv /\ [Next]_vars => PatienceInv'
  BY PatienceStep
<1>3. TypeInv /\ PatienceInv => PatientOnceBound
  <2>. SUFFICES ASSUME TypeInv, PatienceInv, mem.target # NoUnit PROVE waited <= MismatchBudget
    BY DEF PatientOnceBound
  <2>1. mem.strikes \in 0..MismatchBudget /\ waited \in Nat
    BY Budgets DEF TypeInv, TypeOK, Memories
  <2>2. waited <= mem.strikes
    BY DEF PatienceInv
  <2>. QED  BY <2>1, <2>2, Budgets
<1>. QED  BY <1>1, <1>2, <1>3, TypeInvariant, PTL DEF Spec
=============================================================================
