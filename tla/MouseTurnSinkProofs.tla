------------------------- MODULE MouseTurnSinkProofs -------------------------
(***************************************************************************)
(* Theorems about MouseTurnSink, for any appliers and releasers, any kinds *)
(* of primitives and whatever the backend acknowledges.                    *)
(***************************************************************************)
EXTENDS MouseTurnSink, TLAPS

LEMMA Outside ==
  /\ NoOne \notin Appliers /\ NoOne \notin Releasers /\ NoOne \notin Nat
  /\ NoOne \notin Inputs /\ \A r \in Releasers : r \notin Appliers
  /\ Kinds \subseteq {"turn", "interact", "select", "key"}
  BY MouseAssumption DEF MouseAssumption

-----------------------------------------------------------------------------
(* The inductive invariant.                                                *)

Lifters == {"claim", "up", "released", "refused"}
Dragging == {"pressed", "drag", "pause", "back", "across", "moved"}
Before == {"validate", "submit", "press"}
After == {"settleUp", "putBack", "commit"}

\* Where an applier and a releaser can be, and why they release.
StageInv ==
  /\ \A a \in Appliers :
       /\ why[a] \in {"return", "unwind", "cleanup"}
       /\ pc[a] = "idle" => kind[a] = "turn" /\ why[a] = "cleanup"
       /\ kind[a] = "key" => why[a] # "unwind" /\ pc[a] \in Lifters \cup {"key", "settleUp", "raise"}
       /\ pc[a] = "key" => kind[a] = "key"
       /\ pc[a] \in {"drag", "pause", "back", "across", "moved"} => kind[a] = "turn"
       /\ pc[a] \in After => why[a] = "return"
       /\ kind[a] \in {"turn", "interact", "select", "key"}
  /\ \A r \in Releasers :
       /\ pc[r] \in Lifters \cup {"idle"}
       /\ pc[r] # "idle" => why[r] \in Inputs /\ kind[r] \in {"release", "close"}
  /\ \A t \in Threads :
       lifting[t] # NoOne <=> pc[t] \in {"up", "refused"}

\* One apply at a time.
Single == \A a, b \in Appliers : pc[a] # "idle" /\ pc[b] # "idle" => a = b

\* What the registration of the apply and its press say of the generation.
ApplyInv ==
  /\ keyLive => \E a \in Appliers : kind[a] = "key"
  /\ activeGen \in Nat => activeGen <= gen
  /\ \A a \in Appliers : pc[a] \in {"press", "pause", "back", "across"} => activeGen = gen

Controlled(a) == IF kind[a] = "key" THEN "keyboard" ELSE ButtonOf(a)

AccountInv == \A i \in down : i \in owned \/ \E t \in Threads : lifting[t] = i

\* What is down was left down by a release, or an apply that remembers it has still
\* to claim it, or its release is on its way.
OwnerInv ==
  /\ \A i \in down :
       \/ i \in stuck
       \/ i \in owned /\ \E a \in Appliers : pc[a] \in Dragging \cup {"claim"} /\ Controlled(a) = i
       \/ \E t \in Threads : pc[t] = "up" /\ lifting[t] = i
  /\ stuck # {} => unlifted

CursorInv ==
  /\ ~cursor => unrestored \/ \E a \in Appliers : placed[a]
  /\ \A a \in Appliers : placed[a] => pc[a] \notin {"idle", "commit"} /\ kind[a] # "key"

\* While the apply is not revoked, no other thread lifts a button, but a stale one.
LiftInv ==
  \A a \in Appliers :
    pc[a] # "idle" /\ kind[a] # "key" /\ activeGen = gen =>
      stale \/ \A r \in Releasers : lifting[r] \notin Buttons

ReturnsOK(a) == pc[a] \in After \/ (why[a] = "return" /\ pc[a] \in Lifters)

TurnInv ==
  \A a \in Appliers :
    kind[a] # "key" =>
    /\ pc[a] \in Dragging /\ activeGen = gen => stale \/ ButtonOf(a) \in down
    /\ pc[a] \in Before \cup {"pressed", "drag", "across", "moved"} => pitch = 0
    /\ pc[a] \in {"pause", "back"} => pitch = 1
    /\ kind[a] = "turn" /\ (pc[a] = "moved" \/ ReturnsOK(a)) => pitch = 0 /\ (stale \/ turned)

\* The button of an apply that released it is up, while the apply is not revoked.
SettledInv ==
  /\ \A a \in Appliers :
       kind[a] # "key" /\ activeGen = gen /\
         (pc[a] \in After \/ (pc[a] = "released" /\ why[a] = "return")) =>
           stale \/ ButtonOf(a) \notin down
  /\ \A a \in Appliers : pc[a] = "up" /\ kind[a] # "key" => lifting[a] = ButtonOf(a)

-----------------------------------------------------------------------------
(* Types, locks and stages.                                                *)

\* TypeOK in two parts: the values, and who holds which lock where.
Types ==
  /\ owned \subseteq Inputs /\ down \subseteq Inputs /\ closed \subseteq {"mouse", "keyboard"}
  /\ gen \in Nat /\ activeGen \in Nat \cup {NoOne}
  /\ pc \in [Threads -> Pcs]
  /\ why \in [Threads -> Inputs \cup {"return", "unwind", "cleanup"}]
  /\ kind \in [Threads -> Kinds \cup {"turn", "release", "close"}]
  /\ lifting \in [Threads -> Inputs \cup {NoOne}] /\ placed \in [Threads -> BOOLEAN]

\* The history and the holders of the locks.
Flags ==
  /\ applyLock \in Appliers \cup {NoOne} /\ subLock \in Appliers \cup {NoOne}
  /\ keyLive \in BOOLEAN /\ cursor \in BOOLEAN /\ turned \in BOOLEAN /\ stale \in BOOLEAN
  /\ unlifted \in BOOLEAN /\ unrestored \in BOOLEAN /\ pitch \in Int /\ stuck \subseteq Inputs

Unwinding(a) == why[a] = "unwind" /\ pc[a] \in Lifters

Submitting(a) == pc[a] \in {"press", "pause", "back", "across"} \/ Unwinding(a)

LockInv ==
  \A a \in Appliers :
    /\ applyLock = a <=> pc[a] # "idle" /\ kind[a] # "key"
    /\ applyLock = NoOne => activeGen = NoOne
    /\ subLock = a <=> Submitting(a)

LEMMA TypeParts == TypeOK <=> Types /\ LockInv /\ Flags
  BY DEF TypeOK, Types, Flags, LockInv, Submitting, Unwinding, Lifters

LEMMA StageInit == Init => Types /\ LockInv /\ StageInv
  BY Outside
  DEF Init, Types, LockInv, Submitting, Unwinding, StageInv, Pcs, Threads, Lifters, After,
      Inputs

\* What the two steps with the most outcomes do to what the invariants are about.
ExcursionEffect(a) ==
  /\ pc[a] = "drag" /\ subLock = NoOne /\ OnlyDrag /\ UNCHANGED turned
  /\ \/ ReleaseFor(a, "cleanup") /\ subLock' = NoOne
     \/ Unrevoked /\ Goto(a, "pause") /\ UNCHANGED why /\ subLock' = a /\ pitch' = pitch + 1

LEMMA ExcursionHas == ASSUME NEW a, Excursion(a) PROVE ExcursionEffect(a)
  <1>1. CASE ReleaseFor(a, "cleanup") /\ UNCHANGED <<subLock, pitch>>
    BY <1>1 DEF Excursion, ExcursionEffect
  <1>2. ASSUME NEW ack \in Acknowledgements, Unrevoked,
               pitch' \in Leaves(ack, pitch + 1, pitch), Dragged(a, ack, "pause")
        PROVE  ExcursionEffect(a)
    BY <1>2 DEF Excursion, ExcursionEffect, Dragged, Leaves
  <1> QED BY <1>1, <1>2 DEF Excursion

KeyPressEffect(a) ==
  /\ pc[a] = "key"
  /\ \E w \in {"return", "cleanup"} : ReleaseFor(a, w)
  /\ owned' \in {owned, owned \cup {"keyboard"}}
  /\ \/ UNCHANGED down
     \/ keyLive /\ down' = down \cup {"keyboard"} /\ "keyboard" \in owned'
  /\ UNCHANGED <<gen, activeGen, keyLive, closed, locks, kind, lifting, placed, cursor, pitch,
                 turned, history>>

\* A commit that finds its apply revoked.
CommitFails(a) ==
  /\ pc[a] = "commit" /\ ReleaseFor(a, "cleanup")
  /\ UNCHANGED <<sink, locks, kind, lifting, placed, mouse, history>>

LEMMA KeyPressHas == ASSUME NEW a, KeyPress(a) PROVE KeyPressEffect(a)
  <1>1. CASE ReleaseFor(a, "cleanup") /\ UNCHANGED <<owned, down>>
    BY <1>1 DEF KeyPress, KeyPressEffect
  <1>2. ASSUME NEW ack \in Acknowledgements, keyLive, owned' = owned \cup {"keyboard"},
               down' \in Leaves(ack, down \cup {"keyboard"}, down),
               ReleaseFor(a, IF ack THEN "return" ELSE "cleanup")
        PROVE  KeyPressEffect(a)
    <2>1. UNCHANGED down \/ down' = down \cup {"keyboard"}
      BY <1>2 DEF Leaves
    <2>2. \E w \in {"return", "cleanup"} : ReleaseFor(a, w)
      BY <1>2, Zenon
    <2> QED BY <1>2, <2>1, <2>2 DEF KeyPress, KeyPressEffect
  <1> QED BY <1>1, <1>2 DEF KeyPress

LEMMA StageStep == Types /\ StageInv /\ [Next]_vars => StageInv'
  <1> SUFFICES ASSUME Types, StageInv, [Next]_vars PROVE StageInv'
    OBVIOUS
  <1>0. /\ pc \in [Threads -> Pcs] /\ why \in [Threads -> Inputs \cup {"return", "unwind", "cleanup"}]
        /\ kind \in [Threads -> Kinds \cup {"turn", "release", "close"}]
        /\ lifting \in [Threads -> Inputs \cup {NoOne}]
        /\ placed \in [Threads -> BOOLEAN]
        /\ \A r \in Releasers : r \notin Appliers
        /\ NoOne \notin Inputs /\ NoOne \notin Appliers
        /\ Kinds \subseteq {"turn", "interact", "select", "key"}
        /\ Appliers \subseteq Threads /\ Releasers \subseteq Threads
    BY Outside DEF Types, Threads
  <1>1. ASSUME NEW a \in Appliers, Begin(a) PROVE StageInv'
    BY <1>0, <1>1
    DEF StageInv, Lifters, After, Threads, Inputs, Buttons, Begin, Free, mouse, Goto
  <1>2. ASSUME NEW a \in Appliers, KeyBegin(a) PROVE StageInv'
    BY <1>0, <1>2
    DEF StageInv, Lifters, After, Threads, Inputs, Buttons, KeyBegin, Free, locks, mouse, Goto
  <1>3. ASSUME NEW a \in Appliers, Validate(a) PROVE StageInv'
    BY <1>0, <1>3
    DEF StageInv, Lifters, After, Threads, Inputs, Buttons, Validate, Unrevoked, sink, locks,
        mouse, history, Goto, ReleaseFor
  <1>4. ASSUME NEW a \in Appliers, Submit(a) PROVE StageInv'
    BY <1>0, <1>4
    DEF StageInv, Lifters, After, Threads, Inputs, Buttons, Submit, Unrevoked, sink, mouse,
        history, Goto, ReleaseFor
  <1>5. ASSUME NEW a \in Appliers, Press(a) PROVE StageInv'
    BY <1>0, <1>5
    DEF StageInv, Lifters, After, Threads, Inputs, Buttons, ButtonOf, Press, Leaves,
        Acknowledgements, history, Goto, ReleaseFor
  <1>6. ASSUME NEW a \in Appliers, Pressed(a) PROVE StageInv'
    BY <1>0, <1>6
    DEF StageInv, Lifters, After, Threads, Inputs, Buttons, Pressed, Check, Unrevoked, sink,
        locks, mouse, history, Goto, ReleaseFor
  <1>7. ASSUME NEW a \in Appliers, Excursion(a) PROVE StageInv'
    <2>1. ExcursionEffect(a)
      BY <1>7, ExcursionHas
    <2> QED BY <1>0, <2>1
      DEF StageInv, Lifters, After, Threads, Inputs, Buttons, ExcursionEffect, OnlyDrag,
          Unrevoked, sink, mouse, history, Goto, ReleaseFor
  <1>8. ASSUME NEW a \in Appliers, Pause(a) PROVE StageInv'
    BY <1>0, <1>8
    DEF StageInv, Lifters, After, Threads, Inputs, Buttons, Pause, Dragged, OnlyDrag, Unrevoked,
        sink, mouse, history, Goto, ReleaseFor
  <1>9. ASSUME NEW a \in Appliers, Back(a) PROVE StageInv'
    BY <1>0, <1>9
    DEF StageInv, Lifters, After, Threads, Inputs, Buttons, Back, Dragged, OnlyDrag, Leaves,
        Acknowledgements, sink, history, Goto, ReleaseFor
  <1>10. ASSUME NEW a \in Appliers, Across(a) PROVE StageInv'
    BY <1>0, <1>10
    DEF StageInv, Lifters, After, Threads, Inputs, Buttons, Across, Dragged, OnlyDrag, Leaves,
        Acknowledgements, sink, history, Goto, ReleaseFor
  <1>11. ASSUME NEW a \in Appliers, Hold(a) PROVE StageInv'
    BY <1>0, <1>11
    DEF StageInv, Lifters, After, Threads, Inputs, Buttons, Hold, Unrevoked, sink, locks, mouse,
        history, Goto, ReleaseFor
  <1>12. ASSUME NEW a \in Appliers, SettleUp(a) PROVE StageInv'
    BY <1>0, <1>12
    DEF StageInv, Lifters, After, Threads, Inputs, Buttons, SettleUp, Check, Unrevoked, sink,
        locks, mouse, history, Goto, ReleaseFor
  <1>13. ASSUME NEW a \in Appliers, PutBack(a) PROVE StageInv'
    BY <1>0, <1>13
    DEF StageInv, Lifters, After, Threads, Inputs, Buttons, PutBack, Leaves, Acknowledgements,
        sink, locks, history, Goto, ReleaseFor
  <1>14. ASSUME NEW a \in Appliers, Commit(a) PROVE StageInv'
    <2>1. CASE Leave(a)
      BY <1>0, <1>14, <2>1
      DEF StageInv, Lifters, After, Threads, Inputs, Buttons, Commit, Leave, sink, locks, mouse,
          history, Goto, ReleaseFor
    <2>2. CASE CommitFails(a)
      BY <1>0, <1>14, <2>2
      DEF CommitFails, StageInv, Lifters, After, Threads, Inputs, Buttons, sink, locks, mouse, history, Goto,
          ReleaseFor
    <2> QED BY <1>14, <2>1, <2>2 DEF Commit, CommitFails
  <1>15. ASSUME NEW a \in Appliers, Raise(a) PROVE StageInv'
    BY <1>0, <1>15
    DEF StageInv, Lifters, After, Threads, Inputs, Buttons, Raise, Leave, Leaves,
        Acknowledgements, Goto
  <1>16. ASSUME NEW a \in Appliers, KeyPress(a) PROVE StageInv'
    <2>1. KeyPressEffect(a)
      BY <1>16, KeyPressHas
    <2> QED BY <1>0, <2>1
      DEF StageInv, Lifters, After, Threads, Inputs, Buttons, KeyPressEffect, locks, history,
          Goto, ReleaseFor
  <1>17. ASSUME NEW a \in Appliers, KeyEnds(a) PROVE StageInv'
    BY <1>0, <1>17 DEF StageInv, Lifters, After, Threads, Inputs, Buttons, KeyEnds, Leave, Goto
  <1>18. ASSUME NEW r \in Releasers, ReleaseAll(r) PROVE StageInv'
    BY <1>0, <1>18
    DEF StageInv, Lifters, After, Threads, Inputs, Buttons, ReleaseAll, sink, locks, mouse,
        history, Goto, ReleaseFor
  <1>19. ASSUME NEW r \in Releasers, Close(r) PROVE StageInv'
    BY <1>0, <1>19
    DEF StageInv, Lifters, After, Threads, Inputs, Buttons, Close, locks, mouse, history, Goto,
        ReleaseFor
  <1>20. ASSUME NEW t \in Threads, Claim(t) PROVE StageInv'
    BY <1>0, <1>20
    DEF StageInv, Lifters, After, Threads, Inputs, Buttons, ButtonOf, Claim, ClaimWhen, Revokes,
        Target, locks, mouse, history, Goto
  <1>21. ASSUME NEW t \in Threads, Up(t) PROVE StageInv'
    BY <1>0, <1>21
    DEF StageInv, Lifters, After, Threads, Inputs, Buttons, Up, Leaves, Acknowledgements, sink,
        locks, Goto
  <1>22. ASSUME NEW t \in Threads, AfterRelease(t) PROVE StageInv'
    <2>1. CASE why[t] = "keyboard"
      BY <1>0, <1>22, <2>1
      DEF StageInv, Lifters, After, Threads, Inputs, Buttons, AfterRelease, NextStage, mouse,
          history, Goto, ReleaseFor
    <2>2. CASE why[t] \in Buttons
      BY <1>0, <1>22, <2>2
      DEF StageInv, Lifters, After, Threads, Inputs, Buttons, AfterRelease, NextStage, mouse,
          history, Goto, ReleaseFor
    <2>3. CASE why[t] = "return"
      BY <1>0, <1>22, <2>3
      DEF StageInv, Lifters, After, Threads, Inputs, Buttons, AfterRelease, NextStage, mouse,
          history, Goto, ReleaseFor
    <2>4. CASE why[t] = "unwind"
      BY <1>0, <1>22, <2>4
      DEF StageInv, Lifters, After, Threads, Inputs, Buttons, AfterRelease, NextStage, mouse,
          history, Goto, ReleaseFor
    <2>5. CASE why[t] = "cleanup"
      BY <1>0, <1>22, <2>5
      DEF StageInv, Lifters, After, Threads, Inputs, Buttons, AfterRelease, NextStage, mouse,
          history, Goto, ReleaseFor
    <2> QED BY <1>0, <1>22, <2>1, <2>2, <2>3, <2>4, <2>5 DEF AfterRelease
  <1>23. CASE UNCHANGED vars
    BY <1>0, <1>23
    DEF vars, StageInv, Lifters, After, Threads, Inputs, Buttons, sink, local, locks, mouse,
        history
  <1> QED BY <1>1, <1>2, <1>3, <1>4, <1>5, <1>6, <1>7, <1>8, <1>9, <1>10, <1>11, <1>12, <1>13,
       <1>14, <1>15, <1>16, <1>17, <1>18, <1>19, <1>20, <1>21, <1>22, <1>23
    DEF Next, ApplyStep, ReleaseStep
LEMMA SingleStep == Types /\ StageInv /\ Single /\ [Next]_vars => Single'
  <1> SUFFICES ASSUME Types, StageInv, Single, [Next]_vars PROVE Single'
    OBVIOUS
  <1>0. /\ pc \in [Threads -> Pcs] /\ why \in [Threads -> Inputs \cup {"return", "unwind", "cleanup"}]
        /\ kind \in [Threads -> Kinds \cup {"turn", "release", "close"}]
        /\ lifting \in [Threads -> Inputs \cup {NoOne}]
        /\ placed \in [Threads -> BOOLEAN]
        /\ \A r \in Releasers : r \notin Appliers
        /\ NoOne \notin Inputs /\ NoOne \notin Appliers
        /\ Kinds \subseteq {"turn", "interact", "select", "key"}
        /\ Appliers \subseteq Threads /\ Releasers \subseteq Threads
    BY Outside DEF Types, Threads
  <1>1. ASSUME NEW a \in Appliers, Begin(a) PROVE Single'
    BY <1>0, <1>1 DEF Single, StageInv, Lifters, After, Begin, Free, mouse, Goto
  <1>2. ASSUME NEW a \in Appliers, KeyBegin(a) PROVE Single'
    BY <1>0, <1>2 DEF Single, StageInv, Lifters, After, KeyBegin, Free, locks, mouse, Goto
  <1>3. ASSUME NEW a \in Appliers, Validate(a) PROVE Single'
    BY <1>0, <1>3
    DEF Single, StageInv, Lifters, After, Validate, Unrevoked, sink, locks, mouse, history,
        Goto, ReleaseFor
  <1>4. ASSUME NEW a \in Appliers, Submit(a) PROVE Single'
    BY <1>0, <1>4
    DEF Single, StageInv, Lifters, After, Submit, Unrevoked, sink, mouse, history, Goto,
        ReleaseFor
  <1>5. ASSUME NEW a \in Appliers, Press(a) PROVE Single'
    BY <1>0, <1>5
    DEF Single, StageInv, Lifters, After, Press, Leaves, Acknowledgements, history, Goto,
        ReleaseFor
  <1>6. ASSUME NEW a \in Appliers, Pressed(a) PROVE Single'
    BY <1>0, <1>6
    DEF Single, StageInv, Lifters, After, Pressed, Check, Unrevoked, sink, locks, mouse,
        history, Goto, ReleaseFor
  <1>7. ASSUME NEW a \in Appliers, Excursion(a) PROVE Single'
    <2>1. ExcursionEffect(a)
      BY <1>7, ExcursionHas
    <2> QED BY <1>0, <2>1
      DEF Single, StageInv, Lifters, After, ExcursionEffect, OnlyDrag, Unrevoked, sink, mouse,
          history, Goto, ReleaseFor
  <1>8. ASSUME NEW a \in Appliers, Pause(a) PROVE Single'
    BY <1>0, <1>8
    DEF Single, StageInv, Lifters, After, Pause, Dragged, OnlyDrag, Unrevoked, sink, mouse,
        history, Goto, ReleaseFor
  <1>9. ASSUME NEW a \in Appliers, Back(a) PROVE Single'
    BY <1>0, <1>9
    DEF Single, StageInv, Lifters, After, Back, Dragged, OnlyDrag, Leaves, Acknowledgements,
        sink, history, Goto, ReleaseFor
  <1>10. ASSUME NEW a \in Appliers, Across(a) PROVE Single'
    BY <1>0, <1>10
    DEF Single, StageInv, Lifters, After, Across, Dragged, OnlyDrag, Leaves, Acknowledgements,
        sink, history, Goto, ReleaseFor
  <1>11. ASSUME NEW a \in Appliers, Hold(a) PROVE Single'
    BY <1>0, <1>11
    DEF Single, StageInv, Lifters, After, Hold, Unrevoked, sink, locks, mouse, history, Goto,
        ReleaseFor
  <1>12. ASSUME NEW a \in Appliers, SettleUp(a) PROVE Single'
    BY <1>0, <1>12
    DEF Single, StageInv, Lifters, After, SettleUp, Check, Unrevoked, sink, locks, mouse,
        history, Goto, ReleaseFor
  <1>13. ASSUME NEW a \in Appliers, PutBack(a) PROVE Single'
    BY <1>0, <1>13
    DEF Single, StageInv, Lifters, After, PutBack, Leaves, Acknowledgements, sink, locks,
        history, Goto, ReleaseFor
  <1>14. ASSUME NEW a \in Appliers, Commit(a) PROVE Single'
    <2>1. CASE Leave(a)
      BY <1>0, <1>14, <2>1
      DEF Single, StageInv, Lifters, After, Commit, Leave, sink, locks, mouse, history, Goto,
          ReleaseFor
    <2>2. CASE CommitFails(a)
      BY <1>0, <1>14, <2>2
      DEF CommitFails, Single, StageInv, Lifters, After, sink, locks, mouse, history, Goto, ReleaseFor
    <2> QED BY <1>14, <2>1, <2>2 DEF Commit, CommitFails
  <1>15. ASSUME NEW a \in Appliers, Raise(a) PROVE Single'
    BY <1>0, <1>15
    DEF Single, StageInv, Lifters, After, Raise, Leave, Leaves, Acknowledgements, Goto
  <1>16. ASSUME NEW a \in Appliers, KeyPress(a) PROVE Single'
    <2>1. KeyPressEffect(a)
      BY <1>16, KeyPressHas
    <2> QED BY <1>0, <2>1
      DEF Single, StageInv, Lifters, After, KeyPressEffect, locks, history, Goto, ReleaseFor
  <1>17. ASSUME NEW a \in Appliers, KeyEnds(a) PROVE Single'
    BY <1>0, <1>17 DEF Single, StageInv, Lifters, After, KeyEnds, Leave, Goto
  <1>18. ASSUME NEW r \in Releasers, ReleaseAll(r) PROVE Single'
    BY <1>0, <1>18
    DEF Single, StageInv, Lifters, After, ReleaseAll, sink, locks, mouse, history, Goto,
        ReleaseFor
  <1>19. ASSUME NEW r \in Releasers, Close(r) PROVE Single'
    BY <1>0, <1>19
    DEF Single, StageInv, Lifters, After, Close, locks, mouse, history, Goto, ReleaseFor
  <1>20. ASSUME NEW t \in Threads, Claim(t) PROVE Single'
    BY <1>0, <1>20
    DEF Single, StageInv, Lifters, After, Claim, ClaimWhen, Revokes, Target, locks, mouse,
        history, Goto
  <1>21. ASSUME NEW t \in Threads, Up(t) PROVE Single'
    BY <1>0, <1>21
    DEF Single, StageInv, Lifters, After, Up, Leaves, Acknowledgements, sink, locks, Goto
  <1>22. ASSUME NEW t \in Threads, AfterRelease(t) PROVE Single'
    <2>1. CASE why[t] = "keyboard"
      BY <1>0, <1>22, <2>1
      DEF Single, StageInv, Lifters, After, AfterRelease, NextStage, mouse, history, Goto,
          ReleaseFor
    <2>2. CASE why[t] \in Buttons
      BY <1>0, <1>22, <2>2
      DEF Single, StageInv, Lifters, After, AfterRelease, NextStage, mouse, history, Goto,
          ReleaseFor
    <2>3. CASE why[t] = "return"
      BY <1>0, <1>22, <2>3
      DEF Single, StageInv, Lifters, After, AfterRelease, NextStage, mouse, history, Goto,
          ReleaseFor
    <2>4. CASE why[t] = "unwind"
      BY <1>0, <1>22, <2>4
      DEF Single, StageInv, Lifters, After, AfterRelease, NextStage, mouse, history, Goto,
          ReleaseFor
    <2>5. CASE why[t] = "cleanup"
      BY <1>0, <1>22, <2>5
      DEF Single, StageInv, Lifters, After, AfterRelease, NextStage, mouse, history, Goto,
          ReleaseFor
    <2> QED BY <1>0, <1>22, <2>1, <2>2, <2>3, <2>4, <2>5 DEF AfterRelease
  <1>23. CASE UNCHANGED vars
    BY <1>0, <1>23
    DEF vars, Single, StageInv, Lifters, After, sink, local, locks, mouse, history
  <1> QED BY <1>1, <1>2, <1>3, <1>4, <1>5, <1>6, <1>7, <1>8, <1>9, <1>10, <1>11, <1>12, <1>13,
       <1>14, <1>15, <1>16, <1>17, <1>18, <1>19, <1>20, <1>21, <1>22, <1>23
    DEF Next, ApplyStep, ReleaseStep

LEMMA TypesStep == StageInv /\ Types /\ [Next]_vars => Types'
  <1> SUFFICES ASSUME StageInv, Types, [Next]_vars PROVE Types'
    OBVIOUS
  <1>0. /\ pc \in [Threads -> Pcs] /\ why \in [Threads -> Inputs \cup {"return", "unwind", "cleanup"}]
        /\ kind \in [Threads -> Kinds \cup {"turn", "release", "close"}]
        /\ lifting \in [Threads -> Inputs \cup {NoOne}]
        /\ placed \in [Threads -> BOOLEAN]
        /\ \A r \in Releasers : r \notin Appliers
        /\ NoOne \notin Inputs /\ NoOne \notin Appliers
        /\ Kinds \subseteq {"turn", "interact", "select", "key"}
        /\ Appliers \subseteq Threads /\ Releasers \subseteq Threads
        /\ gen \in Nat /\ activeGen \in Nat \cup {NoOne}
        /\ owned \subseteq Inputs /\ down \subseteq Inputs /\ closed \subseteq {"mouse", "keyboard"}
    BY Outside DEF Types, Threads
  <1>1. ASSUME NEW a \in Appliers, Begin(a) PROVE Types'
    BY <1>0, <1>1 DEF Types, StageInv, Lifters, Pcs, Inputs, Buttons, Begin, Free, mouse, Goto
  <1>2. ASSUME NEW a \in Appliers, KeyBegin(a) PROVE Types'
    BY <1>0, <1>2
    DEF Types, StageInv, Lifters, Pcs, Inputs, Buttons, KeyBegin, Free, locks, mouse, Goto
  <1>3. ASSUME NEW a \in Appliers, Validate(a) PROVE Types'
    BY ZenonT(60), <1>0, <1>3
    DEF Types, StageInv, Lifters, Pcs, Inputs, Buttons, Validate, Unrevoked, sink, locks, mouse,
        history, Goto, ReleaseFor
  <1>4. ASSUME NEW a \in Appliers, Submit(a) PROVE Types'
    BY <1>0, <1>4
    DEF Types, StageInv, Lifters, Pcs, Inputs, Buttons, Submit, Unrevoked, sink, mouse, history,
        Goto, ReleaseFor
  <1>5. ASSUME NEW a \in Appliers, Press(a) PROVE Types'
    BY <1>0, <1>5
    DEF Types, StageInv, Lifters, Pcs, Inputs, Buttons, ButtonOf, Press, Leaves,
        Acknowledgements, mouse, history, Goto, ReleaseFor
  <1>6. ASSUME NEW a \in Appliers, Pressed(a) PROVE Types'
    BY <1>0, <1>6
    DEF Types, StageInv, Lifters, Pcs, Inputs, Buttons, Pressed, Check, Unrevoked, sink, locks,
        mouse, history, Goto, ReleaseFor
  <1>7. ASSUME NEW a \in Appliers, Excursion(a) PROVE Types'
    <2>1. ExcursionEffect(a)
      BY <1>7, ExcursionHas
    <2> QED BY <1>0, <2>1
      DEF Types, StageInv, Lifters, Pcs, Inputs, Buttons, ExcursionEffect, OnlyDrag, Unrevoked,
          sink, mouse, history, Goto, ReleaseFor
  <1>8. ASSUME NEW a \in Appliers, Pause(a) PROVE Types'
    BY <1>0, <1>8
    DEF Types, StageInv, Lifters, Pcs, Inputs, Buttons, Pause, Dragged, OnlyDrag, Unrevoked,
        sink, mouse, history, Goto, ReleaseFor
  <1>9. ASSUME NEW a \in Appliers, Back(a) PROVE Types'
    BY <1>0, <1>9
    DEF Types, StageInv, Lifters, Pcs, Inputs, Buttons, Back, Dragged, OnlyDrag, Leaves,
        Acknowledgements, sink, mouse, history, Goto, ReleaseFor
  <1>10. ASSUME NEW a \in Appliers, Across(a) PROVE Types'
    BY <1>0, <1>10
    DEF Types, StageInv, Lifters, Pcs, Inputs, Buttons, Across, Dragged, OnlyDrag, Leaves,
        Acknowledgements, sink, mouse, history, Goto, ReleaseFor
  <1>11. ASSUME NEW a \in Appliers, Hold(a) PROVE Types'
    BY <1>0, <1>11
    DEF Types, StageInv, Lifters, Pcs, Inputs, Buttons, Hold, Unrevoked, sink, locks, mouse,
        history, Goto, ReleaseFor
  <1>12. ASSUME NEW a \in Appliers, SettleUp(a) PROVE Types'
    BY <1>0, <1>12
    DEF Types, StageInv, Lifters, Pcs, Inputs, Buttons, SettleUp, Check, Unrevoked, sink, locks,
        mouse, history, Goto, ReleaseFor
  <1>13. ASSUME NEW a \in Appliers, PutBack(a) PROVE Types'
    BY <1>0, <1>13
    DEF Types, StageInv, Lifters, Pcs, Inputs, Buttons, PutBack, Leaves, Acknowledgements, sink,
        locks, mouse, history, Goto, ReleaseFor
  <1>14. ASSUME NEW a \in Appliers, Commit(a) PROVE Types'
    <2>1. CASE Leave(a)
      BY <1>0, <1>14, <2>1
      DEF Types, StageInv, Lifters, Pcs, Inputs, Buttons, Commit, Leave, sink, locks, mouse,
          history, Goto, ReleaseFor
    <2>2. CASE CommitFails(a)
      BY <1>0, <1>14, <2>2
      DEF CommitFails, Types, StageInv, Lifters, Pcs, Inputs, Buttons, sink, locks, mouse, history, Goto,
          ReleaseFor
    <2> QED BY <1>14, <2>1, <2>2 DEF Commit, CommitFails
  <1>15. ASSUME NEW a \in Appliers, Raise(a) PROVE Types'
    BY <1>0, <1>15
    DEF Types, StageInv, Lifters, Pcs, Inputs, Buttons, Raise, Leave, Leaves, Acknowledgements,
        mouse, Goto
  <1>16. ASSUME NEW a \in Appliers, KeyPress(a) PROVE Types'
    <2>1. KeyPressEffect(a)
      BY <1>16, KeyPressHas
    <2>2. /\ owned' \subseteq Inputs /\ down' \subseteq Inputs
      BY <1>0, <2>1 DEF KeyPressEffect, Inputs
    <2>3. pc' \in [Threads -> Pcs] /\ why' \in [Threads -> Inputs \cup {"return", "unwind", "cleanup"}]
      BY <1>0, <2>1 DEF KeyPressEffect, ReleaseFor, Goto, Pcs
    <2> QED BY <1>0, <2>1, <2>2, <2>3 DEF Types, KeyPressEffect
  <1>17. ASSUME NEW a \in Appliers, KeyEnds(a) PROVE Types'
    BY <1>0, <1>17
    DEF Types, StageInv, Lifters, Pcs, Inputs, Buttons, KeyEnds, Leave, mouse, Goto
  <1>18. ASSUME NEW r \in Releasers, ReleaseAll(r) PROVE Types'
    BY <1>0, <1>18
    DEF Types, StageInv, Lifters, Pcs, Inputs, Buttons, ReleaseAll, sink, locks, mouse, history,
        Goto, ReleaseFor
  <1>19. ASSUME NEW r \in Releasers, Close(r) PROVE Types'
    BY <1>0, <1>19
    DEF Types, StageInv, Lifters, Pcs, Inputs, Buttons, Close, locks, mouse, history, Goto,
        ReleaseFor
  <1>20. ASSUME NEW t \in Threads, Claim(t) PROVE Types'
    <2>1. Target(t) \in Inputs
      BY <1>0 DEF Target, Inputs, Buttons, ButtonOf
    <2>2. /\ owned' \subseteq Inputs /\ down' \subseteq Inputs
          /\ closed' \subseteq {"mouse", "keyboard"} /\ gen' \in Nat /\ activeGen' \in Nat \cup {NoOne}
      BY <1>0, <1>20 DEF Claim, ClaimWhen, mouse
    <2>3. /\ pc' \in [Threads -> Pcs]
          /\ lifting' \in [Threads -> Inputs \cup {NoOne}]
      BY <1>0, <1>20, <2>1 DEF Claim, ClaimWhen, Goto, Pcs
    <2> QED BY <1>0, <1>20, <2>2, <2>3 DEF Types, Claim, ClaimWhen
  <1>21. ASSUME NEW t \in Threads, Up(t) PROVE Types'
    BY <1>0, <1>21
    DEF Types, StageInv, Lifters, Pcs, Inputs, Buttons, Up, Leaves, Acknowledgements, sink,
        locks, mouse, Goto
  <1>22. ASSUME NEW t \in Threads, AfterRelease(t) PROVE Types'
    <2>1. CASE why[t] = "keyboard"
      BY ZenonT(60), <1>0, <1>22, <2>1
      DEF Types, StageInv, Lifters, Pcs, Inputs, Buttons, AfterRelease, NextStage, mouse,
          history, Goto, ReleaseFor
    <2>2. CASE why[t] \in Buttons
      BY ZenonT(60), <1>0, <1>22, <2>2
      DEF Types, StageInv, Lifters, Pcs, Inputs, Buttons, AfterRelease, NextStage, mouse,
          history, Goto, ReleaseFor
    <2>3. CASE why[t] = "return"
      BY ZenonT(60), <1>0, <1>22, <2>3
      DEF Types, StageInv, Lifters, Pcs, Inputs, Buttons, AfterRelease, NextStage, mouse,
          history, Goto, ReleaseFor
    <2>4. CASE why[t] = "unwind"
      BY ZenonT(60), <1>0, <1>22, <2>4
      DEF Types, StageInv, Lifters, Pcs, Inputs, Buttons, AfterRelease, NextStage, mouse,
          history, Goto, ReleaseFor
    <2>5. CASE why[t] = "cleanup"
      BY ZenonT(60), <1>0, <1>22, <2>5
      DEF Types, StageInv, Lifters, Pcs, Inputs, Buttons, AfterRelease, NextStage, mouse,
          history, Goto, ReleaseFor
    <2> QED BY <1>0, <1>22, <2>1, <2>2, <2>3, <2>4, <2>5 DEF AfterRelease
  <1>23. CASE UNCHANGED vars
    BY <1>0, <1>23
    DEF vars, Types, StageInv, Lifters, Pcs, Inputs, Buttons, sink, local, locks, mouse, history
  <1> QED BY <1>1, <1>2, <1>3, <1>4, <1>5, <1>6, <1>7, <1>8, <1>9, <1>10, <1>11, <1>12, <1>13,
       <1>14, <1>15, <1>16, <1>17, <1>18, <1>19, <1>20, <1>21, <1>22, <1>23
    DEF Next, ApplyStep, ReleaseStep

LEMMA LockStep == Types /\ StageInv /\ Single /\ LockInv /\ [Next]_vars => LockInv'
  <1> SUFFICES ASSUME Types, StageInv, Single, LockInv, [Next]_vars PROVE LockInv'
    OBVIOUS
  <1>0. /\ pc \in [Threads -> Pcs] /\ why \in [Threads -> Inputs \cup {"return", "unwind", "cleanup"}]
        /\ kind \in [Threads -> Kinds \cup {"turn", "release", "close"}]
        /\ lifting \in [Threads -> Inputs \cup {NoOne}]
        /\ placed \in [Threads -> BOOLEAN]
        /\ \A r \in Releasers : r \notin Appliers
        /\ NoOne \notin Inputs /\ NoOne \notin Appliers
        /\ Kinds \subseteq {"turn", "interact", "select", "key"}
        /\ Appliers \subseteq Threads /\ Releasers \subseteq Threads
    BY Outside DEF Types, Threads
  <1>1. ASSUME NEW a \in Appliers, Begin(a) PROVE LockInv'
    BY <1>0, <1>1
    DEF LockInv, Submitting, Unwinding, StageInv, Lifters, After, Inputs, Buttons, Single,
        Begin, Free, mouse, Goto
  <1>2. ASSUME NEW a \in Appliers, KeyBegin(a) PROVE LockInv'
    BY <1>0, <1>2
    DEF LockInv, Submitting, Unwinding, StageInv, Lifters, After, Inputs, Buttons, Single,
        KeyBegin, Free, locks, mouse, Goto
  <1>3. ASSUME NEW a \in Appliers, Validate(a) PROVE LockInv'
    BY <1>0, <1>3
    DEF LockInv, Submitting, Unwinding, StageInv, Lifters, After, Inputs, Buttons, Single,
        Validate, Unrevoked, sink, locks, mouse, history, Goto, ReleaseFor
  <1>4. ASSUME NEW a \in Appliers, Submit(a) PROVE LockInv'
    BY <1>0, <1>4
    DEF LockInv, Submitting, Unwinding, StageInv, Lifters, After, Inputs, Buttons, Single,
        Submit, Unrevoked, sink, mouse, history, Goto, ReleaseFor
  <1>5. ASSUME NEW a \in Appliers, Press(a) PROVE LockInv'
    BY <1>0, <1>5
    DEF LockInv, Submitting, Unwinding, StageInv, Lifters, After, Inputs, Buttons, Single,
        Press, Leaves, Acknowledgements, history, Goto, ReleaseFor
  <1>6. ASSUME NEW a \in Appliers, Pressed(a) PROVE LockInv'
    BY <1>0, <1>6
    DEF LockInv, Submitting, Unwinding, StageInv, Lifters, After, Inputs, Buttons, Single,
        Pressed, Check, Unrevoked, sink, locks, mouse, history, Goto, ReleaseFor
  <1>7. ASSUME NEW a \in Appliers, Excursion(a) PROVE LockInv'
    <2>1. ExcursionEffect(a)
      BY <1>7, ExcursionHas
    <2> QED BY <1>0, <2>1
      DEF LockInv, Submitting, Unwinding, StageInv, Lifters, After, Inputs, Buttons, Single,
          ExcursionEffect, OnlyDrag, Unrevoked, sink, mouse, history, Goto, ReleaseFor
  <1>8. ASSUME NEW a \in Appliers, Pause(a) PROVE LockInv'
    BY <1>0, <1>8
    DEF LockInv, Submitting, Unwinding, StageInv, Lifters, After, Inputs, Buttons, Single,
        Pause, Dragged, OnlyDrag, Unrevoked, sink, mouse, history, Goto, ReleaseFor
  <1>9. ASSUME NEW a \in Appliers, Back(a) PROVE LockInv'
    BY <1>0, <1>9
    DEF LockInv, Submitting, Unwinding, StageInv, Lifters, After, Inputs, Buttons, Single, Back,
        Dragged, OnlyDrag, Leaves, Acknowledgements, sink, history, Goto, ReleaseFor
  <1>10. ASSUME NEW a \in Appliers, Across(a) PROVE LockInv'
    BY <1>0, <1>10
    DEF LockInv, Submitting, Unwinding, StageInv, Lifters, After, Inputs, Buttons, Single,
        Across, Dragged, OnlyDrag, Leaves, Acknowledgements, sink, history, Goto, ReleaseFor
  <1>11. ASSUME NEW a \in Appliers, Hold(a) PROVE LockInv'
    BY <1>0, <1>11
    DEF LockInv, Submitting, Unwinding, StageInv, Lifters, After, Inputs, Buttons, Single, Hold,
        Unrevoked, sink, locks, mouse, history, Goto, ReleaseFor
  <1>12. ASSUME NEW a \in Appliers, SettleUp(a) PROVE LockInv'
    BY <1>0, <1>12
    DEF LockInv, Submitting, Unwinding, StageInv, Lifters, After, Inputs, Buttons, Single,
        SettleUp, Check, Unrevoked, sink, locks, mouse, history, Goto, ReleaseFor
  <1>13. ASSUME NEW a \in Appliers, PutBack(a) PROVE LockInv'
    BY <1>0, <1>13
    DEF LockInv, Submitting, Unwinding, StageInv, Lifters, After, Inputs, Buttons, Single,
        PutBack, Leaves, Acknowledgements, sink, locks, history, Goto, ReleaseFor
  <1>14. ASSUME NEW a \in Appliers, Commit(a) PROVE LockInv'
    <2>1. CASE Leave(a)
      BY <1>0, <1>14, <2>1
      DEF LockInv, Submitting, Unwinding, StageInv, Lifters, After, Inputs, Buttons, Single,
          Commit, Leave, sink, locks, mouse, history, Goto, ReleaseFor
    <2>2. CASE CommitFails(a)
      BY <1>0, <1>14, <2>2
      DEF CommitFails, LockInv, Submitting, Unwinding, StageInv, Lifters, After, Inputs, Buttons, Single,
          sink, locks, mouse, history, Goto, ReleaseFor
    <2> QED BY <1>14, <2>1, <2>2 DEF Commit, CommitFails
  <1>15. ASSUME NEW a \in Appliers, Raise(a) PROVE LockInv'
    BY <1>0, <1>15
    DEF LockInv, Submitting, Unwinding, StageInv, Lifters, After, Inputs, Buttons, Single,
        Raise, Leave, Leaves, Acknowledgements, Goto
  <1>16. ASSUME NEW a \in Appliers, KeyPress(a) PROVE LockInv'
    <2>1. KeyPressEffect(a)
      BY <1>16, KeyPressHas
    <2> QED BY <1>0, <2>1
      DEF LockInv, Submitting, Unwinding, StageInv, Lifters, After, Inputs, Buttons, Single,
          KeyPressEffect, locks, history, Goto, ReleaseFor
  <1>17. ASSUME NEW a \in Appliers, KeyEnds(a) PROVE LockInv'
    BY <1>0, <1>17
    DEF LockInv, Submitting, Unwinding, StageInv, Lifters, After, Inputs, Buttons, Single,
        KeyEnds, Leave, Goto
  <1>18. ASSUME NEW r \in Releasers, ReleaseAll(r) PROVE LockInv'
    BY <1>0, <1>18
    DEF LockInv, Submitting, Unwinding, StageInv, Lifters, After, Inputs, Buttons, Single,
        ReleaseAll, sink, locks, mouse, history, Goto, ReleaseFor
  <1>19. ASSUME NEW r \in Releasers, Close(r) PROVE LockInv'
    BY <1>0, <1>19
    DEF LockInv, Submitting, Unwinding, StageInv, Lifters, After, Inputs, Buttons, Single,
        Close, locks, mouse, history, Goto, ReleaseFor
  <1>20. ASSUME NEW t \in Threads, Claim(t) PROVE LockInv'
    BY <1>0, <1>20
    DEF LockInv, Submitting, Unwinding, StageInv, Lifters, After, Inputs, Buttons, Single,
        Claim, ClaimWhen, Revokes, Target, locks, mouse, history, Goto
  <1>21. ASSUME NEW t \in Threads, Up(t) PROVE LockInv'
    BY <1>0, <1>21
    DEF LockInv, Submitting, Unwinding, StageInv, Lifters, After, Inputs, Buttons, Single, Up,
        Leaves, Acknowledgements, sink, locks, Goto
  <1>22. ASSUME NEW t \in Threads, AfterRelease(t) PROVE LockInv'
    <2>1. CASE why[t] = "keyboard"
      BY <1>0, <1>22, <2>1
      DEF LockInv, Submitting, Unwinding, StageInv, Lifters, After, Inputs, Buttons, Single,
          AfterRelease, NextStage, mouse, history, Goto, ReleaseFor
    <2>2. CASE why[t] \in Buttons
      BY <1>0, <1>22, <2>2
      DEF LockInv, Submitting, Unwinding, StageInv, Lifters, After, Inputs, Buttons, Single,
          AfterRelease, NextStage, mouse, history, Goto, ReleaseFor
    <2>3. CASE why[t] = "return"
      BY <1>0, <1>22, <2>3
      DEF LockInv, Submitting, Unwinding, StageInv, Lifters, After, Inputs, Buttons, Single,
          AfterRelease, NextStage, mouse, history, Goto, ReleaseFor
    <2>4. CASE why[t] = "unwind"
      <3>1. t \in Appliers /\ pc[t] \in {"released", "refused"}
        BY <1>0, <1>22, <2>4 DEF AfterRelease, StageInv, Threads, Inputs, Buttons
      <3>2. subLock = t /\ subLock' = NoOne
        BY <1>22, <2>4, <3>1 DEF AfterRelease, LockInv, Submitting, Unwinding, Lifters
      <3>3. ReleaseFor(t, "cleanup") /\ UNCHANGED <<applyLock, activeGen, kind>>
        BY <1>22, <2>4 DEF AfterRelease, Inputs, Buttons
      <3> QED BY <1>0, <1>22, <2>4, <3>1, <3>2, <3>3
        DEF LockInv, Submitting, Unwinding, StageInv, Lifters, After, Inputs, Buttons, Single,
            AfterRelease, NextStage, mouse, history, Goto, ReleaseFor
    <2>5. CASE why[t] = "cleanup"
      BY <1>0, <1>22, <2>5
      DEF LockInv, Submitting, Unwinding, StageInv, Lifters, After, Inputs, Buttons, Single,
          AfterRelease, NextStage, sink, local, locks, mouse, history, Goto, ReleaseFor
    <2> QED BY <1>0, <1>22, <2>1, <2>2, <2>3, <2>4, <2>5 DEF AfterRelease
  <1>23. CASE UNCHANGED vars
    BY <1>0, <1>23
    DEF vars, LockInv, Submitting, Unwinding, StageInv, Lifters, After, Inputs, Buttons, Single,
        sink, local, locks, mouse, history
  <1> QED BY <1>1, <1>2, <1>3, <1>4, <1>5, <1>6, <1>7, <1>8, <1>9, <1>10, <1>11, <1>12, <1>13,
       <1>14, <1>15, <1>16, <1>17, <1>18, <1>19, <1>20, <1>21, <1>22, <1>23
    DEF Next, ApplyStep, ReleaseStep

LEMMA FlagsStep == Types /\ StageInv /\ Flags /\ [Next]_vars => Flags'
  <1> SUFFICES ASSUME Types, StageInv, Flags, [Next]_vars PROVE Flags'
    OBVIOUS
  <1>0. /\ pc \in [Threads -> Pcs] /\ why \in [Threads -> Inputs \cup {"return", "unwind", "cleanup"}]
        /\ kind \in [Threads -> Kinds \cup {"turn", "release", "close"}]
        /\ lifting \in [Threads -> Inputs \cup {NoOne}]
        /\ placed \in [Threads -> BOOLEAN]
        /\ \A r \in Releasers : r \notin Appliers
        /\ NoOne \notin Inputs /\ NoOne \notin Appliers
        /\ Kinds \subseteq {"turn", "interact", "select", "key"}
        /\ Appliers \subseteq Threads /\ Releasers \subseteq Threads
    BY Outside DEF Types, Threads
  <1>1. ASSUME NEW a \in Appliers, Begin(a) PROVE Flags'
    <2>1. stale' = (\E t \in Threads : lifting[t] # NoOne)
      BY <1>1 DEF Begin
    <2>2. stale' \in BOOLEAN
      BY <2>1, SMT
    <2>3. pitch' \in Int
      BY <1>1 DEF Begin
    <2> QED BY <2>2, <2>3, <1>1 DEF Flags, Begin
  <1>2. ASSUME NEW a \in Appliers, KeyBegin(a) PROVE Flags'
    BY <1>0, <1>2 DEF Flags, Threads, KeyBegin, Free, locks, mouse, Goto
  <1>3. ASSUME NEW a \in Appliers, Validate(a) PROVE Flags'
    BY <1>0, <1>3
    DEF Flags, Threads, Validate, Unrevoked, sink, locks, mouse, history, Goto, ReleaseFor
  <1>4. ASSUME NEW a \in Appliers, Submit(a) PROVE Flags'
    BY <1>0, <1>4 DEF Flags, Threads, Submit, Unrevoked, sink, mouse, history, Goto, ReleaseFor
  <1>5. ASSUME NEW a \in Appliers, Press(a) PROVE Flags'
    BY <1>0, <1>5 DEF Flags, Threads, Press, Leaves, Acknowledgements, history, Goto, ReleaseFor
  <1>6. ASSUME NEW a \in Appliers, Pressed(a) PROVE Flags'
    BY <1>0, <1>6
    DEF Flags, Threads, Pressed, Check, Unrevoked, sink, locks, mouse, history, Goto, ReleaseFor
  <1>7. ASSUME NEW a \in Appliers, Excursion(a) PROVE Flags'
    <2>1. PICK ack \in BOOLEAN : UNCHANGED pitch \/ pitch' \in Leaves(ack, pitch + 1, pitch)
      BY <1>7 DEF Excursion, Acknowledgements
    <2>2. pitch' \in Int
      BY <2>1 DEF Flags, Leaves
    <2>3. ExcursionEffect(a)
      BY <1>7, ExcursionHas
    <2> QED BY <1>0, <2>2, <2>3 DEF Flags, ExcursionEffect, OnlyDrag, sink, history
  <1>8. ASSUME NEW a \in Appliers, Pause(a) PROVE Flags'
    BY <1>0, <1>8
    DEF Flags, Threads, Pause, Dragged, OnlyDrag, Unrevoked, sink, mouse, history, Goto,
        ReleaseFor
  <1>9. ASSUME NEW a \in Appliers, Back(a) PROVE Flags'
    BY <1>0, <1>9
    DEF Flags, Threads, Back, Dragged, OnlyDrag, Leaves, Acknowledgements, sink, history, Goto,
        ReleaseFor
  <1>10. ASSUME NEW a \in Appliers, Across(a) PROVE Flags'
    <2>1. PICK ack \in BOOLEAN : turned' \in Leaves(ack, "turnMode" \in down, turned) /\ Dragged(a, ack, "moved")
      BY <1>10 DEF Across, Acknowledgements
    <2>2. turned' \in BOOLEAN
      <3>1. ("turnMode" \in down) \in BOOLEAN
        BY SMT
      <3>2. turned' = ("turnMode" \in down) \/ turned' = turned
        BY <2>1 DEF Leaves
      <3> QED BY <3>1, <3>2 DEF Flags
    <2>3. subLock' \in Appliers \cup {NoOne}
      BY <2>1 DEF Dragged
    <2> QED BY <1>0, <2>2, <2>3, <1>10 DEF Flags, Across, OnlyDrag, sink, history
  <1>11. ASSUME NEW a \in Appliers, Hold(a) PROVE Flags'
    BY <1>0, <1>11
    DEF Flags, Threads, Hold, Unrevoked, sink, locks, mouse, history, Goto, ReleaseFor
  <1>12. ASSUME NEW a \in Appliers, SettleUp(a) PROVE Flags'
    BY <1>0, <1>12
    DEF Flags, Threads, SettleUp, Check, Unrevoked, sink, locks, mouse, history, Goto,
        ReleaseFor
  <1>13. ASSUME NEW a \in Appliers, PutBack(a) PROVE Flags'
    BY <1>0, <1>13
    DEF Flags, Threads, PutBack, Leaves, Acknowledgements, sink, locks, history, Goto,
        ReleaseFor
  <1>14. ASSUME NEW a \in Appliers, Commit(a) PROVE Flags'
    BY <1>0, <1>14
    DEF Flags, Threads, Commit, Leave, Unrevoked, sink, locks, mouse, history, Goto, ReleaseFor
  <1>15. ASSUME NEW a \in Appliers, Raise(a) PROVE Flags'
    BY <1>0, <1>15 DEF Flags, Threads, Raise, Leave, Leaves, Acknowledgements, Goto
  <1>16. ASSUME NEW a \in Appliers, KeyPress(a) PROVE Flags'
    BY <1>0, <1>16
    DEF Flags, Threads, KeyPress, Leaves, Acknowledgements, locks, history, Goto, ReleaseFor
  <1>17. ASSUME NEW a \in Appliers, KeyEnds(a) PROVE Flags'
    BY <1>0, <1>17 DEF Flags, Threads, KeyEnds, Leave, Goto
  <1>18. ASSUME NEW r \in Releasers, ReleaseAll(r) PROVE Flags'
    BY <1>0, <1>18 DEF Flags, Threads, ReleaseAll, sink, locks, mouse, history, Goto, ReleaseFor
  <1>19. ASSUME NEW r \in Releasers, Close(r) PROVE Flags'
    BY <1>0, <1>19 DEF Flags, Threads, Close, locks, mouse, history, Goto, ReleaseFor
  <1>20. ASSUME NEW t \in Threads, Claim(t) PROVE Flags'
    BY <1>0, <1>20
    DEF Flags, Threads, Claim, ClaimWhen, Revokes, Target, locks, mouse, history, Goto
  <1>21. ASSUME NEW t \in Threads, Up(t) PROVE Flags'
    <2>1. PICK ack \in BOOLEAN : down' \in Leaves(ack, down \ {lifting[t]}, down)
      BY <1>21 DEF Up, Acknowledgements
    <2>2. down' \subseteq Inputs
      BY <2>1 DEF Leaves, Types
    <2>3. stuck' = (stuck \ {lifting[t]}) \cup (down' \cap {lifting[t]})
      BY <1>21 DEF Up
    <2>4. stuck' \subseteq Inputs
      BY <2>2, <2>3 DEF Flags
    <2> QED BY <1>0, <2>4, <1>21 DEF Flags, Threads, Up, Leaves, Acknowledgements, sink, locks, Goto
  <1>22. ASSUME NEW t \in Threads, AfterRelease(t) PROVE Flags'
    BY <1>0, <1>22 DEF Flags, Threads, AfterRelease, NextStage, mouse, history, Goto, ReleaseFor
  <1>23. CASE UNCHANGED vars
    BY <1>0, <1>23 DEF vars, Flags, Threads, sink, local, locks, mouse, history
  <1> QED BY <1>1, <1>2, <1>3, <1>4, <1>5, <1>6, <1>7, <1>8, <1>9, <1>10, <1>11, <1>12, <1>13,
       <1>14, <1>15, <1>16, <1>17, <1>18, <1>19, <1>20, <1>21, <1>22, <1>23
    DEF Next, ApplyStep, ReleaseStep

LEMMA CoreHolds == Spec => [](Types /\ LockInv /\ StageInv /\ Single /\ Flags)
  <1>1. Init => Single /\ Flags
    <2>1. Init => Single
      BY DEF Init, Single, Threads
    <2>2. Init => Flags
      <3>1. Init => /\ applyLock = NoOne /\ subLock = NoOne /\ keyLive = FALSE
                    /\ cursor = TRUE /\ turned = FALSE /\ stale = FALSE
                    /\ unlifted = FALSE /\ unrestored = FALSE /\ stuck = {}
        BY DEF Init
      <3>2. Init => pitch \in Int
        BY DEF Init
      <3> QED BY <3>1, <3>2 DEF Flags
    <2> QED BY <2>1, <2>2
  <1>2. (Types /\ LockInv /\ StageInv /\ Single /\ Flags) /\ [Next]_vars =>
          (Types /\ LockInv /\ StageInv /\ Single /\ Flags)'
    BY TypesStep, LockStep, StageStep, SingleStep, FlagsStep
  <1> QED BY StageInit, <1>1, <1>2, PTL DEF Spec

\* Type correctness, with where the locks are held and who is registered.
THEOREM MouseTypeCorrect == Spec => []TypeOK
  BY CoreHolds, TypeParts, PTL

-----------------------------------------------------------------------------
(* The cursor, and what is owned.                                          *)

LEMMA CursorStep == Types /\ StageInv /\ CursorInv /\ [Next]_vars => CursorInv'
  <1> SUFFICES ASSUME Types, StageInv, CursorInv, [Next]_vars PROVE CursorInv'
    OBVIOUS
  <1>0. /\ pc \in [Threads -> Pcs] /\ why \in [Threads -> Inputs \cup {"return", "unwind", "cleanup"}]
        /\ kind \in [Threads -> Kinds \cup {"turn", "release", "close"}]
        /\ lifting \in [Threads -> Inputs \cup {NoOne}]
        /\ placed \in [Threads -> BOOLEAN]
        /\ \A r \in Releasers : r \notin Appliers
        /\ NoOne \notin Inputs /\ NoOne \notin Appliers
        /\ Kinds \subseteq {"turn", "interact", "select", "key"}
        /\ Appliers \subseteq Threads /\ Releasers \subseteq Threads
    BY Outside DEF Types, Threads
  <1>1. ASSUME NEW a \in Appliers, Begin(a) PROVE CursorInv'
    BY <1>0, <1>1 DEF CursorInv, StageInv, Lifters, After, Begin, Free, mouse, Goto
  <1>2. ASSUME NEW a \in Appliers, KeyBegin(a) PROVE CursorInv'
    BY <1>0, <1>2 DEF CursorInv, StageInv, Lifters, After, KeyBegin, Free, locks, mouse, Goto
  <1>3. ASSUME NEW a \in Appliers, Validate(a) PROVE CursorInv'
    BY <1>0, <1>3
    DEF CursorInv, StageInv, Lifters, After, Validate, Unrevoked, sink, locks, mouse, history,
        Goto, ReleaseFor
  <1>4. ASSUME NEW a \in Appliers, Submit(a) PROVE CursorInv'
    BY <1>0, <1>4
    DEF CursorInv, StageInv, Lifters, After, Submit, Unrevoked, sink, mouse, history, Goto,
        ReleaseFor
  <1>5. ASSUME NEW a \in Appliers, Press(a) PROVE CursorInv'
    BY <1>0, <1>5
    DEF CursorInv, StageInv, Lifters, After, Press, Leaves, Acknowledgements, history, Goto,
        ReleaseFor
  <1>6. ASSUME NEW a \in Appliers, Pressed(a) PROVE CursorInv'
    BY <1>0, <1>6
    DEF CursorInv, StageInv, Lifters, After, Pressed, Check, Unrevoked, sink, locks, mouse,
        history, Goto, ReleaseFor
  <1>7. ASSUME NEW a \in Appliers, Excursion(a) PROVE CursorInv'
    <2>1. ExcursionEffect(a)
      BY <1>7, ExcursionHas
    <2> QED BY <1>0, <2>1
      DEF CursorInv, StageInv, Lifters, After, ExcursionEffect, OnlyDrag, Unrevoked, sink,
          mouse, history, Goto, ReleaseFor
  <1>8. ASSUME NEW a \in Appliers, Pause(a) PROVE CursorInv'
    BY <1>0, <1>8
    DEF CursorInv, StageInv, Lifters, After, Pause, Dragged, OnlyDrag, Unrevoked, sink, mouse,
        history, Goto, ReleaseFor
  <1>9. ASSUME NEW a \in Appliers, Back(a) PROVE CursorInv'
    BY <1>0, <1>9
    DEF CursorInv, StageInv, Lifters, After, Back, Dragged, OnlyDrag, Leaves, Acknowledgements,
        sink, history, Goto, ReleaseFor
  <1>10. ASSUME NEW a \in Appliers, Across(a) PROVE CursorInv'
    BY <1>0, <1>10
    DEF CursorInv, StageInv, Lifters, After, Across, Dragged, OnlyDrag, Leaves,
        Acknowledgements, sink, history, Goto, ReleaseFor
  <1>11. ASSUME NEW a \in Appliers, Hold(a) PROVE CursorInv'
    BY <1>0, <1>11
    DEF CursorInv, StageInv, Lifters, After, Hold, Unrevoked, sink, locks, mouse, history, Goto,
        ReleaseFor
  <1>12. ASSUME NEW a \in Appliers, SettleUp(a) PROVE CursorInv'
    BY <1>0, <1>12
    DEF CursorInv, StageInv, Lifters, After, SettleUp, Check, Unrevoked, sink, locks, mouse,
        history, Goto, ReleaseFor
  <1>13. ASSUME NEW a \in Appliers, PutBack(a) PROVE CursorInv'
    <2>1. PICK ack \in Acknowledgements :
            /\ pc[a] = "putBack" /\ cursor' \in Leaves(ack, TRUE, cursor)
            /\ placed' = [placed EXCEPT ![a] = ~ack]
            /\ IF ack THEN Goto(a, "commit") /\ UNCHANGED why ELSE ReleaseFor(a, "cleanup")
      BY <1>13 DEF PutBack
    <2>2. UNCHANGED <<kind, unrestored>>
      BY <1>13 DEF PutBack, history
    <2>3. CASE ack
      BY ZenonT(60), <1>0, <2>1, <2>2, <2>3 DEF CursorInv, StageInv, Lifters, After, Leaves, Goto
    <2>4. CASE ~ack
      <3>1. placed' = [placed EXCEPT ![a] = TRUE]
        BY <2>1, <2>4, Zenon
      <3>2. pc' = [pc EXCEPT ![a] = "claim"] /\ kind[a] # "key"
        BY <2>1, <2>4 DEF ReleaseFor, Goto, StageInv, Lifters
      <3> QED BY <1>0, <2>2, <3>1, <3>2 DEF CursorInv
    <2> QED BY <2>3, <2>4
  <1>14. ASSUME NEW a \in Appliers, Commit(a) PROVE CursorInv'
    <2>1. CASE Leave(a)
      BY <1>0, <1>14, <2>1
      DEF CursorInv, StageInv, Lifters, After, Commit, Leave, sink, locks, mouse, history, Goto,
          ReleaseFor
    <2>2. CASE CommitFails(a)
      BY <1>0, <1>14, <2>2
      DEF CommitFails, CursorInv, StageInv, Lifters, After, sink, locks, mouse, history, Goto, ReleaseFor
    <2> QED BY <1>14, <2>1, <2>2 DEF Commit, CommitFails
  <1>15. ASSUME NEW a \in Appliers, Raise(a) PROVE CursorInv'
    BY ZenonT(60), <1>0, <1>15
    DEF CursorInv, StageInv, Lifters, After, Raise, Leave, Leaves, Acknowledgements, Goto
  <1>16. ASSUME NEW a \in Appliers, KeyPress(a) PROVE CursorInv'
    <2>1. KeyPressEffect(a)
      BY <1>16, KeyPressHas
    <2> QED BY <1>0, <2>1
      DEF CursorInv, StageInv, Lifters, After, KeyPressEffect, locks, history, Goto, ReleaseFor
  <1>17. ASSUME NEW a \in Appliers, KeyEnds(a) PROVE CursorInv'
    BY <1>0, <1>17 DEF CursorInv, StageInv, Lifters, After, KeyEnds, Leave, Goto
  <1>18. ASSUME NEW r \in Releasers, ReleaseAll(r) PROVE CursorInv'
    BY <1>0, <1>18
    DEF CursorInv, StageInv, Lifters, After, ReleaseAll, sink, locks, mouse, history, Goto,
        ReleaseFor
  <1>19. ASSUME NEW r \in Releasers, Close(r) PROVE CursorInv'
    BY <1>0, <1>19
    DEF CursorInv, StageInv, Lifters, After, Close, locks, mouse, history, Goto, ReleaseFor
  <1>20. ASSUME NEW t \in Threads, Claim(t) PROVE CursorInv'
    BY <1>0, <1>20
    DEF CursorInv, StageInv, Lifters, After, Claim, ClaimWhen, Revokes, Target, locks, mouse,
        history, Goto
  <1>21. ASSUME NEW t \in Threads, Up(t) PROVE CursorInv'
    BY <1>0, <1>21
    DEF CursorInv, StageInv, Lifters, After, Up, Leaves, Acknowledgements, sink, locks, Goto
  <1>22. ASSUME NEW t \in Threads, AfterRelease(t) PROVE CursorInv'
    <2>1. CASE why[t] = "keyboard"
      BY <1>0, <1>22, <2>1
      DEF CursorInv, StageInv, Lifters, After, AfterRelease, NextStage, mouse, history, Goto,
          ReleaseFor
    <2>2. CASE why[t] \in Buttons
      BY <1>0, <1>22, <2>2
      DEF CursorInv, StageInv, Lifters, After, AfterRelease, NextStage, mouse, history, Goto,
          ReleaseFor
    <2>3. CASE why[t] = "return"
      BY <1>0, <1>22, <2>3
      DEF CursorInv, StageInv, Lifters, After, AfterRelease, NextStage, mouse, history, Goto,
          ReleaseFor
    <2>4. CASE why[t] = "unwind"
      BY <1>0, <1>22, <2>4
      DEF CursorInv, StageInv, Lifters, After, AfterRelease, NextStage, mouse, history, Goto,
          ReleaseFor
    <2>5. CASE why[t] = "cleanup"
      BY <1>0, <1>22, <2>5
      DEF CursorInv, StageInv, Lifters, After, AfterRelease, NextStage, mouse, history, Goto,
          ReleaseFor
    <2> QED BY <1>0, <1>22, <2>1, <2>2, <2>3, <2>4, <2>5 DEF AfterRelease
  <1>23. CASE UNCHANGED vars
    BY <1>0, <1>23
    DEF vars, CursorInv, StageInv, Lifters, After, sink, local, locks, mouse, history
  <1> QED BY <1>1, <1>2, <1>3, <1>4, <1>5, <1>6, <1>7, <1>8, <1>9, <1>10, <1>11, <1>12, <1>13,
       <1>14, <1>15, <1>16, <1>17, <1>18, <1>19, <1>20, <1>21, <1>22, <1>23
    DEF Next, ApplyStep, ReleaseStep

LEMMA AccountStep == Types /\ StageInv /\ AccountInv /\ [Next]_vars => AccountInv'
  <1> SUFFICES ASSUME Types, StageInv, AccountInv, [Next]_vars PROVE AccountInv'
    OBVIOUS
  <1>0. /\ pc \in [Threads -> Pcs] /\ why \in [Threads -> Inputs \cup {"return", "unwind", "cleanup"}]
        /\ kind \in [Threads -> Kinds \cup {"turn", "release", "close"}]
        /\ lifting \in [Threads -> Inputs \cup {NoOne}]
        /\ placed \in [Threads -> BOOLEAN]
        /\ \A r \in Releasers : r \notin Appliers
        /\ NoOne \notin Inputs /\ NoOne \notin Appliers
        /\ Kinds \subseteq {"turn", "interact", "select", "key"}
        /\ Appliers \subseteq Threads /\ Releasers \subseteq Threads
    BY Outside DEF Types, Threads
  <1>1. ASSUME NEW a \in Appliers, Begin(a) PROVE AccountInv'
    BY <1>0, <1>1 DEF AccountInv, StageInv, Lifters, After, Begin, Free, mouse, Goto
  <1>2. ASSUME NEW a \in Appliers, KeyBegin(a) PROVE AccountInv'
    BY <1>0, <1>2 DEF AccountInv, StageInv, Lifters, After, KeyBegin, Free, locks, mouse, Goto
  <1>3. ASSUME NEW a \in Appliers, Validate(a) PROVE AccountInv'
    BY <1>0, <1>3
    DEF AccountInv, StageInv, Lifters, After, Validate, Unrevoked, sink, locks, mouse, history,
        Goto, ReleaseFor
  <1>4. ASSUME NEW a \in Appliers, Submit(a) PROVE AccountInv'
    BY <1>0, <1>4
    DEF AccountInv, StageInv, Lifters, After, Submit, Unrevoked, sink, mouse, history, Goto,
        ReleaseFor
  <1>5. ASSUME NEW a \in Appliers, Press(a) PROVE AccountInv'
    BY <1>0, <1>5
    DEF AccountInv, StageInv, Lifters, After, Press, Leaves, Acknowledgements, history, Goto,
        ReleaseFor
  <1>6. ASSUME NEW a \in Appliers, Pressed(a) PROVE AccountInv'
    BY <1>0, <1>6
    DEF AccountInv, StageInv, Lifters, After, Pressed, Check, Unrevoked, sink, locks, mouse,
        history, Goto, ReleaseFor
  <1>7. ASSUME NEW a \in Appliers, Excursion(a) PROVE AccountInv'
    <2>1. ExcursionEffect(a)
      BY <1>7, ExcursionHas
    <2> QED BY <1>0, <2>1
      DEF AccountInv, StageInv, Lifters, After, ExcursionEffect, OnlyDrag, Unrevoked, sink,
          mouse, history, Goto, ReleaseFor
  <1>8. ASSUME NEW a \in Appliers, Pause(a) PROVE AccountInv'
    BY <1>0, <1>8
    DEF AccountInv, StageInv, Lifters, After, Pause, Dragged, OnlyDrag, Unrevoked, sink, mouse,
        history, Goto, ReleaseFor
  <1>9. ASSUME NEW a \in Appliers, Back(a) PROVE AccountInv'
    BY <1>0, <1>9
    DEF AccountInv, StageInv, Lifters, After, Back, Dragged, OnlyDrag, Leaves, Acknowledgements,
        sink, history, Goto, ReleaseFor
  <1>10. ASSUME NEW a \in Appliers, Across(a) PROVE AccountInv'
    BY <1>0, <1>10
    DEF AccountInv, StageInv, Lifters, After, Across, Dragged, OnlyDrag, Leaves,
        Acknowledgements, sink, history, Goto, ReleaseFor
  <1>11. ASSUME NEW a \in Appliers, Hold(a) PROVE AccountInv'
    BY <1>0, <1>11
    DEF AccountInv, StageInv, Lifters, After, Hold, Unrevoked, sink, locks, mouse, history,
        Goto, ReleaseFor
  <1>12. ASSUME NEW a \in Appliers, SettleUp(a) PROVE AccountInv'
    BY <1>0, <1>12
    DEF AccountInv, StageInv, Lifters, After, SettleUp, Check, Unrevoked, sink, locks, mouse,
        history, Goto, ReleaseFor
  <1>13. ASSUME NEW a \in Appliers, PutBack(a) PROVE AccountInv'
    BY <1>0, <1>13
    DEF AccountInv, StageInv, Lifters, After, PutBack, Leaves, Acknowledgements, sink, locks,
        history, Goto, ReleaseFor
  <1>14. ASSUME NEW a \in Appliers, Commit(a) PROVE AccountInv'
    <2>1. CASE Leave(a)
      BY <1>0, <1>14, <2>1
      DEF AccountInv, StageInv, Lifters, After, Commit, Leave, sink, locks, mouse, history,
          Goto, ReleaseFor
    <2>2. CASE CommitFails(a)
      BY <1>0, <1>14, <2>2
      DEF CommitFails, AccountInv, StageInv, Lifters, After, sink, locks, mouse, history, Goto, ReleaseFor
    <2> QED BY <1>14, <2>1, <2>2 DEF Commit, CommitFails
  <1>15. ASSUME NEW a \in Appliers, Raise(a) PROVE AccountInv'
    BY <1>0, <1>15
    DEF AccountInv, StageInv, Lifters, After, Raise, Leave, Leaves, Acknowledgements, Goto
  <1>16. ASSUME NEW a \in Appliers, KeyPress(a) PROVE AccountInv'
    <2>1. KeyPressEffect(a)
      BY <1>16, KeyPressHas
    <2> QED BY <1>0, <2>1
      DEF AccountInv, StageInv, Lifters, After, KeyPressEffect, locks, history, Goto, ReleaseFor
  <1>17. ASSUME NEW a \in Appliers, KeyEnds(a) PROVE AccountInv'
    BY <1>0, <1>17 DEF AccountInv, StageInv, Lifters, After, KeyEnds, Leave, Goto
  <1>18. ASSUME NEW r \in Releasers, ReleaseAll(r) PROVE AccountInv'
    BY <1>0, <1>18
    DEF AccountInv, StageInv, Lifters, After, ReleaseAll, sink, locks, mouse, history, Goto,
        ReleaseFor
  <1>19. ASSUME NEW r \in Releasers, Close(r) PROVE AccountInv'
    BY <1>0, <1>19
    DEF AccountInv, StageInv, Lifters, After, Close, locks, mouse, history, Goto, ReleaseFor
  <1>20. ASSUME NEW t \in Threads, Claim(t) PROVE AccountInv'
    <2>1. lifting[t] = NoOne
      BY <1>0, <1>20 DEF Claim, ClaimWhen, StageInv
    <2>2. down' = down /\ owned' = owned \ {Target(t)}
      BY <1>20 DEF Claim, ClaimWhen, mouse
    <2>3. CASE Target(t) \in owned
      <3>1. lifting' = [lifting EXCEPT ![t] = Target(t)]
        BY <1>20, <2>3 DEF Claim, ClaimWhen
      <3> QED BY <1>0, <2>1, <2>2, <3>1 DEF AccountInv, Types, Inputs, Buttons
    <2>4. CASE Target(t) \notin owned
      BY <1>20, <2>2, <2>4 DEF AccountInv, Claim, ClaimWhen
    <2> QED BY <2>3, <2>4
  <1>21. ASSUME NEW t \in Threads, Up(t) PROVE AccountInv'
    BY <1>0, <1>21
    DEF AccountInv, StageInv, Lifters, After, Up, Leaves, Acknowledgements, sink, locks, Goto
  <1>22. ASSUME NEW t \in Threads, AfterRelease(t) PROVE AccountInv'
    <2>1. CASE why[t] = "keyboard"
      BY <1>0, <1>22, <2>1
      DEF AccountInv, StageInv, Lifters, After, AfterRelease, NextStage, mouse, history, Goto,
          ReleaseFor
    <2>2. CASE why[t] \in Buttons
      BY <1>0, <1>22, <2>2
      DEF AccountInv, StageInv, Lifters, After, AfterRelease, NextStage, mouse, history, Goto,
          ReleaseFor
    <2>3. CASE why[t] = "return"
      BY <1>0, <1>22, <2>3
      DEF AccountInv, StageInv, Lifters, After, AfterRelease, NextStage, mouse, history, Goto,
          ReleaseFor
    <2>4. CASE why[t] = "unwind"
      BY <1>0, <1>22, <2>4
      DEF AccountInv, StageInv, Lifters, After, AfterRelease, NextStage, mouse, history, Goto,
          ReleaseFor
    <2>5. CASE why[t] = "cleanup"
      BY <1>0, <1>22, <2>5
      DEF AccountInv, StageInv, Lifters, After, AfterRelease, NextStage, mouse, history, Goto,
          ReleaseFor
    <2> QED BY <1>0, <1>22, <2>1, <2>2, <2>3, <2>4, <2>5 DEF AfterRelease
  <1>23. CASE UNCHANGED vars
    BY <1>0, <1>23
    DEF vars, AccountInv, StageInv, Lifters, After, sink, local, locks, mouse, history
  <1> QED BY <1>1, <1>2, <1>3, <1>4, <1>5, <1>6, <1>7, <1>8, <1>9, <1>10, <1>11, <1>12, <1>13,
       <1>14, <1>15, <1>16, <1>17, <1>18, <1>19, <1>20, <1>21, <1>22, <1>23
    DEF Next, ApplyStep, ReleaseStep

LEMMA ApplyStepInv == Types /\ StageInv /\ Single /\ LockInv /\ ApplyInv /\ [Next]_vars => ApplyInv'
  <1> SUFFICES ASSUME Types, StageInv, Single, LockInv, ApplyInv, [Next]_vars PROVE ApplyInv'
    OBVIOUS
  <1>0. /\ pc \in [Threads -> Pcs] /\ why \in [Threads -> Inputs \cup {"return", "unwind", "cleanup"}]
        /\ kind \in [Threads -> Kinds \cup {"turn", "release", "close"}]
        /\ lifting \in [Threads -> Inputs \cup {NoOne}]
        /\ placed \in [Threads -> BOOLEAN]
        /\ \A r \in Releasers : r \notin Appliers
        /\ NoOne \notin Inputs /\ NoOne \notin Appliers
        /\ Kinds \subseteq {"turn", "interact", "select", "key"}
        /\ Appliers \subseteq Threads /\ Releasers \subseteq Threads
        /\ gen \in Nat /\ activeGen \in Nat \cup {NoOne} /\ NoOne \notin Nat
    BY Outside DEF Types, Threads
  <1>1. ASSUME NEW a \in Appliers, Begin(a) PROVE ApplyInv'
    BY <1>0, <1>1
    DEF ApplyInv, Single, StageInv, Lifters, After, Threads, Inputs, Buttons, Begin, Free,
        mouse, Goto
  <1>2. ASSUME NEW a \in Appliers, KeyBegin(a) PROVE ApplyInv'
    BY <1>0, <1>2
    DEF ApplyInv, Single, StageInv, Lifters, After, Threads, Inputs, Buttons, KeyBegin, Free,
        locks, mouse, Goto
  <1>3. ASSUME NEW a \in Appliers, Validate(a) PROVE ApplyInv'
    BY <1>0, <1>3
    DEF ApplyInv, Single, StageInv, Lifters, After, Threads, Inputs, Buttons, Validate,
        Unrevoked, sink, locks, mouse, history, Goto, ReleaseFor
  <1>4. ASSUME NEW a \in Appliers, Submit(a) PROVE ApplyInv'
    BY <1>0, <1>4
    DEF ApplyInv, Single, StageInv, Lifters, After, Threads, Inputs, Buttons, Submit, Unrevoked,
        sink, mouse, history, Goto, ReleaseFor
  <1>5. ASSUME NEW a \in Appliers, Press(a) PROVE ApplyInv'
    BY <1>0, <1>5
    DEF ApplyInv, Single, StageInv, Lifters, After, Threads, Inputs, Buttons, Press, Leaves,
        Acknowledgements, history, Goto, ReleaseFor
  <1>6. ASSUME NEW a \in Appliers, Pressed(a) PROVE ApplyInv'
    BY <1>0, <1>6
    DEF ApplyInv, Single, StageInv, Lifters, After, Threads, Inputs, Buttons, Pressed, Check,
        Unrevoked, sink, locks, mouse, history, Goto, ReleaseFor
  <1>7. ASSUME NEW a \in Appliers, Excursion(a) PROVE ApplyInv'
    <2>1. ExcursionEffect(a)
      BY <1>7, ExcursionHas
    <2> QED BY <1>0, <2>1
      DEF ApplyInv, Single, StageInv, Lifters, After, Threads, Inputs, Buttons, ExcursionEffect,
          OnlyDrag, Unrevoked, sink, mouse, history, Goto, ReleaseFor
  <1>8. ASSUME NEW a \in Appliers, Pause(a) PROVE ApplyInv'
    BY <1>0, <1>8
    DEF ApplyInv, Single, StageInv, Lifters, After, Threads, Inputs, Buttons, Pause, Dragged,
        OnlyDrag, Unrevoked, sink, mouse, history, Goto, ReleaseFor
  <1>9. ASSUME NEW a \in Appliers, Back(a) PROVE ApplyInv'
    BY <1>0, <1>9
    DEF ApplyInv, Single, StageInv, Lifters, After, Threads, Inputs, Buttons, Back, Dragged,
        OnlyDrag, Leaves, Acknowledgements, sink, history, Goto, ReleaseFor
  <1>10. ASSUME NEW a \in Appliers, Across(a) PROVE ApplyInv'
    BY <1>0, <1>10
    DEF ApplyInv, Single, StageInv, Lifters, After, Threads, Inputs, Buttons, Across, Dragged,
        OnlyDrag, Leaves, Acknowledgements, sink, history, Goto, ReleaseFor
  <1>11. ASSUME NEW a \in Appliers, Hold(a) PROVE ApplyInv'
    BY <1>0, <1>11
    DEF ApplyInv, Single, StageInv, Lifters, After, Threads, Inputs, Buttons, Hold, Unrevoked,
        sink, locks, mouse, history, Goto, ReleaseFor
  <1>12. ASSUME NEW a \in Appliers, SettleUp(a) PROVE ApplyInv'
    BY <1>0, <1>12
    DEF ApplyInv, Single, StageInv, Lifters, After, Threads, Inputs, Buttons, SettleUp, Check,
        Unrevoked, sink, locks, mouse, history, Goto, ReleaseFor
  <1>13. ASSUME NEW a \in Appliers, PutBack(a) PROVE ApplyInv'
    BY <1>0, <1>13
    DEF ApplyInv, Single, StageInv, Lifters, After, Threads, Inputs, Buttons, PutBack, Leaves,
        Acknowledgements, sink, locks, history, Goto, ReleaseFor
  <1>14. ASSUME NEW a \in Appliers, Commit(a) PROVE ApplyInv'
    <2>1. CASE Leave(a)
      BY <1>0, <1>14, <2>1
      DEF ApplyInv, Single, StageInv, Lifters, After, Threads, Inputs, Buttons, Commit, Leave,
          sink, locks, mouse, history, Goto, ReleaseFor
    <2>2. CASE CommitFails(a)
      BY <1>0, <1>14, <2>2
      DEF CommitFails, ApplyInv, Single, StageInv, Lifters, After, Threads, Inputs, Buttons, sink, locks,
          mouse, history, Goto, ReleaseFor
    <2> QED BY <1>14, <2>1, <2>2 DEF Commit, CommitFails
  <1>15. ASSUME NEW a \in Appliers, Raise(a) PROVE ApplyInv'
    BY <1>0, <1>15
    DEF ApplyInv, Single, StageInv, Lifters, After, Threads, Inputs, Buttons, Raise, Leave,
        Leaves, Acknowledgements, Goto
  <1>16. ASSUME NEW a \in Appliers, KeyPress(a) PROVE ApplyInv'
    <2>1. KeyPressEffect(a)
      BY <1>16, KeyPressHas
    <2> QED BY <1>0, <2>1
      DEF ApplyInv, Single, StageInv, Lifters, After, Threads, Inputs, Buttons, KeyPressEffect,
          locks, history, Goto, ReleaseFor
  <1>17. ASSUME NEW a \in Appliers, KeyEnds(a) PROVE ApplyInv'
    BY <1>0, <1>17
    DEF ApplyInv, Single, StageInv, Lifters, After, Threads, Inputs, Buttons, KeyEnds, Leave,
        Goto
  <1>18. ASSUME NEW r \in Releasers, ReleaseAll(r) PROVE ApplyInv'
    BY <1>0, <1>18
    DEF ApplyInv, Single, StageInv, Lifters, After, Threads, Inputs, Buttons, ReleaseAll, sink,
        locks, mouse, history, Goto, ReleaseFor
  <1>19. ASSUME NEW r \in Releasers, Close(r) PROVE ApplyInv'
    BY <1>0, <1>19
    DEF ApplyInv, Single, StageInv, Lifters, After, Threads, Inputs, Buttons, Close, locks,
        mouse, history, Goto, ReleaseFor
  <1>20. ASSUME NEW t \in Threads, Claim(t) PROVE ApplyInv'
    <2>1. gen' \in {gen, gen + 1} /\ UNCHANGED <<activeGen, kind>> /\ (keyLive' => keyLive)
      BY <1>20 DEF Claim, ClaimWhen
    <2>2. \A b \in Appliers : pc'[b] \in {"press", "pause", "back", "across"} => pc[b] = pc'[b]
      BY <1>0, <1>20 DEF Claim, ClaimWhen, Goto
    <2>3. gen' = gen \/ \A b \in Appliers : pc[b] \notin {"press", "pause", "back", "across"}
      BY <1>0, <1>20 DEF Claim, ClaimWhen, LockInv, Submitting
    <2> QED BY <1>0, <2>1, <2>2, <2>3 DEF ApplyInv
  <1>21. ASSUME NEW t \in Threads, Up(t) PROVE ApplyInv'
    BY <1>0, <1>21
    DEF ApplyInv, Single, StageInv, Lifters, After, Threads, Inputs, Buttons, Up, Leaves,
        Acknowledgements, sink, locks, Goto
  <1>22. ASSUME NEW t \in Threads, AfterRelease(t) PROVE ApplyInv'
    <2>1. CASE why[t] = "keyboard"
      BY <1>0, <1>22, <2>1
      DEF ApplyInv, Single, StageInv, Lifters, After, Threads, Inputs, Buttons, AfterRelease,
          NextStage, mouse, history, Goto, ReleaseFor
    <2>2. CASE why[t] \in Buttons
      BY <1>0, <1>22, <2>2
      DEF ApplyInv, Single, StageInv, Lifters, After, Threads, Inputs, Buttons, AfterRelease,
          NextStage, mouse, history, Goto, ReleaseFor
    <2>3. CASE why[t] = "return"
      BY <1>0, <1>22, <2>3
      DEF ApplyInv, Single, StageInv, Lifters, After, Threads, Inputs, Buttons, AfterRelease,
          NextStage, mouse, history, Goto, ReleaseFor
    <2>4. CASE why[t] = "unwind"
      BY <1>0, <1>22, <2>4
      DEF ApplyInv, Single, StageInv, Lifters, After, Threads, Inputs, Buttons, AfterRelease,
          NextStage, mouse, history, Goto, ReleaseFor
    <2>5. CASE why[t] = "cleanup"
      BY <1>0, <1>22, <2>5
      DEF ApplyInv, Single, StageInv, Lifters, After, Threads, Inputs, Buttons, AfterRelease,
          NextStage, mouse, history, Goto, ReleaseFor
    <2> QED BY <1>0, <1>22, <2>1, <2>2, <2>3, <2>4, <2>5 DEF AfterRelease
  <1>23. CASE UNCHANGED vars
    BY <1>0, <1>23
    DEF vars, ApplyInv, Single, StageInv, Lifters, After, Threads, Inputs, Buttons, sink, local,
        locks, mouse, history
  <1> QED BY <1>1, <1>2, <1>3, <1>4, <1>5, <1>6, <1>7, <1>8, <1>9, <1>10, <1>11, <1>12, <1>13,
       <1>14, <1>15, <1>16, <1>17, <1>18, <1>19, <1>20, <1>21, <1>22, <1>23
    DEF Next, ApplyStep, ReleaseStep

LEMMA OwnerStep == Types /\ StageInv /\ OwnerInv /\ [Next]_vars => OwnerInv'
  <1> SUFFICES ASSUME Types, StageInv, OwnerInv, [Next]_vars PROVE OwnerInv'
    OBVIOUS
  <1>0. /\ pc \in [Threads -> Pcs] /\ why \in [Threads -> Inputs \cup {"return", "unwind", "cleanup"}]
        /\ kind \in [Threads -> Kinds \cup {"turn", "release", "close"}]
        /\ lifting \in [Threads -> Inputs \cup {NoOne}]
        /\ placed \in [Threads -> BOOLEAN]
        /\ \A r \in Releasers : r \notin Appliers
        /\ NoOne \notin Inputs /\ NoOne \notin Appliers
        /\ Kinds \subseteq {"turn", "interact", "select", "key"}
        /\ Appliers \subseteq Threads /\ Releasers \subseteq Threads
    BY Outside DEF Types, Threads
  <1>1. ASSUME NEW a \in Appliers, Begin(a) PROVE OwnerInv'
    BY <1>0, <1>1
    DEF OwnerInv, Controlled, ButtonOf, StageInv, Lifters, After, Dragging, Inputs, Buttons,
        Begin, Free, mouse, Goto
  <1>2. ASSUME NEW a \in Appliers, KeyBegin(a) PROVE OwnerInv'
    BY <1>0, <1>2
    DEF OwnerInv, Controlled, ButtonOf, StageInv, Lifters, After, Dragging, Inputs, Buttons,
        KeyBegin, Free, locks, mouse, Goto
  <1>3. ASSUME NEW a \in Appliers, Validate(a) PROVE OwnerInv'
    BY <1>0, <1>3
    DEF OwnerInv, Controlled, ButtonOf, StageInv, Lifters, After, Dragging, Inputs, Buttons,
        Validate, Unrevoked, sink, locks, mouse, history, Goto, ReleaseFor
  <1>4. ASSUME NEW a \in Appliers, Submit(a) PROVE OwnerInv'
    BY <1>0, <1>4
    DEF OwnerInv, Controlled, ButtonOf, StageInv, Lifters, After, Dragging, Inputs, Buttons,
        Submit, Unrevoked, sink, mouse, history, Goto, ReleaseFor
  <1>5. ASSUME NEW a \in Appliers, Press(a) PROVE OwnerInv'
    BY <1>0, <1>5
    DEF OwnerInv, Controlled, ButtonOf, StageInv, Lifters, After, Dragging, Inputs, Buttons,
        Press, Leaves, Acknowledgements, history, Goto, ReleaseFor
  <1>6. ASSUME NEW a \in Appliers, Pressed(a) PROVE OwnerInv'
    BY <1>0, <1>6
    DEF OwnerInv, Controlled, ButtonOf, StageInv, Lifters, After, Dragging, Inputs, Buttons,
        Pressed, Check, Unrevoked, sink, locks, mouse, history, Goto, ReleaseFor
  <1>7. ASSUME NEW a \in Appliers, Excursion(a) PROVE OwnerInv'
    <2>1. ExcursionEffect(a)
      BY <1>7, ExcursionHas
    <2> QED BY <1>0, <2>1
      DEF OwnerInv, Controlled, ButtonOf, StageInv, Lifters, After, Dragging, Inputs, Buttons,
          ExcursionEffect, OnlyDrag, Unrevoked, sink, mouse, history, Goto, ReleaseFor
  <1>8. ASSUME NEW a \in Appliers, Pause(a) PROVE OwnerInv'
    BY <1>0, <1>8
    DEF OwnerInv, Controlled, ButtonOf, StageInv, Lifters, After, Dragging, Inputs, Buttons,
        Pause, Dragged, OnlyDrag, Unrevoked, sink, mouse, history, Goto, ReleaseFor
  <1>9. ASSUME NEW a \in Appliers, Back(a) PROVE OwnerInv'
    BY <1>0, <1>9
    DEF OwnerInv, Controlled, ButtonOf, StageInv, Lifters, After, Dragging, Inputs, Buttons,
        Back, Dragged, OnlyDrag, Leaves, Acknowledgements, sink, history, Goto, ReleaseFor
  <1>10. ASSUME NEW a \in Appliers, Across(a) PROVE OwnerInv'
    BY <1>0, <1>10
    DEF OwnerInv, Controlled, ButtonOf, StageInv, Lifters, After, Dragging, Inputs, Buttons,
        Across, Dragged, OnlyDrag, Leaves, Acknowledgements, sink, history, Goto, ReleaseFor
  <1>11. ASSUME NEW a \in Appliers, Hold(a) PROVE OwnerInv'
    BY <1>0, <1>11
    DEF OwnerInv, Controlled, ButtonOf, StageInv, Lifters, After, Dragging, Inputs, Buttons,
        Hold, Unrevoked, sink, locks, mouse, history, Goto, ReleaseFor
  <1>12. ASSUME NEW a \in Appliers, SettleUp(a) PROVE OwnerInv'
    BY <1>0, <1>12
    DEF OwnerInv, Controlled, ButtonOf, StageInv, Lifters, After, Dragging, Inputs, Buttons,
        SettleUp, Check, Unrevoked, sink, locks, mouse, history, Goto, ReleaseFor
  <1>13. ASSUME NEW a \in Appliers, PutBack(a) PROVE OwnerInv'
    BY <1>0, <1>13
    DEF OwnerInv, Controlled, ButtonOf, StageInv, Lifters, After, Dragging, Inputs, Buttons,
        PutBack, Leaves, Acknowledgements, sink, locks, history, Goto, ReleaseFor
  <1>14. ASSUME NEW a \in Appliers, Commit(a) PROVE OwnerInv'
    <2>1. CASE Leave(a)
      BY <1>0, <1>14, <2>1
      DEF OwnerInv, Controlled, ButtonOf, StageInv, Lifters, After, Dragging, Inputs, Buttons,
          Commit, Leave, sink, locks, mouse, history, Goto, ReleaseFor
    <2>2. CASE CommitFails(a)
      BY <1>0, <1>14, <2>2
      DEF CommitFails, OwnerInv, Controlled, ButtonOf, StageInv, Lifters, After, Dragging, Inputs, Buttons,
          sink, locks, mouse, history, Goto, ReleaseFor
    <2> QED BY <1>14, <2>1, <2>2 DEF Commit, CommitFails
  <1>15. ASSUME NEW a \in Appliers, Raise(a) PROVE OwnerInv'
    BY <1>0, <1>15
    DEF OwnerInv, Controlled, ButtonOf, StageInv, Lifters, After, Dragging, Inputs, Buttons,
        Raise, Leave, Leaves, Acknowledgements, Goto
  <1>16. ASSUME NEW a \in Appliers, KeyPress(a) PROVE OwnerInv'
    <2>1. KeyPressEffect(a)
      BY <1>16, KeyPressHas
    <2> QED BY <1>0, <2>1
      DEF OwnerInv, Controlled, ButtonOf, StageInv, Lifters, After, Dragging, Inputs, Buttons,
          KeyPressEffect, locks, history, Goto, ReleaseFor
  <1>17. ASSUME NEW a \in Appliers, KeyEnds(a) PROVE OwnerInv'
    BY <1>0, <1>17
    DEF OwnerInv, Controlled, ButtonOf, StageInv, Lifters, After, Dragging, Inputs, Buttons,
        KeyEnds, Leave, Goto
  <1>18. ASSUME NEW r \in Releasers, ReleaseAll(r) PROVE OwnerInv'
    BY <1>0, <1>18
    DEF OwnerInv, Controlled, ButtonOf, StageInv, Lifters, After, Dragging, Inputs, Buttons,
        ReleaseAll, sink, locks, mouse, history, Goto, ReleaseFor
  <1>19. ASSUME NEW r \in Releasers, Close(r) PROVE OwnerInv'
    BY <1>0, <1>19
    DEF OwnerInv, Controlled, ButtonOf, StageInv, Lifters, After, Dragging, Inputs, Buttons,
        Close, locks, mouse, history, Goto, ReleaseFor
  <1>20. ASSUME NEW t \in Threads, Claim(t) PROVE OwnerInv'
    <2>1. /\ pc[t] = "claim" /\ UNCHANGED <<down, kind, stuck, unlifted>>
          /\ owned' = owned \ {Target(t)}
          /\ \A u \in Threads \ {t} : pc'[u] = pc[u] /\ lifting'[u] = lifting[u]
      BY <1>0, <1>20 DEF Claim, ClaimWhen, Goto, mouse, history
    <2>2. Target(t) \in owned => pc'[t] = "up" /\ lifting'[t] = Target(t)
      BY <1>0, <1>20 DEF Claim, ClaimWhen, Goto
    <2>3. t \in Appliers => Target(t) = Controlled(t)
      BY DEF Target, Controlled, ButtonOf, StageInv, Inputs, Buttons
    <2>4. ASSUME NEW i \in down, i \notin stuck
          PROVE  \/ i \in owned' /\ \E a \in Appliers : pc'[a] \in Dragging \cup {"claim"} /\ Controlled(a)' = i
                 \/ \E u \in Threads : pc'[u] = "up" /\ lifting'[u] = i
      <3>1. CASE i = Target(t) /\ i \in owned
        BY <2>2, <3>1
      <3>2. ASSUME NEW u \in Threads, pc[u] = "up", lifting[u] = i
            PROVE  pc'[u] = "up" /\ lifting'[u] = i
        BY <2>1, <3>2
      <3>3. ASSUME NEW a \in Appliers, pc[a] \in Dragging \cup {"claim"}, Controlled(a) = i,
                   i # Target(t), i \in owned
            PROVE  i \in owned' /\ pc'[a] = pc[a] /\ Controlled(a)' = i
        <4>1. a # t
          BY <2>3, <3>3
        <4> QED BY <1>0, <2>1, <3>3, <4>1 DEF Controlled, ButtonOf
      <3> QED BY <2>4, <3>1, <3>2, <3>3 DEF OwnerInv
    <2> QED BY <2>1, <2>4 DEF OwnerInv
  <1>21. ASSUME NEW t \in Threads, Up(t) PROVE OwnerInv'
    <2>1. PICK ack \in BOOLEAN :
            /\ pc[t] = "up" /\ Goto(t, IF ack THEN "released" ELSE "refused")
            /\ down' \in Leaves(ack, down \ {lifting[t]}, down)
            /\ unlifted' = (unlifted \/ ~ack)
      BY <1>21 DEF Up, Acknowledgements
    <2>2. UNCHANGED <<owned, kind>> /\ stuck' = (stuck \ {lifting[t]}) \cup (down' \cap {lifting[t]})
      BY <1>21 DEF Up, sink
    <2>3. \A b \in Appliers : pc[b] \in Dragging \cup {"claim"} => pc'[b] = pc[b]
      BY <1>0, <2>1 DEF Goto, Dragging
    <2>4. down' \subseteq down /\ (ack => lifting[t] \notin down')
      BY <2>1 DEF Leaves
    <2>5. stuck' # {} => unlifted'
      BY <2>1, <2>2, <2>4 DEF OwnerInv
    <2>6. ASSUME NEW i \in down', i \notin stuck'
          PROVE  \/ i \in owned' /\ \E a \in Appliers : pc'[a] \in Dragging \cup {"claim"} /\ Controlled(a)' = i
                 \/ \E u \in Threads : pc'[u] = "up" /\ lifting'[u] = i
      <3>1. i # lifting[t] /\ i \in down /\ i \notin stuck
        BY <2>2, <2>4, <2>6
      <3>2. CASE i \in owned /\ \E a \in Appliers : pc[a] \in Dragging \cup {"claim"} /\ Controlled(a) = i
        BY <2>2, <2>3, <3>2 DEF Controlled, ButtonOf
      <3>3. ASSUME NEW u \in Threads, pc[u] = "up", lifting[u] = i
            PROVE  pc'[u] = "up" /\ lifting'[u] = i
        <4>1. u # t
          BY <3>1, <3>3
        <4>2. pc'[u] = pc[u]
          BY <1>0, <2>1, <4>1 DEF Goto
        <4>3. lifting'[u] = lifting[u]
          BY <1>0, <1>21, <4>1 DEF Up
        <4> QED BY <3>3, <4>2, <4>3
      <3> QED BY <3>1, <3>2, <3>3 DEF OwnerInv
    <2> QED BY <2>5, <2>6 DEF OwnerInv
  <1>22. ASSUME NEW t \in Threads, AfterRelease(t) PROVE OwnerInv'
    <2>1. CASE why[t] = "keyboard"
      BY <1>0, <1>22, <2>1
      DEF OwnerInv, Controlled, ButtonOf, StageInv, Lifters, After, Dragging, Inputs, Buttons,
          AfterRelease, NextStage, mouse, history, Goto, ReleaseFor
    <2>2. CASE why[t] \in Buttons
      BY <1>0, <1>22, <2>2
      DEF OwnerInv, Controlled, ButtonOf, StageInv, Lifters, After, Dragging, Inputs, Buttons,
          AfterRelease, NextStage, mouse, history, Goto, ReleaseFor
    <2>3. CASE why[t] = "return"
      BY <1>0, <1>22, <2>3
      DEF OwnerInv, Controlled, ButtonOf, StageInv, Lifters, After, Dragging, Inputs, Buttons,
          AfterRelease, NextStage, mouse, history, Goto, ReleaseFor
    <2>4. CASE why[t] = "unwind"
      BY <1>0, <1>22, <2>4
      DEF OwnerInv, Controlled, ButtonOf, StageInv, Lifters, After, Dragging, Inputs, Buttons,
          AfterRelease, NextStage, mouse, history, Goto, ReleaseFor
    <2>5. CASE why[t] = "cleanup"
      BY <1>0, <1>22, <2>5
      DEF OwnerInv, Controlled, ButtonOf, StageInv, Lifters, After, Dragging, Inputs, Buttons,
          AfterRelease, NextStage, mouse, history, Goto, ReleaseFor
    <2> QED BY <1>0, <1>22, <2>1, <2>2, <2>3, <2>4, <2>5 DEF AfterRelease
  <1>23. CASE UNCHANGED vars
    BY <1>0, <1>23
    DEF vars, OwnerInv, Controlled, ButtonOf, StageInv, Lifters, After, Dragging, Inputs,
        Buttons, sink, local, locks, mouse, history
  <1> QED BY <1>1, <1>2, <1>3, <1>4, <1>5, <1>6, <1>7, <1>8, <1>9, <1>10, <1>11, <1>12, <1>13,
       <1>14, <1>15, <1>16, <1>17, <1>18, <1>19, <1>20, <1>21, <1>22, <1>23
    DEF Next, ApplyStep, ReleaseStep

-----------------------------------------------------------------------------
(* What a turn may rely on while it is not revoked.                        *)

LEMMA LiftStep == Types /\ StageInv /\ Single /\ ApplyInv /\ LiftInv /\ [Next]_vars => LiftInv'
  <1> SUFFICES ASSUME Types, StageInv, Single, ApplyInv, LiftInv, [Next]_vars PROVE LiftInv'
    OBVIOUS
  <1>0. /\ pc \in [Threads -> Pcs] /\ why \in [Threads -> Inputs \cup {"return", "unwind", "cleanup"}]
        /\ kind \in [Threads -> Kinds \cup {"turn", "release", "close"}]
        /\ lifting \in [Threads -> Inputs \cup {NoOne}]
        /\ placed \in [Threads -> BOOLEAN]
        /\ \A r \in Releasers : r \notin Appliers
        /\ NoOne \notin Inputs /\ NoOne \notin Appliers
        /\ Kinds \subseteq {"turn", "interact", "select", "key"}
        /\ Appliers \subseteq Threads /\ Releasers \subseteq Threads
        /\ gen \in Nat /\ activeGen \in Nat \cup {NoOne} /\ NoOne \notin Nat
    BY Outside DEF Types, Threads
  <1>1. ASSUME NEW a \in Appliers, Begin(a) PROVE LiftInv'
    BY <1>0, <1>1
    DEF LiftInv, StageInv, Single, Lifters, After, Threads, Inputs, Buttons, Begin, Free, mouse,
        Goto
  <1>2. ASSUME NEW a \in Appliers, KeyBegin(a) PROVE LiftInv'
    BY <1>0, <1>2
    DEF LiftInv, StageInv, Single, Lifters, After, Threads, Inputs, Buttons, KeyBegin, Free,
        locks, mouse, Goto
  <1>3. ASSUME NEW a \in Appliers, Validate(a) PROVE LiftInv'
    BY <1>0, <1>3
    DEF LiftInv, StageInv, Single, Lifters, After, Threads, Inputs, Buttons, Validate,
        Unrevoked, sink, locks, mouse, history, Goto, ReleaseFor
  <1>4. ASSUME NEW a \in Appliers, Submit(a) PROVE LiftInv'
    BY <1>0, <1>4
    DEF LiftInv, StageInv, Single, Lifters, After, Threads, Inputs, Buttons, Submit, Unrevoked,
        sink, mouse, history, Goto, ReleaseFor
  <1>5. ASSUME NEW a \in Appliers, Press(a) PROVE LiftInv'
    BY <1>0, <1>5
    DEF LiftInv, StageInv, Single, Lifters, After, Threads, Inputs, Buttons, Press, Leaves,
        Acknowledgements, history, Goto, ReleaseFor
  <1>6. ASSUME NEW a \in Appliers, Pressed(a) PROVE LiftInv'
    BY <1>0, <1>6
    DEF LiftInv, StageInv, Single, Lifters, After, Threads, Inputs, Buttons, Pressed, Check,
        Unrevoked, sink, locks, mouse, history, Goto, ReleaseFor
  <1>7. ASSUME NEW a \in Appliers, Excursion(a) PROVE LiftInv'
    <2>1. ExcursionEffect(a)
      BY <1>7, ExcursionHas
    <2> QED BY <1>0, <2>1
      DEF LiftInv, StageInv, Single, Lifters, After, Threads, Inputs, Buttons, ExcursionEffect,
          OnlyDrag, Unrevoked, sink, mouse, history, Goto, ReleaseFor
  <1>8. ASSUME NEW a \in Appliers, Pause(a) PROVE LiftInv'
    BY <1>0, <1>8
    DEF LiftInv, StageInv, Single, Lifters, After, Threads, Inputs, Buttons, Pause, Dragged,
        OnlyDrag, Unrevoked, sink, mouse, history, Goto, ReleaseFor
  <1>9. ASSUME NEW a \in Appliers, Back(a) PROVE LiftInv'
    BY <1>0, <1>9
    DEF LiftInv, StageInv, Single, Lifters, After, Threads, Inputs, Buttons, Back, Dragged,
        OnlyDrag, Leaves, Acknowledgements, sink, history, Goto, ReleaseFor
  <1>10. ASSUME NEW a \in Appliers, Across(a) PROVE LiftInv'
    BY <1>0, <1>10
    DEF LiftInv, StageInv, Single, Lifters, After, Threads, Inputs, Buttons, Across, Dragged,
        OnlyDrag, Leaves, Acknowledgements, sink, history, Goto, ReleaseFor
  <1>11. ASSUME NEW a \in Appliers, Hold(a) PROVE LiftInv'
    BY <1>0, <1>11
    DEF LiftInv, StageInv, Single, Lifters, After, Threads, Inputs, Buttons, Hold, Unrevoked,
        sink, locks, mouse, history, Goto, ReleaseFor
  <1>12. ASSUME NEW a \in Appliers, SettleUp(a) PROVE LiftInv'
    BY <1>0, <1>12
    DEF LiftInv, StageInv, Single, Lifters, After, Threads, Inputs, Buttons, SettleUp, Check,
        Unrevoked, sink, locks, mouse, history, Goto, ReleaseFor
  <1>13. ASSUME NEW a \in Appliers, PutBack(a) PROVE LiftInv'
    BY <1>0, <1>13
    DEF LiftInv, StageInv, Single, Lifters, After, Threads, Inputs, Buttons, PutBack, Leaves,
        Acknowledgements, sink, locks, history, Goto, ReleaseFor
  <1>14. ASSUME NEW a \in Appliers, Commit(a) PROVE LiftInv'
    <2>1. CASE Leave(a)
      BY <1>0, <1>14, <2>1
      DEF LiftInv, StageInv, Single, Lifters, After, Threads, Inputs, Buttons, Commit, Leave,
          sink, locks, mouse, history, Goto, ReleaseFor
    <2>2. CASE CommitFails(a)
      BY <1>0, <1>14, <2>2
      DEF CommitFails, LiftInv, StageInv, Single, Lifters, After, Threads, Inputs, Buttons, sink, locks,
          mouse, history, Goto, ReleaseFor
    <2> QED BY <1>14, <2>1, <2>2 DEF Commit, CommitFails
  <1>15. ASSUME NEW a \in Appliers, Raise(a) PROVE LiftInv'
    BY <1>0, <1>15
    DEF LiftInv, StageInv, Single, Lifters, After, Threads, Inputs, Buttons, Raise, Leave,
        Leaves, Acknowledgements, Goto
  <1>16. ASSUME NEW a \in Appliers, KeyPress(a) PROVE LiftInv'
    <2>1. KeyPressEffect(a)
      BY <1>16, KeyPressHas
    <2> QED BY <1>0, <2>1
      DEF LiftInv, StageInv, Single, Lifters, After, Threads, Inputs, Buttons, KeyPressEffect,
          locks, history, Goto, ReleaseFor
  <1>17. ASSUME NEW a \in Appliers, KeyEnds(a) PROVE LiftInv'
    BY <1>0, <1>17
    DEF LiftInv, StageInv, Single, Lifters, After, Threads, Inputs, Buttons, KeyEnds, Leave,
        Goto
  <1>18. ASSUME NEW r \in Releasers, ReleaseAll(r) PROVE LiftInv'
    BY <1>0, <1>18
    DEF LiftInv, StageInv, Single, Lifters, After, Threads, Inputs, Buttons, ReleaseAll, sink,
        locks, mouse, history, Goto, ReleaseFor
  <1>19. ASSUME NEW r \in Releasers, Close(r) PROVE LiftInv'
    BY <1>0, <1>19
    DEF LiftInv, StageInv, Single, Lifters, After, Threads, Inputs, Buttons, Close, locks,
        mouse, history, Goto, ReleaseFor
  <1>20. ASSUME NEW t \in Threads, Claim(t) PROVE LiftInv'
    <2>1. UNCHANGED <<activeGen, kind, stale>>
      BY <1>20 DEF Claim, ClaimWhen, history
    <2>2. \A b \in Appliers : pc'[b] # "idle" => pc[b] # "idle"
      BY <1>0, <1>20 DEF Claim, ClaimWhen, Goto
    <2>3. CASE Revokes(t)
      <3>1. gen' = gen + 1
        BY <1>20, <2>3 DEF Claim, ClaimWhen
      <3>2. activeGen' # gen'
        BY <1>0, <2>1, <3>1 DEF ApplyInv
      <3> QED BY <3>2 DEF LiftInv
    <2>4. CASE ~Revokes(t)
      <3>1. gen' = gen /\ pc[t] = "claim"
        BY <1>20, <2>4 DEF Claim, ClaimWhen
      <3>2. t \in Releasers => Target(t) \notin Buttons
        BY <2>4, <3>1 DEF Revokes, StageInv, Target, Inputs, Buttons
      <3>3. \A r \in Releasers : lifting'[r] \in Buttons => lifting[r] \in Buttons
        BY <1>0, <1>20, <3>2 DEF Claim, ClaimWhen
      <3> QED BY <2>1, <2>2, <3>1, <3>3 DEF LiftInv
    <2> QED BY <2>3, <2>4
  <1>21. ASSUME NEW t \in Threads, Up(t) PROVE LiftInv'
    BY <1>0, <1>21
    DEF LiftInv, StageInv, Single, Lifters, After, Threads, Inputs, Buttons, Up, Leaves,
        Acknowledgements, sink, locks, Goto
  <1>22. ASSUME NEW t \in Threads, AfterRelease(t) PROVE LiftInv'
    <2>1. CASE why[t] = "keyboard"
      BY <1>0, <1>22, <2>1
      DEF LiftInv, StageInv, Single, Lifters, After, Threads, Inputs, Buttons, AfterRelease,
          NextStage, mouse, history, Goto, ReleaseFor
    <2>2. CASE why[t] \in Buttons
      BY <1>0, <1>22, <2>2
      DEF LiftInv, StageInv, Single, Lifters, After, Threads, Inputs, Buttons, AfterRelease,
          NextStage, mouse, history, Goto, ReleaseFor
    <2>3. CASE why[t] = "return"
      BY <1>0, <1>22, <2>3
      DEF LiftInv, StageInv, Single, Lifters, After, Threads, Inputs, Buttons, AfterRelease,
          NextStage, mouse, history, Goto, ReleaseFor
    <2>4. CASE why[t] = "unwind"
      BY <1>0, <1>22, <2>4
      DEF LiftInv, StageInv, Single, Lifters, After, Threads, Inputs, Buttons, AfterRelease,
          NextStage, mouse, history, Goto, ReleaseFor
    <2>5. CASE why[t] = "cleanup"
      BY <1>0, <1>22, <2>5
      DEF LiftInv, StageInv, Single, Lifters, After, Threads, Inputs, Buttons, AfterRelease,
          NextStage, mouse, history, Goto, ReleaseFor
    <2> QED BY <1>0, <1>22, <2>1, <2>2, <2>3, <2>4, <2>5 DEF AfterRelease
  <1>23. CASE UNCHANGED vars
    BY <1>0, <1>23
    DEF vars, LiftInv, StageInv, Single, Lifters, After, Threads, Inputs, Buttons, sink, local,
        locks, mouse, history
  <1> QED BY <1>1, <1>2, <1>3, <1>4, <1>5, <1>6, <1>7, <1>8, <1>9, <1>10, <1>11, <1>12, <1>13,
       <1>14, <1>15, <1>16, <1>17, <1>18, <1>19, <1>20, <1>21, <1>22, <1>23
    DEF Next, ApplyStep, ReleaseStep

LEMMA SettledStep ==
  Types /\ StageInv /\ Single /\ ApplyInv /\ AccountInv /\ LiftInv /\ SettledInv /\ [Next]_vars => SettledInv'
  <1> SUFFICES ASSUME Types, StageInv, Single, ApplyInv, AccountInv, LiftInv, SettledInv, [Next]_vars
                  PROVE  SettledInv'
    OBVIOUS
  <1>0. /\ pc \in [Threads -> Pcs] /\ why \in [Threads -> Inputs \cup {"return", "unwind", "cleanup"}]
        /\ kind \in [Threads -> Kinds \cup {"turn", "release", "close"}]
        /\ lifting \in [Threads -> Inputs \cup {NoOne}]
        /\ placed \in [Threads -> BOOLEAN]
        /\ \A r \in Releasers : r \notin Appliers
        /\ NoOne \notin Inputs /\ NoOne \notin Appliers
        /\ Kinds \subseteq {"turn", "interact", "select", "key"}
        /\ Appliers \subseteq Threads /\ Releasers \subseteq Threads
        /\ gen \in Nat /\ activeGen \in Nat \cup {NoOne} /\ NoOne \notin Nat
    BY Outside DEF Types, Threads
  <1>1. ASSUME NEW a \in Appliers, Begin(a) PROVE SettledInv'
    BY <1>0, <1>1
    DEF SettledInv, ButtonOf, StageInv, Single, Lifters, After, Threads, Inputs, Buttons, Begin, Free, mouse,
        Goto
  <1>2. ASSUME NEW a \in Appliers, KeyBegin(a) PROVE SettledInv'
    BY <1>0, <1>2
    DEF SettledInv, ButtonOf, StageInv, Single, Lifters, After, Threads, Inputs, Buttons, KeyBegin, Free,
        locks, mouse, Goto
  <1>3. ASSUME NEW a \in Appliers, Validate(a) PROVE SettledInv'
    BY <1>0, <1>3
    DEF SettledInv, ButtonOf, StageInv, Single, Lifters, After, Threads, Inputs, Buttons, Validate,
        Unrevoked, sink, locks, mouse, history, Goto, ReleaseFor
  <1>4. ASSUME NEW a \in Appliers, Submit(a) PROVE SettledInv'
    BY <1>0, <1>4
    DEF SettledInv, ButtonOf, StageInv, Single, Lifters, After, Threads, Inputs, Buttons, Submit, Unrevoked,
        sink, mouse, history, Goto, ReleaseFor
  <1>5. ASSUME NEW a \in Appliers, Press(a) PROVE SettledInv'
    BY <1>0, <1>5
    DEF SettledInv, ButtonOf, StageInv, Single, Lifters, After, Threads, Inputs, Buttons, Press, Leaves,
        Acknowledgements, history, Goto, ReleaseFor
  <1>6. ASSUME NEW a \in Appliers, Pressed(a) PROVE SettledInv'
    BY <1>0, <1>6
    DEF SettledInv, ButtonOf, StageInv, Single, Lifters, After, Threads, Inputs, Buttons, Pressed, Check,
        Unrevoked, sink, locks, mouse, history, Goto, ReleaseFor
  <1>7. ASSUME NEW a \in Appliers, Excursion(a) PROVE SettledInv'
    <2>1. ExcursionEffect(a)
      BY <1>7, ExcursionHas
    <2> QED BY <1>0, <2>1
      DEF SettledInv, ButtonOf, StageInv, Single, Lifters, After, Threads, Inputs, Buttons, ExcursionEffect,
          OnlyDrag, Unrevoked, sink, mouse, history, Goto, ReleaseFor
  <1>8. ASSUME NEW a \in Appliers, Pause(a) PROVE SettledInv'
    BY <1>0, <1>8
    DEF SettledInv, ButtonOf, StageInv, Single, Lifters, After, Threads, Inputs, Buttons, Pause, Dragged,
        OnlyDrag, Unrevoked, sink, mouse, history, Goto, ReleaseFor
  <1>9. ASSUME NEW a \in Appliers, Back(a) PROVE SettledInv'
    BY <1>0, <1>9
    DEF SettledInv, ButtonOf, StageInv, Single, Lifters, After, Threads, Inputs, Buttons, Back, Dragged,
        OnlyDrag, Leaves, Acknowledgements, sink, history, Goto, ReleaseFor
  <1>10. ASSUME NEW a \in Appliers, Across(a) PROVE SettledInv'
    BY <1>0, <1>10
    DEF SettledInv, ButtonOf, StageInv, Single, Lifters, After, Threads, Inputs, Buttons, Across, Dragged,
        OnlyDrag, Leaves, Acknowledgements, sink, history, Goto, ReleaseFor
  <1>11. ASSUME NEW a \in Appliers, Hold(a) PROVE SettledInv'
    BY <1>0, <1>11
    DEF SettledInv, ButtonOf, StageInv, Single, Lifters, After, Threads, Inputs, Buttons, Hold, Unrevoked,
        sink, locks, mouse, history, Goto, ReleaseFor
  <1>12. ASSUME NEW a \in Appliers, SettleUp(a) PROVE SettledInv'
    BY <1>0, <1>12
    DEF SettledInv, ButtonOf, StageInv, Single, Lifters, After, Threads, Inputs, Buttons, SettleUp, Check,
        Unrevoked, sink, locks, mouse, history, Goto, ReleaseFor
  <1>13. ASSUME NEW a \in Appliers, PutBack(a) PROVE SettledInv'
    BY <1>0, <1>13
    DEF SettledInv, ButtonOf, StageInv, Single, Lifters, After, Threads, Inputs, Buttons, PutBack, Leaves,
        Acknowledgements, sink, locks, history, Goto, ReleaseFor
  <1>14. ASSUME NEW a \in Appliers, Commit(a) PROVE SettledInv'
    <2>1. CASE Leave(a)
      BY <1>0, <1>14, <2>1
      DEF SettledInv, ButtonOf, StageInv, Single, Lifters, After, Threads, Inputs, Buttons, Commit, Leave,
          sink, locks, mouse, history, Goto, ReleaseFor
    <2>2. CASE CommitFails(a)
      BY <1>0, <1>14, <2>2
      DEF CommitFails, SettledInv, ButtonOf, StageInv, Single, Lifters, After, Threads, Inputs, Buttons, sink, locks,
          mouse, history, Goto, ReleaseFor
    <2> QED BY <1>14, <2>1, <2>2 DEF Commit, CommitFails
  <1>15. ASSUME NEW a \in Appliers, Raise(a) PROVE SettledInv'
    BY <1>0, <1>15
    DEF SettledInv, ButtonOf, StageInv, Single, Lifters, After, Threads, Inputs, Buttons, Raise, Leave,
        Leaves, Acknowledgements, Goto
  <1>16. ASSUME NEW a \in Appliers, KeyPress(a) PROVE SettledInv'
    <2>1. KeyPressEffect(a)
      BY <1>16, KeyPressHas
    <2> QED BY <1>0, <2>1
      DEF SettledInv, ButtonOf, StageInv, Single, Lifters, After, Threads, Inputs, Buttons, KeyPressEffect,
          locks, history, Goto, ReleaseFor
  <1>17. ASSUME NEW a \in Appliers, KeyEnds(a) PROVE SettledInv'
    BY <1>0, <1>17
    DEF SettledInv, ButtonOf, StageInv, Single, Lifters, After, Threads, Inputs, Buttons, KeyEnds, Leave,
        Goto
  <1>18. ASSUME NEW r \in Releasers, ReleaseAll(r) PROVE SettledInv'
    BY <1>0, <1>18
    DEF SettledInv, ButtonOf, StageInv, Single, Lifters, After, Threads, Inputs, Buttons, ReleaseAll, sink,
        locks, mouse, history, Goto, ReleaseFor
  <1>19. ASSUME NEW r \in Releasers, Close(r) PROVE SettledInv'
    BY <1>0, <1>19
    DEF SettledInv, ButtonOf, StageInv, Single, Lifters, After, Threads, Inputs, Buttons, Close, locks,
        mouse, history, Goto, ReleaseFor
  <1>20. ASSUME NEW t \in Threads, Claim(t) PROVE SettledInv'
    <2>1. /\ pc[t] = "claim" /\ UNCHANGED <<activeGen, kind, stale, down, why>>
          /\ \A u \in Threads \ {t} : pc'[u] = pc[u] /\ lifting'[u] = lifting[u]
          /\ pc'[t] = IF Target(t) \in owned THEN "up" ELSE "released"
      BY <1>0, <1>20 DEF Claim, ClaimWhen, Goto, mouse, history
    <2>4. \A a \in Appliers : pc'[a] = "up" /\ kind'[a] # "key" => lifting'[a] = ButtonOf(a)'
      <3>1. t \in Appliers /\ kind[t] # "key" => Target(t) = ButtonOf(t)
        BY DEF StageInv, Target, Inputs, Buttons
      <3>2. pc'[t] = "up" => lifting'[t] = Target(t)
        BY <1>0, <1>20 DEF Claim, ClaimWhen, Goto
      <3> QED BY <1>0, <2>1, <3>1, <3>2 DEF SettledInv, ButtonOf
    <2>2. CASE Revokes(t)
      <3>1. gen' = gen + 1
        BY <1>20, <2>2 DEF Claim, ClaimWhen
      <3>2. activeGen' # gen'
        BY <1>0, <2>1, <3>1 DEF ApplyInv
      <3> QED BY <2>4, <3>2 DEF SettledInv
    <2>3. CASE ~Revokes(t)
      <3>1. gen' = gen
        BY <1>20, <2>3 DEF Claim, ClaimWhen
      <3>2. ASSUME NEW a \in Appliers, t = a, kind[a] # "key", activeGen = gen, pc'[a] = "released",
                   why[a] = "return", ~stale, ButtonOf(a) \in down
            PROVE  FALSE
        <4>1. ButtonOf(a) \notin owned /\ pc[a] = "claim"
          BY <2>1, <3>2 DEF Target, Inputs, Buttons
        <4>2. PICK u \in Threads : lifting[u] = ButtonOf(a)
          BY <3>2, <4>1 DEF AccountInv
        <4>3. lifting[u] # NoOne /\ lifting[u] \in Buttons
          BY <4>2, Outside DEF ButtonOf, Buttons, Inputs
        <4>4. u \notin Appliers
          BY <4>1, <4>3 DEF Single, StageInv, Threads
        <4> QED BY <3>2, <4>1, <4>3, <4>4 DEF LiftInv, Threads
      <3>3. \A a \in Appliers : pc'[a] \in After \/ pc'[a] = "released" => a = t \/ pc'[a] = pc[a]
        BY <1>0, <2>1
      <3>4. t \in Appliers => pc'[t] \notin After
        BY <2>1 DEF After
      <3> QED BY <2>1, <2>4, <3>1, <3>2, <3>3, <3>4 DEF SettledInv, ButtonOf
    <2> QED BY <2>2, <2>3
  <1>21. ASSUME NEW t \in Threads, Up(t) PROVE SettledInv'
    <2>1. PICK ack \in BOOLEAN :
            /\ pc[t] = "up" /\ Goto(t, IF ack THEN "released" ELSE "refused")
            /\ down' \in Leaves(ack, down \ {lifting[t]}, down)
      BY <1>21 DEF Up, Acknowledgements
    <2>2. down' \subseteq down /\ (ack => lifting[t] \notin down')
      BY <2>1 DEF Leaves
    <2>3. UNCHANGED <<activeGen, gen, kind, stale, why>>
      BY <1>21 DEF Up, sink
    <2>4. t \in Appliers /\ kind[t] # "key" => lifting[t] = ButtonOf(t)
      BY <2>1 DEF SettledInv
    <2>6. \A a \in Appliers : pc'[a] = "up" => a # t /\ pc[a] = "up" /\ lifting'[a] = lifting[a]
      BY <1>0, <1>21, <2>1 DEF Up, Goto
    <2>5. \A a \in Appliers : pc'[a] \in After \cup {"released"} =>
            pc'[a] = pc[a] \/ (a = t /\ ack /\ pc'[a] = "released")
      BY <1>0, <2>1 DEF Goto, After
    <2> QED BY <2>2, <2>3, <2>4, <2>5, <2>6 DEF SettledInv, ButtonOf, After
  <1>22. ASSUME NEW t \in Threads, AfterRelease(t) PROVE SettledInv'
    <2>1. CASE why[t] = "keyboard"
      BY <1>0, <1>22, <2>1
      DEF SettledInv, ButtonOf, StageInv, Single, Lifters, After, Threads, Inputs, Buttons, AfterRelease,
          NextStage, mouse, history, Goto, ReleaseFor
    <2>2. CASE why[t] \in Buttons
      BY <1>0, <1>22, <2>2
      DEF SettledInv, ButtonOf, StageInv, Single, Lifters, After, Threads, Inputs, Buttons, AfterRelease,
          NextStage, mouse, history, Goto, ReleaseFor
    <2>3. CASE why[t] = "return"
      BY <1>0, <1>22, <2>3
      DEF SettledInv, ButtonOf, StageInv, Single, Lifters, After, Threads, Inputs, Buttons, AfterRelease,
          NextStage, mouse, history, Goto, ReleaseFor
    <2>4. CASE why[t] = "unwind"
      BY <1>0, <1>22, <2>4
      DEF SettledInv, ButtonOf, StageInv, Single, Lifters, After, Threads, Inputs, Buttons, AfterRelease,
          NextStage, mouse, history, Goto, ReleaseFor
    <2>5. CASE why[t] = "cleanup"
      BY <1>0, <1>22, <2>5
      DEF SettledInv, ButtonOf, StageInv, Single, Lifters, After, Threads, Inputs, Buttons, AfterRelease,
          NextStage, mouse, history, Goto, ReleaseFor
    <2> QED BY <1>0, <1>22, <2>1, <2>2, <2>3, <2>4, <2>5 DEF AfterRelease
  <1>23. CASE UNCHANGED vars
    BY <1>0, <1>23
    DEF vars, SettledInv, ButtonOf, StageInv, Single, Lifters, After, Threads, Inputs, Buttons, sink, local,
        locks, mouse, history
  <1> QED BY <1>1, <1>2, <1>3, <1>4, <1>5, <1>6, <1>7, <1>8, <1>9, <1>10, <1>11, <1>12, <1>13,
       <1>14, <1>15, <1>16, <1>17, <1>18, <1>19, <1>20, <1>21, <1>22, <1>23
    DEF Next, ApplyStep, ReleaseStep

LEMMA TurnStep == Types /\ StageInv /\ Single /\ ApplyInv /\ LiftInv /\ TurnInv /\ [Next]_vars => TurnInv'
  <1> SUFFICES ASSUME Types, StageInv, Single, ApplyInv, LiftInv, TurnInv, [Next]_vars PROVE TurnInv'
    OBVIOUS
  <1>0. /\ pc \in [Threads -> Pcs] /\ why \in [Threads -> Inputs \cup {"return", "unwind", "cleanup"}]
        /\ kind \in [Threads -> Kinds \cup {"turn", "release", "close"}]
        /\ lifting \in [Threads -> Inputs \cup {NoOne}]
        /\ placed \in [Threads -> BOOLEAN]
        /\ \A r \in Releasers : r \notin Appliers
        /\ NoOne \notin Inputs /\ NoOne \notin Appliers
        /\ Kinds \subseteq {"turn", "interact", "select", "key"}
        /\ Appliers \subseteq Threads /\ Releasers \subseteq Threads
        /\ gen \in Nat /\ activeGen \in Nat \cup {NoOne} /\ NoOne \notin Nat
    BY Outside DEF Types, Threads
  <1>1. ASSUME NEW a \in Appliers, Begin(a) PROVE TurnInv'
    BY <1>0, <1>1
    DEF TurnInv, ReturnsOK, ButtonOf, StageInv, Lifters, After, Before, Dragging, Inputs,
        Buttons, Begin, Free, mouse, Goto
  <1>2. ASSUME NEW a \in Appliers, KeyBegin(a) PROVE TurnInv'
    BY <1>0, <1>2
    DEF TurnInv, ReturnsOK, ButtonOf, StageInv, Lifters, After, Before, Dragging, Inputs,
        Buttons, KeyBegin, Free, locks, mouse, Goto
  <1>3. ASSUME NEW a \in Appliers, Validate(a) PROVE TurnInv'
    BY <1>0, <1>3
    DEF TurnInv, ReturnsOK, ButtonOf, StageInv, Lifters, After, Before, Dragging, Inputs,
        Buttons, Validate, Unrevoked, sink, locks, mouse, history, Goto, ReleaseFor
  <1>4. ASSUME NEW a \in Appliers, Submit(a) PROVE TurnInv'
    BY <1>0, <1>4
    DEF TurnInv, ReturnsOK, ButtonOf, StageInv, Lifters, After, Before, Dragging, Inputs,
        Buttons, Submit, Unrevoked, sink, mouse, history, Goto, ReleaseFor
  <1>5. ASSUME NEW a \in Appliers, Press(a) PROVE TurnInv'
    BY <1>0, <1>5
    DEF TurnInv, ReturnsOK, ButtonOf, StageInv, Lifters, After, Before, Dragging, Inputs,
        Buttons, Press, Leaves, Acknowledgements, history, Goto, ReleaseFor
  <1>6. ASSUME NEW a \in Appliers, Pressed(a) PROVE TurnInv'
    BY <1>0, <1>6
    DEF TurnInv, ReturnsOK, ButtonOf, StageInv, Lifters, After, Before, Dragging, Inputs,
        Buttons, Pressed, Check, Unrevoked, sink, locks, mouse, history, Goto, ReleaseFor
  <1>7. ASSUME NEW a \in Appliers, Excursion(a) PROVE TurnInv'
    <2>1. ExcursionEffect(a)
      BY <1>7, ExcursionHas
    <2>2. UNCHANGED <<gen, activeGen, kind, down, stale, turned>> /\ pc[a] = "drag"
      BY <2>1 DEF ExcursionEffect, OnlyDrag, sink, history
    <2>3. CASE ReleaseFor(a, "cleanup")
      BY <1>0, <2>2, <2>3
      DEF TurnInv, ReturnsOK, Single, StageInv, Lifters, After, Before, Dragging, ReleaseFor,
          Goto
    <2>4. CASE Goto(a, "pause") /\ UNCHANGED why /\ pitch' = pitch + 1
      <3>1. pitch' = 1 \/ kind[a] = "key"
        BY <2>2, <2>4 DEF TurnInv, Before
      <3> QED BY <1>0, <2>2, <2>4, <3>1
        DEF TurnInv, ReturnsOK, ButtonOf, Single, StageInv, Lifters, After, Before, Dragging,
            Goto
    <2> QED BY <2>1, <2>3, <2>4 DEF ExcursionEffect
  <1>8. ASSUME NEW a \in Appliers, Pause(a) PROVE TurnInv'
    BY <1>0, <1>8
    DEF TurnInv, ReturnsOK, ButtonOf, StageInv, Lifters, After, Before, Dragging, Inputs,
        Buttons, Pause, Dragged, OnlyDrag, Unrevoked, sink, mouse, history, Goto, ReleaseFor
  <1>9. ASSUME NEW a \in Appliers, Back(a) PROVE TurnInv'
    <2>1. PICK ack \in Acknowledgements :
            pc[a] = "back" /\ pitch' \in Leaves(ack, pitch - 1, pitch) /\ Dragged(a, ack, "across")
      BY <1>9 DEF Back
    <2>2. /\ UNCHANGED <<gen, activeGen, kind, down, stale>>
          /\ UNCHANGED turned /\ kind[a] = "turn"
      BY <1>9, <2>1 DEF Back, OnlyDrag, sink, history, StageInv
    <2>3. CASE ack
      <3>1. pc' = [pc EXCEPT ![a] = "across"] /\ why' = why
        BY <2>1, <2>3 DEF Dragged, Goto
      <3>2. pitch = 1 /\ pitch' = 0
        BY <2>1, <2>2, <2>3 DEF TurnInv, Leaves, ApplyInv, Dragging, Before, ButtonOf
      <3> QED BY <1>0, <2>1, <2>2, <3>1, <3>2
        DEF TurnInv, ReturnsOK, ButtonOf, Single, StageInv, Lifters, After, Before, Dragging
    <2>4. CASE ~ack
      <3>1. pc' = [pc EXCEPT ![a] = "claim"] /\ why' = [why EXCEPT ![a] = "cleanup"]
        BY <2>1, <2>4 DEF Dragged, ReleaseFor, Goto
      <3> QED BY <1>0, <2>1, <2>2, <3>1
        DEF TurnInv, ReturnsOK, Single, StageInv, Lifters, After, Before, Dragging
    <2> QED BY <2>3, <2>4
  <1>10. ASSUME NEW a \in Appliers, Across(a) PROVE TurnInv'
    <2>1. PICK ack \in Acknowledgements :
            pc[a] = "across" /\ turned' \in Leaves(ack, "turnMode" \in down, turned) /\ Dragged(a, ack, "moved")
      BY <1>10 DEF Across
    <2>2. /\ UNCHANGED <<gen, activeGen, kind, down, stale>>
          /\ UNCHANGED pitch /\ kind[a] = "turn"
      BY <1>10, <2>1 DEF Across, OnlyDrag, sink, history, StageInv
    <2>3. CASE ack
      <3>1. pc' = [pc EXCEPT ![a] = "moved"] /\ why' = why
        BY <2>1, <2>3 DEF Dragged, Goto
      <3>2. pitch = 0 /\ activeGen = gen /\ (stale \/ turned')
        BY <2>1, <2>2, <2>3 DEF TurnInv, Leaves, ApplyInv, Dragging, Before, ButtonOf
      <3> QED BY <1>0, <2>1, <2>2, <3>1, <3>2
        DEF TurnInv, ReturnsOK, ButtonOf, Single, StageInv, Lifters, After, Before, Dragging
    <2>4. CASE ~ack
      <3>1. pc' = [pc EXCEPT ![a] = "claim"] /\ why' = [why EXCEPT ![a] = "cleanup"]
        BY <2>1, <2>4 DEF Dragged, ReleaseFor, Goto
      <3> QED BY <1>0, <2>1, <2>2, <3>1
        DEF TurnInv, ReturnsOK, Single, StageInv, Lifters, After, Before, Dragging
    <2> QED BY <2>3, <2>4
  <1>11. ASSUME NEW a \in Appliers, Hold(a) PROVE TurnInv'
    BY <1>0, <1>11
    DEF TurnInv, ReturnsOK, ButtonOf, StageInv, Lifters, After, Before, Dragging, Inputs,
        Buttons, Hold, Unrevoked, sink, locks, mouse, history, Goto, ReleaseFor
  <1>12. ASSUME NEW a \in Appliers, SettleUp(a) PROVE TurnInv'
    BY <1>0, <1>12
    DEF TurnInv, ReturnsOK, ButtonOf, StageInv, Lifters, After, Before, Dragging, Inputs,
        Buttons, SettleUp, Check, Unrevoked, sink, locks, mouse, history, Goto, ReleaseFor
  <1>13. ASSUME NEW a \in Appliers, PutBack(a) PROVE TurnInv'
    BY <1>0, <1>13
    DEF TurnInv, ReturnsOK, ButtonOf, StageInv, Lifters, After, Before, Dragging, Inputs,
        Buttons, PutBack, Leaves, Acknowledgements, sink, locks, history, Goto, ReleaseFor
  <1>14. ASSUME NEW a \in Appliers, Commit(a) PROVE TurnInv'
    <2>1. CASE Leave(a)
      BY <1>0, <1>14, <2>1
      DEF TurnInv, ReturnsOK, ButtonOf, StageInv, Lifters, After, Before, Dragging, Inputs,
          Buttons, Commit, Leave, sink, locks, mouse, history, Goto, ReleaseFor
    <2>2. CASE CommitFails(a)
      BY <1>0, <1>14, <2>2
      DEF CommitFails, TurnInv, ReturnsOK, ButtonOf, StageInv, Lifters, After, Before, Dragging, Inputs,
          Buttons, sink, locks, mouse, history, Goto, ReleaseFor
    <2> QED BY <1>14, <2>1, <2>2 DEF Commit, CommitFails
  <1>15. ASSUME NEW a \in Appliers, Raise(a) PROVE TurnInv'
    BY <1>0, <1>15
    DEF TurnInv, ReturnsOK, ButtonOf, StageInv, Lifters, After, Before, Dragging, Inputs,
        Buttons, Raise, Leave, Leaves, Acknowledgements, Goto
  <1>16. ASSUME NEW a \in Appliers, KeyPress(a) PROVE TurnInv'
    <2>1. KeyPressEffect(a)
      BY <1>16, KeyPressHas
    <2> QED BY <1>0, <2>1
      DEF TurnInv, ReturnsOK, ButtonOf, StageInv, Lifters, After, Before, Dragging, Inputs,
          Buttons, KeyPressEffect, locks, history, Goto, ReleaseFor
  <1>17. ASSUME NEW a \in Appliers, KeyEnds(a) PROVE TurnInv'
    BY <1>0, <1>17
    DEF TurnInv, ReturnsOK, ButtonOf, StageInv, Lifters, After, Before, Dragging, Inputs,
        Buttons, KeyEnds, Leave, Goto
  <1>18. ASSUME NEW r \in Releasers, ReleaseAll(r) PROVE TurnInv'
    BY <1>0, <1>18
    DEF TurnInv, ReturnsOK, ButtonOf, StageInv, Lifters, After, Before, Dragging, Inputs,
        Buttons, ReleaseAll, sink, locks, mouse, history, Goto, ReleaseFor
  <1>19. ASSUME NEW r \in Releasers, Close(r) PROVE TurnInv'
    BY <1>0, <1>19
    DEF TurnInv, ReturnsOK, ButtonOf, StageInv, Lifters, After, Before, Dragging, Inputs,
        Buttons, Close, locks, mouse, history, Goto, ReleaseFor
  <1>20. ASSUME NEW t \in Threads, Claim(t) PROVE TurnInv'
    <2>1. UNCHANGED <<activeGen, kind, why, down, pitch, turned, stale>> /\ pc[t] = "claim"
      BY <1>20 DEF Claim, ClaimWhen, mouse, history
    <2>2. pc' \in {[pc EXCEPT ![t] = "up"], [pc EXCEPT ![t] = "released"]}
      BY <1>20 DEF Claim, ClaimWhen, Goto
    <2>3. activeGen' = gen' => activeGen = gen
      BY <1>0, <1>20, <2>1 DEF Claim, ClaimWhen, ApplyInv
    <2> QED BY <1>0, <2>1, <2>2, <2>3
      DEF TurnInv, ReturnsOK, ButtonOf, Lifters, After, Before, Dragging
  <1>21. ASSUME NEW t \in Threads, Up(t) PROVE TurnInv'
    <2>1. UNCHANGED <<gen, activeGen, kind, why, pitch, turned, stale>> /\ pc[t] = "up"
      BY <1>21 DEF Up, sink
    <2>2. pc' \in {[pc EXCEPT ![t] = "released"], [pc EXCEPT ![t] = "refused"]}
      BY <1>21, Zenon DEF Up, Goto
    <2>3. \A b : b \in down /\ b # lifting[t] => b \in down'
      BY <1>21 DEF Up, Leaves
    <2>4. ASSUME NEW a \in Appliers, kind[a] # "key", pc'[a] \in Dragging, activeGen = gen
          PROVE  stale \/ lifting[t] # ButtonOf(a)
      <3>1. a # t /\ pc[a] \in Dragging
        BY <1>0, <2>2, <2>4 DEF Dragging
      <3>2. t \in Releasers
        BY <2>1, <3>1 DEF Single, Threads, Dragging
      <3> QED BY <2>4, <3>1, <3>2 DEF LiftInv, ButtonOf, Buttons, Dragging
    <2> QED BY <1>0, <2>1, <2>2, <2>3, <2>4
      DEF TurnInv, ReturnsOK, ButtonOf, Lifters, After, Before, Dragging
  <1>22. ASSUME NEW t \in Threads, AfterRelease(t) PROVE TurnInv'
    <2>1. CASE why[t] = "keyboard"
      BY <1>0, <1>22, <2>1
      DEF TurnInv, ReturnsOK, ButtonOf, StageInv, Lifters, After, Before, Dragging, Inputs,
          Buttons, AfterRelease, NextStage, mouse, history, Goto, ReleaseFor
    <2>2. CASE why[t] \in Buttons
      BY <1>0, <1>22, <2>2
      DEF TurnInv, ReturnsOK, ButtonOf, StageInv, Lifters, After, Before, Dragging, Inputs,
          Buttons, AfterRelease, NextStage, mouse, history, Goto, ReleaseFor
    <2>3. CASE why[t] = "return"
      BY <1>0, <1>22, <2>3
      DEF TurnInv, ReturnsOK, ButtonOf, StageInv, Lifters, After, Before, Dragging, Inputs,
          Buttons, AfterRelease, NextStage, mouse, history, Goto, ReleaseFor
    <2>4. CASE why[t] = "unwind"
      BY <1>0, <1>22, <2>4
      DEF TurnInv, ReturnsOK, ButtonOf, StageInv, Lifters, After, Before, Dragging, Inputs,
          Buttons, AfterRelease, NextStage, mouse, history, Goto, ReleaseFor
    <2>5. CASE why[t] = "cleanup"
      BY <1>0, <1>22, <2>5
      DEF TurnInv, ReturnsOK, ButtonOf, StageInv, Lifters, After, Before, Dragging, Inputs,
          Buttons, AfterRelease, NextStage, mouse, history, Goto, ReleaseFor
    <2> QED BY <1>0, <1>22, <2>1, <2>2, <2>3, <2>4, <2>5 DEF AfterRelease
  <1>23. CASE UNCHANGED vars
    BY <1>0, <1>23
    DEF vars, TurnInv, ReturnsOK, ButtonOf, StageInv, Lifters, After, Before, Dragging, Inputs,
        Buttons, sink, local, locks, mouse, history
  <1> QED BY <1>1, <1>2, <1>3, <1>4, <1>5, <1>6, <1>7, <1>8, <1>9, <1>10, <1>11, <1>12, <1>13,
       <1>14, <1>15, <1>16, <1>17, <1>18, <1>19, <1>20, <1>21, <1>22, <1>23
    DEF Next, ApplyStep, ReleaseStep

-----------------------------------------------------------------------------
(* The invariant, and the theorems.                                        *)

Effects == ApplyInv /\ CursorInv /\ AccountInv /\ OwnerInv /\ LiftInv /\ SettledInv /\ TurnInv

LEMMA EffectsHold == Spec => []Effects
  <1>1. Init => ApplyInv
    BY Outside DEF Init, ApplyInv, Threads
  <1>2. Init => CursorInv /\ AccountInv /\ OwnerInv
    BY DEF Init, CursorInv, AccountInv, OwnerInv, Threads
  <1>3. Init => LiftInv /\ SettledInv /\ TurnInv
    BY DEF Init, LiftInv, SettledInv, TurnInv, ReturnsOK, Lifters, After, Before, Dragging, Threads
  <1>4. (Types /\ LockInv /\ StageInv /\ Single) /\ Effects /\ [Next]_vars => Effects'
    BY ApplyStepInv, CursorStep, AccountStep, OwnerStep, LiftStep, SettledStep, TurnStep DEF Effects
  <1> QED BY <1>1, <1>2, <1>3, <1>4, CoreHolds, PTL DEF Spec, Effects

\* Whatever was refused, the cursor is back when no call is in the sink.
THEOREM CursorReturns == Spec => []CursorComesBack
  <1>1. CursorInv => CursorComesBack
    BY DEF CursorInv, CursorComesBack, Threads
  <1> QED BY <1>1, EffectsHold, PTL DEF Effects

\* A button that is down while no drag or hold is left is on its way up, or its
\* last release left it down.
LEMMA NoButtonBehind ==
  ASSUME Types, StageInv, Single, OwnerInv,
         NEW a \in Appliers, pc[a] \in After \cup {"raise"}, NEW i \in down, i \notin stuck
  PROVE  \E r \in Releasers : lifting[r] = i
  <1>1. \A b \in Appliers : pc[b] = "idle" \/ b = a
    BY DEF Single, After
  <1>2. PICK r \in Threads : pc[r] = "up" /\ lifting[r] = i
    BY <1>1 DEF OwnerInv, After, Dragging
  <1>3. r \notin Appliers
    BY <1>1, <1>2 DEF After
  <1> QED BY <1>2, <1>3 DEF Threads

PuttingBack == \E b \in Appliers : pc[b] \in {"putBack", "raise"}

LEMMA CursorMoves ==
  ASSUME [Next]_vars, cursor', ~cursor
  PROVE  PuttingBack
  <1>1. ASSUME NEW a \in Appliers, Begin(a) PROVE PuttingBack
    BY <1>1 DEF PuttingBack, Begin, Free, mouse, Goto
  <1>2. ASSUME NEW a \in Appliers, KeyBegin(a) PROVE PuttingBack
    BY <1>2 DEF PuttingBack, KeyBegin, Free, locks, mouse, Goto
  <1>3. ASSUME NEW a \in Appliers, Validate(a) PROVE PuttingBack
    BY <1>3 DEF PuttingBack, Validate, Unrevoked, sink, locks, mouse, history, Goto, ReleaseFor
  <1>4. ASSUME NEW a \in Appliers, Submit(a) PROVE PuttingBack
    BY <1>4 DEF PuttingBack, Submit, Unrevoked, sink, mouse, history, Goto, ReleaseFor
  <1>5. ASSUME NEW a \in Appliers, Press(a) PROVE PuttingBack
    BY <1>5 DEF PuttingBack, Press, Leaves, Acknowledgements, history, Goto, ReleaseFor
  <1>6. ASSUME NEW a \in Appliers, Pressed(a) PROVE PuttingBack
    BY <1>6 DEF PuttingBack, Pressed, Check, Unrevoked, sink, locks, mouse, history, Goto, ReleaseFor
  <1>7. ASSUME NEW a \in Appliers, Excursion(a) PROVE PuttingBack
    BY <1>7 DEF PuttingBack, Excursion, Dragged, OnlyDrag, Leaves, Acknowledgements, Unrevoked, sink, mouse, history,
        Goto, ReleaseFor
  <1>8. ASSUME NEW a \in Appliers, Pause(a) PROVE PuttingBack
    BY <1>8 DEF PuttingBack, Pause, Dragged, OnlyDrag, Unrevoked, sink, mouse, history, Goto, ReleaseFor
  <1>9. ASSUME NEW a \in Appliers, Back(a) PROVE PuttingBack
    BY <1>9 DEF PuttingBack, Back, Dragged, OnlyDrag, Leaves, Acknowledgements, sink, history, Goto, ReleaseFor
  <1>10. ASSUME NEW a \in Appliers, Across(a) PROVE PuttingBack
    BY <1>10 DEF PuttingBack, Across, Dragged, OnlyDrag, Leaves, Acknowledgements, sink, history, Goto, ReleaseFor
  <1>11. ASSUME NEW a \in Appliers, Hold(a) PROVE PuttingBack
    BY <1>11 DEF PuttingBack, Hold, Unrevoked, sink, locks, mouse, history, Goto, ReleaseFor
  <1>12. ASSUME NEW a \in Appliers, SettleUp(a) PROVE PuttingBack
    BY <1>12 DEF PuttingBack, SettleUp, Check, Unrevoked, sink, locks, mouse, history, Goto, ReleaseFor
  <1>13. ASSUME NEW a \in Appliers, PutBack(a) PROVE PuttingBack
    BY <1>13 DEF PuttingBack, PutBack, Leaves, Acknowledgements, sink, locks, history, Goto, ReleaseFor
  <1>14. ASSUME NEW a \in Appliers, Commit(a) PROVE PuttingBack
    BY <1>14 DEF PuttingBack, Commit, Leave, Unrevoked, sink, locks, mouse, history, Goto, ReleaseFor
  <1>15. ASSUME NEW a \in Appliers, Raise(a) PROVE PuttingBack
    BY <1>15 DEF PuttingBack, Raise, Leave, Leaves, Acknowledgements, Goto
  <1>16. ASSUME NEW a \in Appliers, KeyPress(a) PROVE PuttingBack
    BY <1>16 DEF PuttingBack, KeyPress, Leaves, Acknowledgements, locks, history, Goto, ReleaseFor
  <1>17. ASSUME NEW a \in Appliers, KeyEnds(a) PROVE PuttingBack
    BY <1>17 DEF PuttingBack, KeyEnds, Leave, Goto
  <1>18. ASSUME NEW r \in Releasers, ReleaseAll(r) PROVE PuttingBack
    BY <1>18 DEF PuttingBack, ReleaseAll, sink, locks, mouse, history, Goto, ReleaseFor
  <1>19. ASSUME NEW r \in Releasers, Close(r) PROVE PuttingBack
    BY <1>19 DEF PuttingBack, Close, locks, mouse, history, Goto, ReleaseFor
  <1>20. ASSUME NEW t \in Threads, Claim(t) PROVE PuttingBack
    BY <1>20 DEF PuttingBack, Claim, ClaimWhen, Revokes, Target, locks, mouse, history, Goto
  <1>21. ASSUME NEW t \in Threads, Up(t) PROVE PuttingBack
    BY <1>21 DEF PuttingBack, Up, Leaves, Acknowledgements, sink, locks, Goto
  <1>22. ASSUME NEW t \in Threads, AfterRelease(t) PROVE PuttingBack
    BY <1>22 DEF PuttingBack, AfterRelease, NextStage, mouse, history, Goto, ReleaseFor
  <1>23. CASE UNCHANGED vars
    BY <1>23 DEF vars, sink, local, locks, mouse, history
  <1> QED BY <1>1, <1>2, <1>3, <1>4, <1>5, <1>6, <1>7, <1>8, <1>9, <1>10, <1>11, <1>12, <1>13,
       <1>14, <1>15, <1>16, <1>17, <1>18, <1>19, <1>20, <1>21, <1>22, <1>23
    DEF Next, ApplyStep, ReleaseStep

\* The cursor is put back with no button down, but one that its last release left
\* down, or while another thread's release is on its way.
THEOREM CursorWaits == Spec => CursorWaitsForButton
  <1>1. ASSUME StageInv, Single, OwnerInv, Types, [Next]_vars, cursor', ~cursor
        PROVE  down \cap Buttons \subseteq stuck \/ \E r \in Releasers : lifting[r] # NoOne
    <2>1. PICK a \in Appliers : pc[a] \in {"putBack", "raise"}
      BY <1>1, CursorMoves DEF PuttingBack
    <2>2. \A i \in down : i \in stuck \/ \E r \in Releasers : lifting[r] = i
      BY <1>1, <2>1, NoButtonBehind DEF After
    <2> QED BY <2>2, Outside DEF Buttons, Inputs
  <1>2. (Types /\ StageInv /\ Single) /\ OwnerInv /\ [Next]_vars =>
          [PutBackWaits]_vars
    BY <1>1 DEF PutBackWaits
  <1> QED BY <1>2, CoreHolds, EffectsHold, PTL DEF Spec, Effects, CursorWaitsForButton

LEMMA Commits ==
  ASSUME Types, StageInv, [Next]_vars, NEW c \in Appliers, pc[c] = "commit", pc'[c] = "idle"
  PROVE  activeGen = gen
  <1>0. /\ pc \in [Threads -> Pcs] /\ why \in [Threads -> Inputs \cup {"return", "unwind", "cleanup"}]
        /\ kind \in [Threads -> Kinds \cup {"turn", "release", "close"}]
        /\ lifting \in [Threads -> Inputs \cup {NoOne}]
        /\ placed \in [Threads -> BOOLEAN]
        /\ \A r \in Releasers : r \notin Appliers
        /\ NoOne \notin Inputs /\ NoOne \notin Appliers
        /\ Kinds \subseteq {"turn", "interact", "select", "key"}
        /\ Appliers \subseteq Threads /\ Releasers \subseteq Threads
    BY Outside DEF Types, Threads
  <1>1. ASSUME NEW a \in Appliers, Begin(a) PROVE activeGen = gen
    BY <1>0, <1>1 DEF Begin, Free, mouse, Goto
  <1>2. ASSUME NEW a \in Appliers, KeyBegin(a) PROVE activeGen = gen
    BY <1>0, <1>2 DEF KeyBegin, Free, locks, mouse, Goto
  <1>3. ASSUME NEW a \in Appliers, Validate(a) PROVE activeGen = gen
    BY <1>0, <1>3 DEF Validate, Unrevoked, sink, locks, mouse, history, Goto, ReleaseFor
  <1>4. ASSUME NEW a \in Appliers, Submit(a) PROVE activeGen = gen
    BY <1>0, <1>4 DEF Submit, Unrevoked, sink, mouse, history, Goto, ReleaseFor
  <1>5. ASSUME NEW a \in Appliers, Press(a) PROVE activeGen = gen
    BY <1>0, <1>5 DEF Press, Leaves, Acknowledgements, history, Goto, ReleaseFor
  <1>6. ASSUME NEW a \in Appliers, Pressed(a) PROVE activeGen = gen
    BY <1>0, <1>6 DEF Pressed, Check, Unrevoked, sink, locks, mouse, history, Goto, ReleaseFor
  <1>7. ASSUME NEW a \in Appliers, Excursion(a) PROVE activeGen = gen
    BY <1>0, <1>7
    DEF Excursion, Dragged, OnlyDrag, Leaves, Acknowledgements, Unrevoked, sink, mouse, history,
        Goto, ReleaseFor
  <1>8. ASSUME NEW a \in Appliers, Pause(a) PROVE activeGen = gen
    BY <1>0, <1>8
    DEF Pause, Dragged, OnlyDrag, Unrevoked, sink, mouse, history, Goto, ReleaseFor
  <1>9. ASSUME NEW a \in Appliers, Back(a) PROVE activeGen = gen
    BY <1>0, <1>9
    DEF Back, Dragged, OnlyDrag, Leaves, Acknowledgements, sink, history, Goto, ReleaseFor
  <1>10. ASSUME NEW a \in Appliers, Across(a) PROVE activeGen = gen
    BY <1>0, <1>10
    DEF Across, Dragged, OnlyDrag, Leaves, Acknowledgements, sink, history, Goto, ReleaseFor
  <1>11. ASSUME NEW a \in Appliers, Hold(a) PROVE activeGen = gen
    BY <1>0, <1>11 DEF Hold, Unrevoked, sink, locks, mouse, history, Goto, ReleaseFor
  <1>12. ASSUME NEW a \in Appliers, SettleUp(a) PROVE activeGen = gen
    BY <1>0, <1>12 DEF SettleUp, Check, Unrevoked, sink, locks, mouse, history, Goto, ReleaseFor
  <1>13. ASSUME NEW a \in Appliers, PutBack(a) PROVE activeGen = gen
    BY <1>0, <1>13 DEF PutBack, Leaves, Acknowledgements, sink, locks, history, Goto, ReleaseFor
  <1>14. ASSUME NEW a \in Appliers, Commit(a) PROVE activeGen = gen
    BY <1>0, <1>14 DEF Commit, Leave, Unrevoked, sink, locks, mouse, history, Goto, ReleaseFor
  <1>15. ASSUME NEW a \in Appliers, Raise(a) PROVE activeGen = gen
    BY <1>0, <1>15 DEF Raise, Leave, Leaves, Acknowledgements, Goto
  <1>16. ASSUME NEW a \in Appliers, KeyPress(a) PROVE activeGen = gen
    BY <1>0, <1>16 DEF KeyPress, Leaves, Acknowledgements, locks, history, Goto, ReleaseFor
  <1>17. ASSUME NEW a \in Appliers, KeyEnds(a) PROVE activeGen = gen
    BY <1>0, <1>17 DEF KeyEnds, Leave, Goto
  <1>18. ASSUME NEW r \in Releasers, ReleaseAll(r) PROVE activeGen = gen
    BY <1>0, <1>18 DEF ReleaseAll, sink, locks, mouse, history, Goto, ReleaseFor
  <1>19. ASSUME NEW r \in Releasers, Close(r) PROVE activeGen = gen
    BY <1>0, <1>19 DEF Close, locks, mouse, history, Goto, ReleaseFor
  <1>20. ASSUME NEW t \in Threads, Claim(t) PROVE activeGen = gen
    BY <1>0, <1>20 DEF Claim, ClaimWhen, Revokes, Target, locks, mouse, history, Goto
  <1>21. ASSUME NEW t \in Threads, Up(t) PROVE activeGen = gen
    BY <1>0, <1>21 DEF Up, Leaves, Acknowledgements, sink, locks, Goto
  <1>22. ASSUME NEW t \in Threads, AfterRelease(t) PROVE activeGen = gen
    BY <1>0, <1>22 DEF AfterRelease, NextStage, mouse, history, Goto, ReleaseFor
  <1>23. CASE UNCHANGED vars
    BY <1>23 DEF vars, local
  <1> QED BY <1>1, <1>2, <1>3, <1>4, <1>5, <1>6, <1>7, <1>8, <1>9, <1>10, <1>11, <1>12, <1>13,
       <1>14, <1>15, <1>16, <1>17, <1>18, <1>19, <1>20, <1>21, <1>22, <1>23
    DEF Next, ApplyStep, ReleaseStep

\* A turn or click that returns released its own button and leaves the other down
\* only if that one's last release failed, and a turn was exact, but for an apply
\* that began while a release was already lifting an input.
THEOREM TurnsAreExact == Spec => TurnIsExact
  <1>1. ASSUME Types, StageInv, Single, OwnerInv, LiftInv, SettledInv, TurnInv, [Next]_vars,
               NEW a \in Appliers, pc[a] = "commit", pc'[a] = "idle"
        PROVE  \/ stale
               \/ /\ down \cap Buttons \subseteq stuck \ {ButtonOf(a)}
                  /\ kind[a] = "turn" => turned /\ pitch = 0
    <2>1. activeGen = gen /\ kind[a] # "key"
      BY <1>1, Commits DEF StageInv, Lifters
    <2>2. stale \/ \A r \in Releasers : lifting[r] \notin Buttons
      BY <1>1, <2>1 DEF LiftInv
    <2>3. \A i \in down : i \in stuck \/ \E r \in Releasers : lifting[r] = i
      BY <1>1, NoButtonBehind DEF After
    <2>4. kind[a] = "turn" => pitch = 0 /\ (stale \/ turned)
      BY <1>1, <2>1 DEF TurnInv, ReturnsOK, After
    <2>5. stale \/ ButtonOf(a) \notin down
      BY <1>1, <2>1 DEF SettledInv, After
    <2> QED BY <2>2, <2>3, <2>4, <2>5
  <1>2. (Types /\ StageInv /\ Single) /\ (OwnerInv /\ LiftInv /\ SettledInv /\ TurnInv) /\ [Next]_vars =>
          [\A a \in Appliers :
             (pc[a] = "commit" /\ pc'[a] = "idle") =>
               \/ stale
               \/ /\ down \cap Buttons \subseteq stuck \ {ButtonOf(a)}
                  /\ kind[a] = "turn" => turned /\ pitch = 0]_vars
    BY <1>1
  <1> QED BY <1>2, CoreHolds, EffectsHold, PTL DEF Spec, Effects, TurnIsExact

-----------------------------------------------------------------------------
(* The port.                                                               *)

Rest == InSink = {} => down = {} \/ unlifted

LEMMA RestIsEmpty == StageInv /\ OwnerInv => Rest
  <1> SUFFICES ASSUME StageInv, OwnerInv, InSink = {} PROVE down = {} \/ unlifted
    BY DEF Rest
  <1>1. \A t \in Threads : pc[t] = "idle"
    BY DEF InSink
  <1>2. down \subseteq stuck
    BY <1>1 DEF OwnerInv, Threads, Dragging
  <1> QED BY <1>2 DEF OwnerInv

\* The apply that leaves is the only one: nothing stays registered.
LEMMA LeaverIsLast ==
  ASSUME StageInv, Single, ApplyInv, NEW a \in Appliers, pc[a] # "idle", keyLive
  PROVE  kind[a] = "key"
  BY DEF StageInv, Single, ApplyInv

LEMMA StepIsPortStep ==
  ASSUME Types, StageInv, Single, Flags, ApplyInv, [Next]_vars,
         Rest'
  PROVE  [Port!PortNext]_(Port!portVars)
  <1>0. /\ pc \in [Threads -> Pcs] /\ NoOne \notin Appliers /\ \A r \in Releasers : r \notin Appliers
        /\ Appliers \subseteq Threads /\ Releasers \subseteq Threads
        /\ NoOne \notin Nat /\ gen \in Nat /\ activeGen \in Nat \cup {NoOne}
        /\ InSink' = {} => down' = {} \/ unlifted'
        /\ kind \in [Threads -> Kinds \cup {"turn", "release", "close"}]
    BY Outside DEF Types, Threads, Rest
  <1>1. ASSUME NEW a \in Appliers, Begin(a) PROVE [Port!PortNext]_(Port!portVars)
    <2>1. /\ a \notin InSink /\ InSink \cap Appliers = {} /\ InSink' = InSink \cup {a}
      BY <1>0, <1>1 DEF Begin, Free, InSink, Goto
    <2>2. CurrentApply' /\ down' = down /\ unlifted' = unlifted
      BY <1>1 DEF Begin, CurrentApply, mouse
    <2> QED BY <2>1, <2>2 DEF Port!PortNext, Port!Apply
  <1>2. ASSUME NEW a \in Appliers, KeyBegin(a) PROVE [Port!PortNext]_(Port!portVars)
    <2>1. /\ a \notin InSink /\ InSink \cap Appliers = {} /\ InSink' = InSink \cup {a}
      BY <1>0, <1>2 DEF KeyBegin, Free, InSink, Goto
    <2>2. CurrentApply' /\ down' = down /\ unlifted' = unlifted
      BY <1>2 DEF KeyBegin, CurrentApply, mouse
    <2> QED BY <2>1, <2>2 DEF Port!PortNext, Port!Apply
  <1>3. ASSUME NEW a \in Appliers, Validate(a) PROVE [Port!PortNext]_(Port!portVars)
    BY <1>0, <1>3
    DEF InSink, CurrentApply, Port!portVars, Validate, Unrevoked, sink, locks, mouse, history,
        Goto, ReleaseFor
  <1>4. ASSUME NEW a \in Appliers, Submit(a) PROVE [Port!PortNext]_(Port!portVars)
    BY <1>0, <1>4
    DEF InSink, CurrentApply, Port!portVars, Submit, Unrevoked, sink, mouse, history, Goto,
        ReleaseFor
  <1>5. ASSUME NEW a \in Appliers, Press(a) PROVE [Port!PortNext]_(Port!portVars)
    <2>1. pc[a] = "press" /\ InSink' = InSink /\ a \in InSink /\ unlifted' = unlifted
      BY <1>0, <1>5 DEF Press, InSink, Goto, ReleaseFor, history
    <2>2. CurrentApply /\ CurrentApply'
      BY <1>0, <1>5, <2>1 DEF Press, CurrentApply, ApplyInv
    <2>3. down' = down \/ down' = down \cup {ButtonOf(a)}
      BY <1>5 DEF Press, Leaves
    <2>4. ButtonOf(a) \in Inputs
      BY DEF ButtonOf, Inputs, Buttons
    <2> QED BY <2>1, <2>2, <2>3, <2>4 DEF Port!PortNext, Port!Press, Port!portVars
  <1>6. ASSUME NEW a \in Appliers, Pressed(a) PROVE [Port!PortNext]_(Port!portVars)
    BY <1>0, <1>6
    DEF InSink, CurrentApply, Port!portVars, Pressed, Check, Unrevoked, sink, locks, mouse,
        history, Goto, ReleaseFor
  <1>7. ASSUME NEW a \in Appliers, Excursion(a) PROVE [Port!PortNext]_(Port!portVars)
    <2>1. ExcursionEffect(a)
      BY <1>7, ExcursionHas
    <2> QED BY <1>0, <2>1
      DEF InSink, CurrentApply, Port!portVars, ExcursionEffect, OnlyDrag, sink, history, Goto,
          ReleaseFor
  <1>8. ASSUME NEW a \in Appliers, Pause(a) PROVE [Port!PortNext]_(Port!portVars)
    BY <1>0, <1>8
    DEF InSink, CurrentApply, Port!portVars, Pause, Dragged, OnlyDrag, Unrevoked, sink, mouse,
        history, Goto, ReleaseFor
  <1>9. ASSUME NEW a \in Appliers, Back(a) PROVE [Port!PortNext]_(Port!portVars)
    BY <1>0, <1>9
    DEF InSink, CurrentApply, Port!portVars, Back, Dragged, OnlyDrag, Leaves, Acknowledgements,
        sink, history, Goto, ReleaseFor
  <1>10. ASSUME NEW a \in Appliers, Across(a) PROVE [Port!PortNext]_(Port!portVars)
    BY <1>0, <1>10
    DEF InSink, CurrentApply, Port!portVars, Across, Dragged, OnlyDrag, Leaves,
        Acknowledgements, sink, history, Goto, ReleaseFor
  <1>11. ASSUME NEW a \in Appliers, Hold(a) PROVE [Port!PortNext]_(Port!portVars)
    BY <1>0, <1>11
    DEF InSink, CurrentApply, Port!portVars, Hold, Unrevoked, sink, locks, mouse, history, Goto,
        ReleaseFor
  <1>12. ASSUME NEW a \in Appliers, SettleUp(a) PROVE [Port!PortNext]_(Port!portVars)
    BY <1>0, <1>12
    DEF InSink, CurrentApply, Port!portVars, SettleUp, Check, Unrevoked, sink, locks, mouse,
        history, Goto, ReleaseFor
  <1>13. ASSUME NEW a \in Appliers, PutBack(a) PROVE [Port!PortNext]_(Port!portVars)
    BY <1>0, <1>13
    DEF InSink, CurrentApply, Port!portVars, PutBack, Leaves, Acknowledgements, sink, locks,
        history, Goto, ReleaseFor
  <1>14. ASSUME NEW a \in Appliers, Commit(a) PROVE [Port!PortNext]_(Port!portVars)
    <2>1. CASE CommitFails(a)
      BY <1>0, <2>1
      DEF CommitFails, InSink, CurrentApply, Port!portVars, sink, locks, mouse, history, Goto, ReleaseFor
    <2>2. CASE Leave(a)
      <3>1. a \in InSink /\ InSink' = InSink \ {a} /\ a \notin Releasers
        BY <1>0, <1>14, <2>2 DEF Commit, Leave, InSink, Goto
      <3>2. down' = down /\ unlifted' = unlifted
        BY <1>14, <2>2 DEF Commit, Leave, history
      <3>3. ~keyLive'
        BY <1>14, <2>2, LeaverIsLast DEF Commit, StageInv, Lifters, sink
      <3>4. gen' \in Nat /\ activeGen' = NoOne
        BY <1>0, <1>14, <2>2 DEF Commit, Leave
      <3>5. CurrentApply' = (CurrentApply /\ a \in Releasers)
        BY <1>0, <3>1, <3>3, <3>4 DEF CurrentApply
      <3> QED BY <1>0, <3>1, <3>2, <3>5 DEF Port!PortNext, Port!Return
    <2> QED BY <1>14, <2>1, <2>2 DEF Commit, CommitFails
  <1>15. ASSUME NEW a \in Appliers, Raise(a) PROVE [Port!PortNext]_(Port!portVars)
    <2>1. a \in InSink /\ InSink' = InSink \ {a} /\ a \notin Releasers
      BY <1>0, <1>15 DEF Raise, Leave, InSink, Goto
    <2>2. down' = down /\ unlifted' = unlifted
      BY <1>15 DEF Raise, Leave, history
    <2>3. ~keyLive'
      BY <1>15, LeaverIsLast DEF Raise, StageInv, Lifters, sink
    <2>4. gen' \in Nat /\ activeGen' = NoOne
      BY <1>0, <1>15 DEF Raise, Leave
    <2>5. CurrentApply' = (CurrentApply /\ a \in Releasers)
      BY <1>0, <2>1, <2>3, <2>4 DEF CurrentApply
    <2> QED BY <1>0, <2>1, <2>2, <2>5 DEF Port!PortNext, Port!Return
  <1>16. ASSUME NEW a \in Appliers, KeyPress(a) PROVE [Port!PortNext]_(Port!portVars)
    <2>1. KeyPressEffect(a)
      BY <1>16, KeyPressHas
    <2>2. InSink' = InSink /\ a \in InSink /\ unlifted' = unlifted /\ CurrentApply' = CurrentApply
      BY <1>0, <2>1 DEF KeyPressEffect, InSink, CurrentApply, Goto, ReleaseFor, history
    <2>3. down' = down \/ (CurrentApply /\ down' = down \cup {"keyboard"})
      BY <2>1 DEF KeyPressEffect, CurrentApply
    <2> QED BY <2>2, <2>3 DEF Port!PortNext, Port!Press, Port!portVars, Inputs
  <1>17. ASSUME NEW a \in Appliers, KeyEnds(a) PROVE [Port!PortNext]_(Port!portVars)
    <2>1. a \in InSink /\ InSink' = InSink \ {a} /\ a \notin Releasers
      BY <1>0, <1>17 DEF KeyEnds, Leave, InSink, Goto
    <2>2. down' = down /\ unlifted' = unlifted
      BY <1>17 DEF KeyEnds, Leave, history
    <2>3. ~keyLive'
      BY <1>17, LeaverIsLast DEF KeyEnds, StageInv, Lifters, sink
    <2>4. gen' \in Nat /\ activeGen' = NoOne
      BY <1>0, <1>17 DEF KeyEnds, Leave
    <2>5. CurrentApply' = (CurrentApply /\ a \in Releasers)
      BY <1>0, <2>1, <2>3, <2>4 DEF CurrentApply
    <2> QED BY <1>0, <2>1, <2>2, <2>5 DEF Port!PortNext, Port!Return
  <1>18. ASSUME NEW r \in Releasers, ReleaseAll(r) PROVE [Port!PortNext]_(Port!portVars)
    <2>1. r \notin InSink /\ InSink' = InSink \cup {r} /\ down' = down /\ unlifted' = unlifted
      BY <1>0, <1>18 DEF ReleaseAll, InSink, Goto, ReleaseFor, mouse, history
    <2>2. CurrentApply' = CurrentApply
      BY <1>18 DEF ReleaseAll, CurrentApply, sink
    <2> QED BY <2>1, <2>2 DEF Port!PortNext, Port!Release
  <1>19. ASSUME NEW r \in Releasers, Close(r) PROVE [Port!PortNext]_(Port!portVars)
    <2>1. r \notin InSink /\ InSink' = InSink \cup {r} /\ down' = down /\ unlifted' = unlifted
      BY <1>0, <1>19 DEF Close, InSink, Goto, ReleaseFor, mouse, history
    <2>2. CurrentApply' = CurrentApply
      BY <1>19 DEF Close, CurrentApply, sink
    <2> QED BY <2>1, <2>2 DEF Port!PortNext, Port!Release
  <1>20. ASSUME NEW t \in Threads, Claim(t) PROVE [Port!PortNext]_(Port!portVars)
    <2>1. t \in InSink /\ InSink' = InSink /\ down' = down /\ unlifted' = unlifted
      BY <1>0, <1>20 DEF Claim, ClaimWhen, InSink, Goto, mouse, history
    <2>2. CurrentApply' => CurrentApply
      <3>1. keyLive' => keyLive
        BY <1>20 DEF Claim, ClaimWhen
      <3>2. activeGen' = gen' => activeGen = gen
        BY <1>0, <1>20 DEF Claim, ClaimWhen, ApplyInv
      <3> QED BY <3>1, <3>2 DEF CurrentApply
    <2>3. CASE why[t] \in Inputs
      <3>1. t \in Releasers
        BY <2>3 DEF StageInv, Inputs, Buttons, Threads
      <3> QED BY <2>1, <2>2, <3>1 DEF CurrentApply, Port!PortNext, Port!Revoke, Port!portVars
    <2>4. CASE why[t] \notin Inputs
      <3>1. gen' = gen /\ activeGen' = activeGen /\ (keyLive' <=> keyLive)
        BY <1>20, <2>4 DEF Claim, ClaimWhen, Revokes, Inputs
      <3> QED BY <2>1, <3>1 DEF CurrentApply, Port!portVars
    <2> QED BY <2>3, <2>4
  <1>21. ASSUME NEW t \in Threads, Up(t) PROVE [Port!PortNext]_(Port!portVars)
    <2>1. PICK ack \in BOOLEAN :
            /\ pc[t] = "up" /\ down' \in Leaves(ack, down \ {lifting[t]}, down)
            /\ Goto(t, IF ack THEN "released" ELSE "refused")
            /\ unlifted' = (unlifted \/ ~ack)
      BY <1>21 DEF Up, Acknowledgements
    <2>2. t \in InSink /\ InSink' = InSink
      BY <1>0, <2>1 DEF InSink, Goto
    <2>3. CurrentApply' = CurrentApply
      BY <1>21 DEF Up, CurrentApply, sink
    <2>4. lifting[t] \in Inputs
      BY <2>1 DEF StageInv, Types
    <2>5. CASE ack
      <3>1. unlifted' = unlifted
        BY <2>1, <2>5 DEF Flags
      <3>2. down' = down \ {lifting[t]}
        BY <2>1, <2>5 DEF Leaves
      <3> QED BY <2>2, <2>3, <2>4, <3>1, <3>2 DEF Port!PortNext, Port!Lift
    <2>6. CASE ~ack
      <3>1. unlifted' = TRUE
        BY <2>1, <2>6
      <3>2. down' = down \ {lifting[t]} \/ down' = down \ {}
        BY <2>1, <2>6 DEF Leaves
      <3> QED BY <2>2, <2>3, <2>4, <3>1, <3>2 DEF Port!PortNext, Port!RefusedLift
    <2> QED BY <2>5, <2>6
  <1>22. ASSUME NEW t \in Threads, AfterRelease(t) PROVE [Port!PortNext]_(Port!portVars)
    <2>1. CurrentApply' = CurrentApply /\ down' = down /\ unlifted' = unlifted
      BY <1>22 DEF AfterRelease, CurrentApply, mouse, history
    <2>2. CASE why[t] = "keyboard"
      <3>1. t \in Releasers
        BY <2>2 DEF StageInv, Threads
      <3>2. t \in InSink /\ InSink' = InSink \ {t}
        BY <1>0, <1>22, <2>2 DEF AfterRelease, InSink, Goto, Buttons
      <3> QED BY <1>0, <2>1, <3>1, <3>2 DEF CurrentApply, Port!PortNext, Port!Return
    <2>3. CASE why[t] # "keyboard"
      <3>1. InSink' = InSink
        BY <1>0, <1>22, <2>3 DEF AfterRelease, InSink, Goto, ReleaseFor
      <3> QED BY <2>1, <3>1 DEF Port!portVars
    <2> QED BY <2>2, <2>3
  <1>23. CASE UNCHANGED vars
    BY <1>23 DEF vars, InSink, CurrentApply, Port!portVars, sink, local, mouse, history
  <1> QED BY <1>1, <1>2, <1>3, <1>4, <1>5, <1>6, <1>7, <1>8, <1>9, <1>10, <1>11, <1>12, <1>13,
       <1>14, <1>15, <1>16, <1>17, <1>18, <1>19, <1>20, <1>21, <1>22, <1>23
    DEF Next, ApplyStep, ReleaseStep

\* Every behaviour of the mouse and combat sinks is one the port allows: a button or
\* key goes down in an unrevoked apply only, and the last call to leave leaves
\* nothing down.
THEOREM MouseImplementsPort == Spec => ImplementsPort
  <1>1. Init => Port!PortInit
    <2>1. Init => InSink = {} /\ down = {} /\ unlifted = FALSE
      BY DEF Init, InSink
    <2>2. Init => ~CurrentApply
      BY Outside DEF Init, CurrentApply
    <2> QED BY <2>1, <2>2 DEF Port!PortInit, CurrentApply
  <1>2. Spec => []Rest
    BY RestIsEmpty, CoreHolds, EffectsHold, PTL DEF Effects
  <1>3. (Types /\ StageInv /\ Single /\ Flags) /\ ApplyInv /\ [Next]_vars
        /\ Rest' => [Port!PortNext]_(Port!portVars)
    BY StepIsPortStep
  <1> QED BY <1>1, <1>2, <1>3, CoreHolds, EffectsHold, PTL
    DEF Spec, Effects, ImplementsPort, Port!PortSpec

-----------------------------------------------------------------------------
(* Progress: a call goes round in no circle.                                *)

\* The steps that are left when the release for this reason, or the part of a
\* release_all with this button or the keyboard, is claimed and lifted.
Left(reason) ==
  CASE reason = "return" -> 13
    [] reason \in {"unwind", "turnMode"} -> 8
    [] reason \in {"cleanup", "selectMode"} -> 4
    [] OTHER -> 1

\* The steps a call has before it at most, whichever way its checks and
\* submissions go: a turn that was just registered has 25.
StepsLeft(t) ==
  CASE pc[t] = "validate" -> 25
    [] pc[t] = "submit" -> 24
    [] pc[t] = "press" -> 23
    [] pc[t] = "pressed" -> 22
    [] pc[t] = "drag" -> 21
    [] pc[t] = "pause" -> 20
    [] pc[t] = "back" -> 19
    [] pc[t] = "across" -> 18
    [] pc[t] \in {"moved", "key"} -> 17
    [] pc[t] = "claim" -> Left(why[t]) + 2
    [] pc[t] = "up" -> Left(why[t]) + 1
    [] pc[t] \in {"released", "refused"} -> Left(why[t])
    [] pc[t] = "settleUp" -> 12
    [] pc[t] = "putBack" -> 11
    [] pc[t] = "commit" -> 10
    [] pc[t] = "raise" -> 3
    [] OTHER -> 0

CallRests(t) == UNCHANGED <<pc[t], why[t]>>

\* Whatever is done in the sinks, a call under way rests or comes nearer its end.
NoCircle == \A t \in Threads : pc[t] # "idle" => CallRests(t) \/ StepsLeft(t)' < StepsLeft(t)

\* A thread's own step moves it, if it is under way, and no other.
Advances(s) ==
  /\ \A t \in Threads \ {s} : CallRests(t)
  /\ pc[s] # "idle" => StepsLeft(s)' < StepsLeft(s)

LEMMA MouseAdvances == Types /\ StageInv /\ [Next]_vars => NoCircle
  <1> SUFFICES ASSUME Types, StageInv, [Next]_vars PROVE NoCircle
    OBVIOUS
  <1>0. /\ pc \in [Threads -> Pcs]
        /\ why \in [Threads -> Inputs \cup {"return", "unwind", "cleanup"}]
        /\ Appliers \subseteq Threads /\ Releasers \subseteq Threads
        /\ Threads = Appliers \cup Releasers
    BY DEF Types, Threads
  <1>1. ASSUME NEW s \in Threads, Advances(s) PROVE NoCircle
    BY <1>1 DEF Advances, NoCircle
  <1>2. ASSUME NEW s \in Threads, pc[s] = "idle", \A t \in Threads \ {s} : CallRests(t)
        PROVE  NoCircle
    BY <1>1, <1>2 DEF Advances
  <1>3. ASSUME NEW s \in Threads, NEW l, Goto(s, l), UNCHANGED why
        PROVE  pc'[s] = l /\ why'[s] = why[s] /\ \A t \in Threads \ {s} : CallRests(t)
    BY <1>0, <1>3 DEF Goto, CallRests
  <1>4. ASSUME NEW s \in Threads, NEW w, ReleaseFor(s, w)
        PROVE  pc'[s] = "claim" /\ why'[s] = w /\ \A t \in Threads \ {s} : CallRests(t)
    BY <1>0, <1>4 DEF ReleaseFor, Goto, CallRests
  <1> DEFINE
    Steps == {<<"validate", "submit">>, <<"submit", "press">>, <<"press", "pressed">>,
              <<"pressed", "drag">>, <<"drag", "pause">>, <<"pause", "back">>,
              <<"back", "across">>, <<"across", "moved">>, <<"settleUp", "putBack">>,
              <<"putBack", "commit">>, <<"claim", "up">>, <<"claim", "released">>,
              <<"up", "released">>, <<"up", "refused">>}
  \* A step to the next point.
  <1>5. ASSUME NEW s \in Threads, NEW l, Goto(s, l), UNCHANGED why,
               \/ <<pc[s], l>> \in Steps
               \/ pc[s] = "released" /\ why[s] = "return" /\ l = "settleUp"
               \/ pc[s] \in {"released", "refused"} /\ why[s] = "cleanup" /\ l = "raise"
               \/ pc[s] \in {"released", "refused"} /\ l = "idle"
        PROVE  NoCircle
    <2>1. pc'[s] = l /\ why'[s] = why[s] /\ \A t \in Threads \ {s} : CallRests(t)
      BY <1>3, <1>5
    <2>2. StepsLeft(s)' < StepsLeft(s)
      BY <1>0, <1>5, <2>1 DEF StepsLeft, Left
    <2> QED BY <1>1, <2>1, <2>2 DEF Advances
  \* A step to a release.
  <1>6. ASSUME NEW s \in Threads, NEW w, ReleaseFor(s, w),
               \/ w \in {"return", "unwind", "cleanup"}
                  /\ pc[s] \in Before \cup Dragging \cup {"key"}
               \/ w = "cleanup" /\ pc[s] \in After
               \/ w = "cleanup" /\ pc[s] \in {"released", "refused"}
                  /\ why[s] \in {"return", "unwind"}
               \/ w = "selectMode" /\ pc[s] \in {"released", "refused"} /\ why[s] = "turnMode"
               \/ w = "keyboard" /\ pc[s] \in {"released", "refused"} /\ why[s] = "selectMode"
        PROVE  NoCircle
    <2>1. pc'[s] = "claim" /\ why'[s] = w /\ \A t \in Threads \ {s} : CallRests(t)
      BY <1>4, <1>6
    <2>2. StepsLeft(s)' < StepsLeft(s)
      BY <1>0, <1>6, <2>1 DEF StepsLeft, Left, Before, Dragging, After
    <2> QED BY <1>1, <2>1, <2>2 DEF Advances
  <1>7. ASSUME NEW a \in Appliers, Leave(a), pc[a] \in {"commit", "raise", "settleUp"}
        PROVE  NoCircle
    <2>1. pc'[a] = "idle" /\ \A t \in Threads \ {a} : CallRests(t)
      BY <1>0, <1>7 DEF Leave, Goto, CallRests
    <2>2. StepsLeft(a)' < StepsLeft(a)
      BY <1>0, <1>7, <2>1 DEF StepsLeft, Left
    <2> QED BY <1>0, <1>1, <2>1, <2>2 DEF Advances
  <1>8. ASSUME NEW a \in Appliers, Begin(a) \/ KeyBegin(a) PROVE NoCircle
    <2>1. pc[a] = "idle" /\ \A t \in Threads \ {a} : CallRests(t)
      BY <1>0, <1>8 DEF Begin, KeyBegin, Free, Goto, CallRests
    <2> QED BY <1>0, <1>2, <2>1
  <1>9. ASSUME NEW a \in Appliers, Validate(a) \/ Submit(a) \/ Press(a) PROVE NoCircle
    BY <1>0, <1>5, <1>6, <1>9 DEF Validate, Submit, Press, Before
  <1>10. ASSUME NEW a \in Appliers, Pressed(a) \/ SettleUp(a) PROVE NoCircle
    BY <1>0, <1>5, <1>6, <1>10 DEF Pressed, SettleUp, Check, Dragging, After
  <1>11. ASSUME NEW a \in Appliers, Excursion(a) PROVE NoCircle
    BY <1>0, <1>5, <1>6, <1>11, ExcursionHas DEF ExcursionEffect, Dragging
  <1>12. ASSUME NEW a \in Appliers, Pause(a) \/ Back(a) \/ Across(a) PROVE NoCircle
    BY <1>0, <1>5, <1>6, <1>12 DEF Pause, Back, Across, Dragged, Dragging
  <1>13. ASSUME NEW a \in Appliers, Hold(a) PROVE NoCircle
    BY <1>0, <1>6, <1>13 DEF Hold, Dragging
  <1>14. ASSUME NEW a \in Appliers, PutBack(a) PROVE NoCircle
    BY <1>0, <1>5, <1>6, <1>14 DEF PutBack, After
  <1>15. ASSUME NEW a \in Appliers, Commit(a) PROVE NoCircle
    BY <1>0, <1>6, <1>7, <1>15 DEF Commit, After
  <1>16. ASSUME NEW a \in Appliers, Raise(a) \/ KeyEnds(a) PROVE NoCircle
    BY <1>7, <1>16 DEF Raise, KeyEnds
  <1>17. ASSUME NEW a \in Appliers, KeyPress(a) PROVE NoCircle
    BY <1>0, <1>6, <1>17, KeyPressHas DEF KeyPressEffect
  <1>18. ASSUME NEW r \in Releasers, ReleaseAll(r) \/ Close(r) PROVE NoCircle
    BY <1>0, <1>2, <1>4, <1>18 DEF ReleaseAll, Close
  <1>19. ASSUME NEW t \in Threads, Claim(t) PROVE NoCircle
    BY <1>5, <1>19 DEF Claim, ClaimWhen
  <1>20. ASSUME NEW t \in Threads, Up(t) PROVE NoCircle
    BY <1>5, <1>20 DEF Up
  <1>21. ASSUME NEW t \in Threads, AfterRelease(t) PROVE NoCircle
    BY <1>5, <1>6, <1>21 DEF AfterRelease, NextStage, Buttons
  <1>22. CASE UNCHANGED vars
    BY <1>22 DEF vars, local, NoCircle, CallRests
  <1> QED
    BY <1>8, <1>9, <1>10, <1>11, <1>12, <1>13, <1>14, <1>15, <1>16, <1>17, <1>18, <1>19,
       <1>20, <1>21, <1>22
    DEF Next, ApplyStep, ReleaseStep

\* Every call of the mouse and combat sinks, a turn, a click, a key, a release_all or a
\* close, gets nearer its end with every step its thread makes, whichever checks and
\* submissions fail: a turn has 25 steps at most, a handler's release is not begun
\* twice, and a release_all goes through its parts once.  ComesToRest adds the fairness.
THEOREM NoMouseCallCircles == Spec => [][NoCircle]_vars
  BY CoreHolds, MouseAdvances, PTL DEF Spec

=============================================================================
