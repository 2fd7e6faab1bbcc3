------------------------- MODULE SendInputSinkProofs -------------------------
(***************************************************************************)
(* Theorems about SendInputSink, for every set of keys, control sequences  *)
(* and threads, every clock bound and whatever the backend acknowledges.   *)
(***************************************************************************)
EXTENDS SendInputSink, TLAPS

USE DEF Unread

LEMMA NoOneIsOutside ==
  /\ NoOne \notin Appliers /\ NoOne \notin Nat /\ Closer \notin Appliers
  /\ \A r \in Releasers : r \notin Appliers
  /\ \A controls \in ControlChoices : controls \in Seq(Keys) /\ controls # <<>>
  /\ Envelope \in Nat
  BY SinkAssumption DEF SinkAssumption

\* Reversing a sequence keeps its elements.
LEMMA ReverseKeeps ==
  ASSUME NEW S, NEW s \in Seq(S)
  PROVE  Reverse(s) \in Seq(S) /\ Range(Reverse(s)) = Range(s)
  <1>1. Len(s) \in Nat /\ DOMAIN s = 1..Len(s)
    OBVIOUS
  <1>2. \A i \in 1..Len(s) : (Len(s) - i) + 1 \in 1..Len(s)
    BY <1>1
  <1>3. Reverse(s) \in Seq(S)
    BY <1>1, <1>2 DEF Reverse
  <1>4. DOMAIN Reverse(s) = 1..Len(s)
    BY DEF Reverse
  <1>5. Range(Reverse(s)) \subseteq Range(s)
    BY <1>1, <1>2, <1>4 DEF Reverse, Range
  <1>6. ASSUME NEW i \in 1..Len(s) PROVE s[i] \in Range(Reverse(s))
    <2>1. (Len(s) - i) + 1 \in 1..Len(s) /\ (Len(s) - ((Len(s) - i) + 1)) + 1 = i
      BY <1>1
    <2>2. Reverse(s)[(Len(s) - i) + 1] = s[i]
      BY <2>1 DEF Reverse
    <2> QED BY <2>1, <2>2, <1>4 DEF Range
  <1> QED BY <1>1, <1>3, <1>5, <1>6 DEF Range

LEMMA RangeIn ==
  ASSUME NEW S, NEW s \in Seq(S)
  PROVE  Range(s) \subseteq S
  BY DEF Range

LEMMA ReverseEmpty ==
  ASSUME NEW S, NEW s \in Seq(S)
  PROVE  Reverse(s) = <<>> <=> s = <<>>
  <1>1. Reverse(s) \in Seq(S) /\ Len(Reverse(s)) = Len(s)
    BY ReverseKeeps DEF Reverse
  <1>2. ASSUME NEW q \in Seq(S) PROVE q = <<>> <=> Len(q) = 0
    OBVIOUS
  <1> QED BY <1>1, <1>2

\* A nonempty sequence is its head and its tail.
LEMMA HeadAndTail ==
  ASSUME NEW S, NEW s \in Seq(S), s # <<>>
  PROVE  /\ Head(s) \in S /\ Tail(s) \in Seq(S)
         /\ Range(s) = {Head(s)} \cup Range(Tail(s))
         /\ Tail(s) # <<>> <=> Len(s) > 1
  <1>1. Len(s) \in Nat \ {0} /\ DOMAIN s = 1..Len(s)
    OBVIOUS
  <1>2. Head(s) = s[1] /\ Head(s) \in S /\ Tail(s) \in Seq(S)
    BY <1>1
  <1>3. Len(Tail(s)) = Len(s) - 1 /\ \A i \in 1..(Len(s) - 1) : Tail(s)[i] = s[i + 1]
    BY <1>1
  <1>4. DOMAIN Tail(s) = 1..(Len(s) - 1)
    BY <1>2, <1>3
  <1>5. ASSUME NEW i \in 1..Len(s), i # 1 PROVE s[i] \in Range(Tail(s))
    <2>1. i - 1 \in 1..(Len(s) - 1) /\ s[i] = Tail(s)[i - 1]
      BY <1>1, <1>3, <1>5
    <2> QED BY <2>1, <1>4 DEF Range
  <1>6. ASSUME NEW i \in 1..(Len(s) - 1) PROVE Tail(s)[i] \in Range(s)
    BY <1>1, <1>3, <1>6 DEF Range
  <1>7. Range(s) = {Head(s)} \cup Range(Tail(s))
    BY <1>1, <1>2, <1>4, <1>5, <1>6 DEF Range
  <1>8. Tail(s) # <<>> <=> Len(s) > 1
    <2>1. ASSUME NEW q \in Seq(S) PROVE q = <<>> <=> Len(q) = 0
      OBVIOUS
    <2>2. Tail(s) = <<>> <=> Len(Tail(s)) = 0
      BY <2>1, <1>2
    <2>3. Len(s) > 1 <=> Len(s) - 1 # 0
      <3>1. \A n \in Nat \ {0} : n > 1 <=> n - 1 # 0
        OBVIOUS
      <3> QED BY <1>1, <3>1, Zenon
    <2>4. Len(Tail(s)) = Len(s) - 1
      BY <1>3
    <2>5. Tail(s) = <<>> <=> Len(s) - 1 = 0
      BY <2>2, <2>4, Zenon
    <2> QED BY <2>3, <2>5, Zenon
  <1> QED BY <1>2, <1>7, <1>8

\* Owning a key adds it and keeps the others.
LEMMA OwnAdds ==
  ASSUME owned \in Seq(Keys), NEW k \in Keys
  PROVE  Own(k) \in Seq(Keys) /\ Range(Own(k)) = Range(owned) \cup {k}
  <1>1. CASE k \in Range(owned)
    BY <1>1 DEF Own
  <1>2. CASE k \notin Range(owned)
    <2>1. Own(k) = Append(owned, k)
      BY <1>2 DEF Own
    <2>2. Len(owned) \in Nat /\ DOMAIN owned = 1..Len(owned)
      OBVIOUS
    <2>3. /\ DOMAIN Append(owned, k) = 1..(Len(owned) + 1)
          /\ Append(owned, k)[Len(owned) + 1] = k
          /\ \A i \in 1..Len(owned) : Append(owned, k)[i] = owned[i]
      BY <2>2
    <2> QED BY <2>1, <2>2, <2>3 DEF Range
  <1> QED BY <1>1, <1>2

-----------------------------------------------------------------------------
(* Type correctness.                                                       *)

LEMMA InitType == Init => TypeOK
  <1> SUFFICES ASSUME Init PROVE TypeOK
    OBVIOUS
  <1> USE NoOneIsOutside
  <1>1. SharedTypes
    <2>1. owned \in Seq(Keys) /\ releasing \subseteq Keys
      BY DEF Init
    <2>2. receipt \in BOOLEAN /\ closed \in BOOLEAN
      BY DEF Init
    <2> QED BY <2>1, <2>2 DEF Init, SharedTypes
  <1>2. ControlTypes
    BY DEF Init, ControlTypes, Pcs, Reasons
  <1>3. ClockTypes
    BY DEF Init, ClockTypes
  <1>4. WorldTypes
    BY DEF Init, WorldTypes
  <1>5. LockDiscipline
    BY DEF Init, LockDiscipline, Threads
  <1>6. WorkRemains
    BY DEF Init, WorkRemains
  <1> QED BY <1>1, <1>2, <1>3, <1>4, <1>5, <1>6 DEF TypeOK

LEMMA NextType == TypeOK /\ [Next]_vars => TypeOK'
  <1> SUFFICES ASSUME TypeOK, [Next]_vars PROVE TypeOK'
    OBVIOUS
  <1> USE NoOneIsOutside
  <1>0. SharedTypes /\ ControlTypes /\ ClockTypes /\ WorldTypes /\ LockDiscipline /\ WorkRemains
    BY DEF TypeOK
  <1>1. ASSUME NEW a \in Appliers, Begin(a) PROVE TypeOK'
    <2>1. SharedTypes'
      BY <1>0, <1>1
      DEF Begin, SharedTypes, WorkRemains, ControlTypes, Threads, shared, local, world, history, Goto, ReleaseFor
    <2>2. ControlTypes'
      BY <1>0, <1>1
      DEF Begin, ControlTypes, WorkRemains, SharedTypes, Threads, Pcs, Reasons, shared, local, world, history, Goto, ReleaseFor
    <2>3. ClockTypes'
      <3>1. PICK started \in 0..now : deadline' = [deadline EXCEPT ![a] = started + Envelope]
        BY <1>1, Zenon DEF Begin
      <3>2. started + Envelope \in Nat
        BY <1>0, <3>1, SinkAssumption DEF ClockTypes
      <3>3. downAt' = [downAt EXCEPT ![a] = Unread] /\ UNCHANGED <<upAt, now>>
        BY <1>1 DEF Begin, world
      <3> QED BY <1>0, <3>1, <3>2, <3>3 DEF ClockTypes, Threads
    <2>4. WorldTypes'
      BY <1>0, <1>1
      DEF Begin, WorldTypes, WorkRemains, ControlTypes, SharedTypes, Threads, shared, local, world, history, Goto, ReleaseFor
    <2>5. LockDiscipline'
      BY <1>0, <1>1
      DEF Begin, LockDiscipline, ControlTypes, SharedTypes, WorkRemains, Threads, shared, local, world, history, Goto, ReleaseFor
    <2>6. WorkRemains'
      BY <1>0, <1>1
      DEF Begin, WorkRemains, ControlTypes, SharedTypes, Threads, shared, local, world, history, Goto, ReleaseFor
    <2> QED BY <2>1, <2>2, <2>3, <2>4, <2>5, <2>6 DEF TypeOK
  <1>2. ASSUME NEW a \in Appliers, Validate(a) PROVE TypeOK'
    <2>1. SharedTypes'
      BY <1>0, <1>2
      DEF Validate, SharedTypes, Threads, shared, local, world, history, Goto, ReleaseFor, OnlyApply
    <2>2. ControlTypes'
      BY <1>0, <1>2
      DEF Validate, ControlTypes, Threads, Pcs, Reasons, shared, local, world, history, Goto, ReleaseFor, OnlyApply
    <2>3. ClockTypes'
      BY <1>0, <1>2
      DEF Validate, ClockTypes, Threads, shared, local, world, history, Goto, ReleaseFor, OnlyApply
    <2>4. WorldTypes'
      BY <1>0, <1>2
      DEF Validate, WorldTypes, Threads, shared, local, world, history, Goto, ReleaseFor, OnlyApply
    <2>5. LockDiscipline'
      BY <1>0, <1>2
      DEF Validate, LockDiscipline, ControlTypes, SharedTypes, Threads, shared, local, world, history, Goto, ReleaseFor, OnlyApply
    <2>6. WorkRemains'
      BY <1>0, <1>2
      DEF Validate, WorkRemains, ControlTypes, Threads, shared, local, world, history, Goto, ReleaseFor, OnlyApply
    <2> QED BY <2>1, <2>2, <2>3, <2>4, <2>5, <2>6 DEF TypeOK
  <1>3. ASSUME NEW a \in Appliers, Submit(a) PROVE TypeOK'
    <2>1. SharedTypes'
      BY <1>0, <1>3
      DEF Submit, SharedTypes, Threads, shared, local, world, history, Goto, ReleaseFor, OnlyApply
    <2>2. ControlTypes'
      BY <1>0, <1>3
      DEF Submit, ControlTypes, Threads, Pcs, Reasons, shared, local, world, history, Goto, ReleaseFor, OnlyApply
    <2>3. ClockTypes'
      BY <1>0, <1>3
      DEF Submit, ClockTypes, Threads, shared, local, world, history, Goto, ReleaseFor, OnlyApply
    <2>4. WorldTypes'
      BY <1>0, <1>3
      DEF Submit, WorldTypes, Threads, shared, local, world, history, Goto, ReleaseFor, OnlyApply
    <2>5. LockDiscipline'
      BY <1>0, <1>3
      DEF Submit, LockDiscipline, ControlTypes, SharedTypes, Threads, shared, local, world, history, Goto, ReleaseFor, OnlyApply
    <2>6. WorkRemains'
      BY <1>0, <1>3
      DEF Submit, WorkRemains, ControlTypes, Threads, shared, local, world, history, Goto, ReleaseFor, OnlyApply
    <2> QED BY <2>1, <2>2, <2>3, <2>4, <2>5, <2>6 DEF TypeOK
  <1>4. ASSUME NEW a \in Appliers, Send(a) PROVE TypeOK'
    <2>1. SharedTypes'
      BY <1>0, <1>4, HeadAndTail, OwnAdds
      DEF Send, SharedTypes, WorkRemains, ControlTypes, Threads, shared, local, world, history, Goto, ReleaseFor
    <2>2. ControlTypes'
      <3>1. CASE Goto(a, "sent") /\ UNCHANGED why
        BY <3>1, <1>0, <1>4, HeadAndTail, OwnAdds
        DEF Send, ControlTypes, WorkRemains, SharedTypes, Threads, Pcs, Reasons, shared, local, world, history, Goto, ReleaseFor
      <3>2. CASE ReleaseFor(a, "unwind")
        BY <3>2, <1>0, <1>4, HeadAndTail, OwnAdds
        DEF Send, ControlTypes, WorkRemains, SharedTypes, Threads, Pcs, Reasons, shared, local, world, history, Goto, ReleaseFor
      <3> QED BY <3>1, <3>2, <1>4 DEF Send
    <2>3. ClockTypes'
      BY <1>0, <1>4, HeadAndTail, OwnAdds
      DEF Send, ClockTypes, WorkRemains, ControlTypes, SharedTypes, Threads, shared, local, world, history, Goto, ReleaseFor
    <2>4. WorldTypes'
      BY <1>0, <1>4, HeadAndTail, OwnAdds
      DEF Send, WorldTypes, WorkRemains, ControlTypes, SharedTypes, Threads, shared, local, world, history, Goto, ReleaseFor
    <2>5. LockDiscipline'
      <3>1. pc' = [pc EXCEPT ![a] = "sent"] \/ pc' = [pc EXCEPT ![a] = "claim"]
        BY <1>4, Zenon DEF Send, Goto, ReleaseFor
      <3>2. pc[a] = "send" /\ subLock' = NoOne /\ applyLock' = applyLock
        BY <1>4 DEF Send
      <3> QED BY <1>0, <3>1, <3>2 DEF LockDiscipline, ControlTypes, SharedTypes, Threads
    <2>6. WorkRemains'
      <3>1. pc' = [pc EXCEPT ![a] = "sent"] \/ pc' = [pc EXCEPT ![a] = "claim"]
        BY <1>4, Zenon DEF Send, Goto, ReleaseFor
      <3>2. pc[a] = "send" /\ UNCHANGED <<todo, claimed>>
        BY <1>4 DEF Send
      <3> QED BY <1>0, <3>1, <3>2 DEF WorkRemains, ControlTypes, Threads
    <2> QED BY <2>1, <2>2, <2>3, <2>4, <2>5, <2>6 DEF TypeOK
  <1>5. ASSUME NEW a \in Appliers, ReadDownAt(a) PROVE TypeOK'
    <2>1. SharedTypes'
      BY <1>0, <1>5
      DEF ReadDownAt, SharedTypes, Threads, shared, local, world, history, Goto, ReleaseFor, OnlyApply
    <2>2. ControlTypes'
      BY <1>0, <1>5
      DEF ReadDownAt, ControlTypes, Threads, Pcs, Reasons, shared, local, world, history, Goto, ReleaseFor, OnlyApply
    <2>3. ClockTypes'
      BY <1>0, <1>5
      DEF ReadDownAt, ClockTypes, Threads, shared, local, world, history, Goto, ReleaseFor, OnlyApply
    <2>4. WorldTypes'
      BY <1>0, <1>5
      DEF ReadDownAt, WorldTypes, Threads, shared, local, world, history, Goto, ReleaseFor, OnlyApply
    <2>5. LockDiscipline'
      BY <1>0, <1>5
      DEF ReadDownAt, LockDiscipline, ControlTypes, SharedTypes, Threads, shared, local, world, history, Goto, ReleaseFor, OnlyApply
    <2>6. WorkRemains'
      BY <1>0, <1>5
      DEF ReadDownAt, WorkRemains, ControlTypes, Threads, shared, local, world, history, Goto, ReleaseFor, OnlyApply
    <2> QED BY <2>1, <2>2, <2>3, <2>4, <2>5, <2>6 DEF TypeOK
  <1>6. ASSUME NEW a \in Appliers, CheckDown(a) PROVE TypeOK'
    <2>0. /\ todo[a] \in Seq(Keys) /\ todo[a] # <<>> /\ Tail(todo[a]) \in Seq(Keys)
          /\ Len(todo[a]) > 1 => Tail(todo[a]) # <<>>
      <3>1. todo[a] \in Seq(Keys) /\ todo[a] # <<>>
        BY <1>0, <1>6 DEF CheckDown, ControlTypes, WorkRemains, Threads
      <3> QED BY <3>1, HeadAndTail
    <2>1. SharedTypes'
      BY <1>0, <1>6, HeadAndTail
      DEF CheckDown, SharedTypes, WorkRemains, ControlTypes, Threads, shared, local, world, history, Goto, ReleaseFor
    <2>2. ControlTypes'
      <3>1. CASE ReleaseFor(a, "unwind") /\ UNCHANGED todo
        BY <3>1, <1>0, <1>6, HeadAndTail, <2>0
        DEF CheckDown, ControlTypes, WorkRemains, SharedTypes, Threads, Pcs, Reasons, shared, local, world, history, Goto, ReleaseFor
      <3>2. CASE Len(todo[a]) > 1 /\ todo' = [todo EXCEPT ![a] = Tail(@)] /\ Goto(a, "submit") /\ UNCHANGED why
        BY <3>2, <1>0, <1>6, HeadAndTail, <2>0
        DEF CheckDown, ControlTypes, WorkRemains, SharedTypes, Threads, Pcs, Reasons, shared, local, world, history, Goto, ReleaseFor
      <3>3. CASE ReleaseFor(a, "cleanup") /\ UNCHANGED todo
        BY <3>3, <1>0, <1>6, HeadAndTail, <2>0
        DEF CheckDown, ControlTypes, WorkRemains, SharedTypes, Threads, Pcs, Reasons, shared, local, world, history, Goto, ReleaseFor
      <3>4. CASE Goto(a, "hold") /\ UNCHANGED <<why, todo>>
        BY <3>4, <1>0, <1>6, HeadAndTail, <2>0
        DEF CheckDown, ControlTypes, WorkRemains, SharedTypes, Threads, Pcs, Reasons, shared, local, world, history, Goto, ReleaseFor
      <3> QED BY <3>1, <3>2, <3>3, <3>4, <1>6 DEF CheckDown
    <2>3. ClockTypes'
      BY <1>0, <1>6, HeadAndTail
      DEF CheckDown, ClockTypes, WorkRemains, ControlTypes, SharedTypes, Threads, shared, local, world, history, Goto, ReleaseFor
    <2>4. WorldTypes'
      BY <1>0, <1>6, HeadAndTail
      DEF CheckDown, WorldTypes, WorkRemains, ControlTypes, SharedTypes, Threads, shared, local, world, history, Goto, ReleaseFor
    <2>5. LockDiscipline'
      <3>1. \E l \in {"submit", "hold", "claim"} : pc' = [pc EXCEPT ![a] = l]
        BY <1>6, Zenon DEF CheckDown, Goto, ReleaseFor
      <3>2. pc[a] = "check" /\ UNCHANGED <<subLock, applyLock>>
        BY <1>6 DEF CheckDown, shared
      <3> QED BY <1>0, <3>1, <3>2 DEF LockDiscipline, ControlTypes, SharedTypes, Threads
    <2>6. WorkRemains'
      <3>1. CASE ReleaseFor(a, "unwind") /\ UNCHANGED todo
        BY <3>1, <1>0, <1>6, HeadAndTail, <2>0
        DEF CheckDown, WorkRemains, ControlTypes, SharedTypes, Threads, shared, local, world, history, Goto, ReleaseFor
      <3>2. CASE Len(todo[a]) > 1 /\ todo' = [todo EXCEPT ![a] = Tail(@)] /\ Goto(a, "submit") /\ UNCHANGED why
        BY <3>2, <1>0, <1>6, HeadAndTail, <2>0
        DEF CheckDown, WorkRemains, ControlTypes, SharedTypes, Threads, shared, local, world, history, Goto, ReleaseFor
      <3>3. CASE ReleaseFor(a, "cleanup") /\ UNCHANGED todo
        BY <3>3, <1>0, <1>6, HeadAndTail, <2>0
        DEF CheckDown, WorkRemains, ControlTypes, SharedTypes, Threads, shared, local, world, history, Goto, ReleaseFor
      <3>4. CASE Goto(a, "hold") /\ UNCHANGED <<why, todo>>
        BY <3>4, <1>0, <1>6, HeadAndTail, <2>0
        DEF CheckDown, WorkRemains, ControlTypes, SharedTypes, Threads, shared, local, world, history, Goto, ReleaseFor
      <3> QED BY <3>1, <3>2, <3>3, <3>4, <1>6 DEF CheckDown
    <2> QED BY <2>1, <2>2, <2>3, <2>4, <2>5, <2>6 DEF TypeOK
  <1>7. ASSUME NEW a \in Appliers, HoldUntil(a) PROVE TypeOK'
    <2>1. SharedTypes'
      BY <1>0, <1>7
      DEF HoldUntil, SharedTypes, Threads, shared, local, world, history, Goto, ReleaseFor, OnlyApply
    <2>2. ControlTypes'
      BY ZenonT(60), <1>0, <1>7
      DEF HoldUntil, ControlTypes, Threads, Pcs, Reasons, shared, local, world, history, Goto, ReleaseFor, OnlyApply
    <2>3. ClockTypes'
      BY <1>0, <1>7
      DEF HoldUntil, ClockTypes, Threads, shared, local, world, history, Goto, ReleaseFor, OnlyApply
    <2>4. WorldTypes'
      BY <1>0, <1>7
      DEF HoldUntil, WorldTypes, Threads, shared, local, world, history, Goto, ReleaseFor, OnlyApply
    <2>5. LockDiscipline'
      BY <1>0, <1>7
      DEF HoldUntil, LockDiscipline, ControlTypes, SharedTypes, Threads, shared, local, world, history, Goto, ReleaseFor, OnlyApply
    <2>6. WorkRemains'
      BY <1>0, <1>7
      DEF HoldUntil, WorkRemains, ControlTypes, Threads, shared, local, world, history, Goto, ReleaseFor, OnlyApply
    <2> QED BY <2>1, <2>2, <2>3, <2>4, <2>5, <2>6 DEF TypeOK
  <1>8. ASSUME NEW a \in Appliers, ReleasedForReturn(a) PROVE TypeOK'
    <2>1. SharedTypes'
      BY <1>0, <1>8
      DEF ReleasedForReturn, SharedTypes, Threads, shared, local, world, history, Goto, ReleaseFor, OnlyReturn, KeepLocals
    <2>2. ControlTypes'
      BY <1>0, <1>8
      DEF ReleasedForReturn, ControlTypes, Threads, Pcs, Reasons, shared, local, world, history, Goto, ReleaseFor, OnlyReturn, KeepLocals
    <2>3. ClockTypes'
      BY <1>0, <1>8
      DEF ReleasedForReturn, ClockTypes, Threads, shared, local, world, history, Goto, ReleaseFor, OnlyReturn, KeepLocals
    <2>4. WorldTypes'
      BY <1>0, <1>8
      DEF ReleasedForReturn, WorldTypes, Threads, shared, local, world, history, Goto, ReleaseFor, OnlyReturn, KeepLocals
    <2>5. LockDiscipline'
      BY <1>0, <1>8
      DEF ReleasedForReturn, LockDiscipline, ControlTypes, SharedTypes, Threads, shared, local, world, history, Goto, ReleaseFor, OnlyReturn, KeepLocals
    <2>6. WorkRemains'
      BY <1>0, <1>8
      DEF ReleasedForReturn, WorkRemains, ControlTypes, Threads, shared, local, world, history, Goto, ReleaseFor, OnlyReturn, KeepLocals
    <2> QED BY <2>1, <2>2, <2>3, <2>4, <2>5, <2>6 DEF TypeOK
  <1>9. ASSUME NEW a \in Appliers, ReleasedToUnwind(a) PROVE TypeOK'
    <2>1. SharedTypes'
      BY <1>0, <1>9
      DEF ReleasedToUnwind, SharedTypes, Threads, shared, local, world, history, Goto, ReleaseFor, OnlyReturn, KeepLocals
    <2>2. ControlTypes'
      BY <1>0, <1>9
      DEF ReleasedToUnwind, ControlTypes, Threads, Pcs, Reasons, shared, local, world, history, Goto, ReleaseFor, OnlyReturn, KeepLocals
    <2>3. ClockTypes'
      BY <1>0, <1>9
      DEF ReleasedToUnwind, ClockTypes, Threads, shared, local, world, history, Goto, ReleaseFor, OnlyReturn, KeepLocals
    <2>4. WorldTypes'
      BY <1>0, <1>9
      DEF ReleasedToUnwind, WorldTypes, Threads, shared, local, world, history, Goto, ReleaseFor, OnlyReturn, KeepLocals
    <2>5. LockDiscipline'
      BY <1>0, <1>9
      DEF ReleasedToUnwind, LockDiscipline, ControlTypes, SharedTypes, Threads, shared, local, world, history, Goto, ReleaseFor, OnlyReturn, KeepLocals
    <2>6. WorkRemains'
      BY <1>0, <1>9
      DEF ReleasedToUnwind, WorkRemains, ControlTypes, Threads, shared, local, world, history, Goto, ReleaseFor, OnlyReturn, KeepLocals
    <2> QED BY <2>1, <2>2, <2>3, <2>4, <2>5, <2>6 DEF TypeOK
  <1>10. ASSUME NEW a \in Appliers, Raise(a) PROVE TypeOK'
    <2>1. SharedTypes'
      BY <1>0, <1>10
      DEF Raise, SharedTypes, Threads, shared, local, world, history, Goto, ReleaseFor, OnlyReturn, EndApply, Leave
    <2>2. ControlTypes'
      BY <1>0, <1>10
      DEF Raise, ControlTypes, Threads, Pcs, Reasons, shared, local, world, history, Goto, ReleaseFor, OnlyReturn, EndApply, Leave
    <2>3. ClockTypes'
      BY <1>0, <1>10
      DEF Raise, ClockTypes, Threads, shared, local, world, history, Goto, ReleaseFor, OnlyReturn, EndApply, Leave
    <2>4. WorldTypes'
      BY <1>0, <1>10
      DEF Raise, WorldTypes, Threads, shared, local, world, history, Goto, ReleaseFor, OnlyReturn, EndApply, Leave
    <2>5. LockDiscipline'
      BY <1>0, <1>10
      DEF Raise, LockDiscipline, ControlTypes, SharedTypes, Threads, shared, local, world, history, Goto, ReleaseFor, OnlyReturn, EndApply, Leave
    <2>6. WorkRemains'
      BY <1>0, <1>10
      DEF Raise, WorkRemains, ControlTypes, Threads, shared, local, world, history, Goto, ReleaseFor, OnlyReturn, EndApply, Leave
    <2> QED BY <2>1, <2>2, <2>3, <2>4, <2>5, <2>6 DEF TypeOK
  <1>11. ASSUME NEW a \in Appliers, Commit(a) PROVE TypeOK'
    <2>1. SharedTypes'
      BY <1>0, <1>11
      DEF Commit, SharedTypes, Threads, shared, local, world, history, Goto, ReleaseFor, OnlyReturn, KeepLocals, EndApply, Leave
    <2>2. ControlTypes'
      <3>1. CASE GenerationIsCurrent(activeGen) /\ EndApply(a)
        BY <3>1, <1>0, <1>11
        DEF Commit, ControlTypes, Threads, Pcs, Reasons, shared, local, world, history, Goto, ReleaseFor, OnlyReturn, KeepLocals, EndApply, Leave
      <3>2. CASE ~GenerationIsCurrent(activeGen) /\ ReleaseFor(a, "cleanup") /\ UNCHANGED <<activeGen, applyLock, receipt>> /\ KeepLocals
        BY <3>2, <1>0, <1>11
        DEF Commit, ControlTypes, Threads, Pcs, Reasons, shared, local, world, history, Goto, ReleaseFor, OnlyReturn, KeepLocals, EndApply, Leave
      <3> QED BY <3>1, <3>2, <1>11 DEF Commit
    <2>3. ClockTypes'
      <3>1. CASE GenerationIsCurrent(activeGen) /\ EndApply(a)
        BY <3>1, <1>0, <1>11
        DEF Commit, ClockTypes, Threads, shared, local, world, history, Goto, ReleaseFor, OnlyReturn, KeepLocals, EndApply, Leave
      <3>2. CASE ~GenerationIsCurrent(activeGen) /\ ReleaseFor(a, "cleanup") /\ UNCHANGED <<activeGen, applyLock, receipt>> /\ KeepLocals
        BY <3>2, <1>0, <1>11
        DEF Commit, ClockTypes, Threads, shared, local, world, history, Goto, ReleaseFor, OnlyReturn, KeepLocals, EndApply, Leave
      <3> QED BY <3>1, <3>2, <1>11 DEF Commit
    <2>4. WorldTypes'
      BY <1>0, <1>11
      DEF Commit, WorldTypes, Threads, shared, local, world, history, Goto, ReleaseFor, OnlyReturn, KeepLocals, EndApply, Leave
    <2>5. LockDiscipline'
      <3>1. \/ pc' = [pc EXCEPT ![a] = "idle"] /\ applyLock' = NoOne
            \/ pc' = [pc EXCEPT ![a] = "claim"] /\ UNCHANGED applyLock
        BY <1>11, Zenon DEF Commit, Goto, ReleaseFor, EndApply, Leave
      <3>2. pc[a] = "commit" /\ UNCHANGED subLock
        BY <1>11 DEF Commit, OnlyReturn
      <3> QED BY <1>0, <3>1, <3>2 DEF LockDiscipline, ControlTypes, SharedTypes, Threads
    <2>6. WorkRemains'
      BY <1>0, <1>11
      DEF Commit, WorkRemains, ControlTypes, Threads, shared, local, world, history, Goto, ReleaseFor, OnlyReturn, KeepLocals, EndApply, Leave
    <2> QED BY <2>1, <2>2, <2>3, <2>4, <2>5, <2>6 DEF TypeOK
  <1>12. ASSUME NEW r \in Releasers, ReleaseAll(r) PROVE TypeOK'
    <2>1. SharedTypes'
      BY <1>0, <1>12
      DEF ReleaseAll, SharedTypes, Threads, shared, local, world, history, Goto, ReleaseFor, OnlyReturn, KeepLocals
    <2>2. ControlTypes'
      BY <1>0, <1>12
      DEF ReleaseAll, ControlTypes, Threads, Pcs, Reasons, shared, local, world, history, Goto, ReleaseFor, OnlyReturn, KeepLocals
    <2>3. ClockTypes'
      BY <1>0, <1>12
      DEF ReleaseAll, ClockTypes, Threads, shared, local, world, history, Goto, ReleaseFor, OnlyReturn, KeepLocals
    <2>4. WorldTypes'
      BY <1>0, <1>12
      DEF ReleaseAll, WorldTypes, Threads, shared, local, world, history, Goto, ReleaseFor, OnlyReturn, KeepLocals
    <2>5. LockDiscipline'
      BY <1>0, <1>12
      DEF ReleaseAll, LockDiscipline, ControlTypes, SharedTypes, Threads, shared, local, world, history, Goto, ReleaseFor, OnlyReturn, KeepLocals
    <2>6. WorkRemains'
      BY <1>0, <1>12
      DEF ReleaseAll, WorkRemains, ControlTypes, Threads, shared, local, world, history, Goto, ReleaseFor, OnlyReturn, KeepLocals
    <2> QED BY <2>1, <2>2, <2>3, <2>4, <2>5, <2>6 DEF TypeOK
  <1>13. ASSUME NEW r \in Releasers, ReleaseAllEnds(r) PROVE TypeOK'
    <2>1. SharedTypes'
      BY <1>0, <1>13
      DEF ReleaseAllEnds, SharedTypes, Threads, shared, local, world, history, Goto, ReleaseFor, OnlyReturn, Leave
    <2>2. ControlTypes'
      BY <1>0, <1>13
      DEF ReleaseAllEnds, ControlTypes, Threads, Pcs, Reasons, shared, local, world, history, Goto, ReleaseFor, OnlyReturn, Leave
    <2>3. ClockTypes'
      BY <1>0, <1>13
      DEF ReleaseAllEnds, ClockTypes, Threads, shared, local, world, history, Goto, ReleaseFor, OnlyReturn, Leave
    <2>4. WorldTypes'
      BY <1>0, <1>13
      DEF ReleaseAllEnds, WorldTypes, Threads, shared, local, world, history, Goto, ReleaseFor, OnlyReturn, Leave
    <2>5. LockDiscipline'
      BY <1>0, <1>13
      DEF ReleaseAllEnds, LockDiscipline, ControlTypes, SharedTypes, Threads, shared, local, world, history, Goto, ReleaseFor, OnlyReturn, Leave
    <2>6. WorkRemains'
      BY <1>0, <1>13
      DEF ReleaseAllEnds, WorkRemains, ControlTypes, Threads, shared, local, world, history, Goto, ReleaseFor, OnlyReturn, Leave
    <2> QED BY <2>1, <2>2, <2>3, <2>4, <2>5, <2>6 DEF TypeOK
  <1>14. ASSUME NEW t \in Threads, Claim(t) PROVE TypeOK'
    <2>0. /\ Reverse(owned) \in Seq(Keys) /\ Range(owned) \subseteq Keys
          /\ Reverse(owned) = <<>> <=> owned = <<>>
      <3>1. owned \in Seq(Keys)
        BY <1>0 DEF SharedTypes
      <3> QED BY <3>1, ReverseKeeps, ReverseEmpty, RangeIn
    <2>1. SharedTypes'
      BY <1>0, <1>14, <2>0
      DEF Claim, SharedTypes, WorkRemains, ControlTypes, Threads, shared, local, world, history, Goto, ReleaseFor, TakeOwned
    <2>2. ControlTypes'
      BY <1>0, <1>14, <2>0
      DEF Claim, ControlTypes, WorkRemains, SharedTypes, Threads, Pcs, Reasons, shared, local, world, history, Goto, ReleaseFor, TakeOwned
    <2>3. ClockTypes'
      BY <1>0, <1>14, <2>0
      DEF Claim, ClockTypes, WorkRemains, ControlTypes, SharedTypes, Threads, shared, local, world, history, Goto, ReleaseFor, TakeOwned
    <2>4. WorldTypes'
      BY <1>0, <1>14, <2>0
      DEF Claim, WorldTypes, WorkRemains, ControlTypes, SharedTypes, Threads, shared, local, world, history, Goto, ReleaseFor, TakeOwned
    <2>5. LockDiscipline'
      BY <1>0, <1>14, <2>0
      DEF Claim, LockDiscipline, ControlTypes, SharedTypes, WorkRemains, Threads, shared, local, world, history, Goto, ReleaseFor, TakeOwned
    <2>6. WorkRemains'
      BY <1>0, <1>14, <2>0
      DEF Claim, WorkRemains, ControlTypes, SharedTypes, Threads, shared, local, world, history, Goto, ReleaseFor, TakeOwned
    <2> QED BY <2>1, <2>2, <2>3, <2>4, <2>5, <2>6 DEF TypeOK
  <1>15. ASSUME NEW t \in Threads, KeyUp(t) PROVE TypeOK'
    <2>1. SharedTypes'
      BY <1>0, <1>15, HeadAndTail
      DEF KeyUp, SharedTypes, WorkRemains, ControlTypes, Threads, shared, local, world, history, Goto, ReleaseFor, Noted
    <2>2. ControlTypes'
      <3>1. pc' = [pc EXCEPT ![t] = "record"] /\ UNCHANGED <<why, todo, claimed>>
        BY <1>15 DEF KeyUp, Goto
      <3>2. \E l \in BOOLEAN : lifted' = [lifted EXCEPT ![t] = l]
        BY <1>15, Zenon DEF KeyUp
      <3>3. \E f \in BOOLEAN : failures' = [failures EXCEPT ![t] = f]
        <4>1. Noted(t, ~hot) \in BOOLEAN
          BY DEF Noted
        <4> QED BY <1>15, <4>1, Zenon DEF KeyUp
      <3> QED BY <1>0, <3>1, <3>2, <3>3 DEF ControlTypes, Pcs, Threads
    <2>3. ClockTypes'
      BY <1>0, <1>15, HeadAndTail
      DEF KeyUp, ClockTypes, WorkRemains, ControlTypes, SharedTypes, Threads, shared, local, world, history, Goto, ReleaseFor, Noted
    <2>4. WorldTypes'
      BY <1>0, <1>15, HeadAndTail
      DEF KeyUp, WorldTypes, WorkRemains, ControlTypes, SharedTypes, Threads, shared, local, world, history, Goto, ReleaseFor, Noted
    <2>5. LockDiscipline'
      <3>1. pc' = [pc EXCEPT ![t] = "record"]
        BY <1>15 DEF KeyUp, Goto
      <3>2. pc[t] = "up" /\ UNCHANGED <<subLock, applyLock>>
        BY <1>15 DEF KeyUp, shared
      <3> QED BY <1>0, <3>1, <3>2 DEF LockDiscipline, ControlTypes, SharedTypes, Threads
    <2>6. WorkRemains'
      BY <1>0, <1>15, HeadAndTail
      DEF KeyUp, WorkRemains, ControlTypes, SharedTypes, Threads, shared, local, world, history, Goto, ReleaseFor, Noted
    <2> QED BY <2>1, <2>2, <2>3, <2>4, <2>5, <2>6 DEF TypeOK
  <1>16. ASSUME NEW t \in Threads, Record(t) PROVE TypeOK'
    <2>1. SharedTypes'
      BY <1>0, <1>16, HeadAndTail, OwnAdds
      DEF Record, SharedTypes, WorkRemains, ControlTypes, Threads, shared, local, world, history, Goto, ReleaseFor, Noted, OnlyRecord
    <2>2. ControlTypes'
      BY <1>0, <1>16, HeadAndTail, OwnAdds
      DEF Record, ControlTypes, WorkRemains, SharedTypes, Threads, Pcs, Reasons, shared, local, world, history, Goto, ReleaseFor, Noted, OnlyRecord
    <2>3. ClockTypes'
      BY <1>0, <1>16, HeadAndTail, OwnAdds
      DEF Record, ClockTypes, WorkRemains, ControlTypes, SharedTypes, Threads, shared, local, world, history, Goto, ReleaseFor, Noted, OnlyRecord
    <2>4. WorldTypes'
      BY <1>0, <1>16, HeadAndTail, OwnAdds
      DEF Record, WorldTypes, WorkRemains, ControlTypes, SharedTypes, Threads, shared, local, world, history, Goto, ReleaseFor, Noted, OnlyRecord
    <2>5. LockDiscipline'
      BY <1>0, <1>16, HeadAndTail, OwnAdds
      DEF Record, LockDiscipline, ControlTypes, SharedTypes, WorkRemains, Threads, shared, local, world, history, Goto, ReleaseFor, Noted, OnlyRecord
    <2>6. WorkRemains'
      BY <1>0, <1>16, HeadAndTail, OwnAdds
      DEF Record, WorkRemains, ControlTypes, SharedTypes, Threads, shared, local, world, history, Goto, ReleaseFor, Noted, OnlyRecord
    <2> QED BY <2>1, <2>2, <2>3, <2>4, <2>5, <2>6 DEF TypeOK
  <1>17. ASSUME Close PROVE TypeOK'
    <2>1. SharedTypes'
      BY <1>0, <1>17
      DEF Close, SharedTypes, Threads, shared, local, world, history, Goto, ReleaseFor
    <2>2. ControlTypes'
      BY <1>0, <1>17
      DEF Close, ControlTypes, Threads, Pcs, Reasons, shared, local, world, history, Goto, ReleaseFor
    <2>3. ClockTypes'
      BY <1>0, <1>17
      DEF Close, ClockTypes, Threads, shared, local, world, history, Goto, ReleaseFor
    <2>4. WorldTypes'
      BY <1>0, <1>17
      DEF Close, WorldTypes, Threads, shared, local, world, history, Goto, ReleaseFor
    <2>5. LockDiscipline'
      BY <1>0, <1>17
      DEF Close, LockDiscipline, ControlTypes, SharedTypes, Threads, shared, local, world, history, Goto, ReleaseFor
    <2>6. WorkRemains'
      BY <1>0, <1>17
      DEF Close, WorkRemains, ControlTypes, Threads, shared, local, world, history, Goto, ReleaseFor
    <2> QED BY <2>1, <2>2, <2>3, <2>4, <2>5, <2>6 DEF TypeOK
  <1>18. ASSUME CloseReceipt PROVE TypeOK'
    <2>1. SharedTypes'
      BY <1>0, <1>18
      DEF CloseReceipt, SharedTypes, Threads, shared, local, world, history, Goto, ReleaseFor, OnlyReturn, Leave
    <2>2. ControlTypes'
      BY <1>0, <1>18
      DEF CloseReceipt, ControlTypes, Threads, Pcs, Reasons, shared, local, world, history, Goto, ReleaseFor, OnlyReturn, Leave
    <2>3. ClockTypes'
      BY <1>0, <1>18
      DEF CloseReceipt, ClockTypes, Threads, shared, local, world, history, Goto, ReleaseFor, OnlyReturn, Leave
    <2>4. WorldTypes'
      BY <1>0, <1>18
      DEF CloseReceipt, WorldTypes, Threads, shared, local, world, history, Goto, ReleaseFor, OnlyReturn, Leave
    <2>5. LockDiscipline'
      BY <1>0, <1>18
      DEF CloseReceipt, LockDiscipline, ControlTypes, SharedTypes, Threads, shared, local, world, history, Goto, ReleaseFor, OnlyReturn, Leave
    <2>6. WorkRemains'
      BY <1>0, <1>18
      DEF CloseReceipt, WorkRemains, ControlTypes, Threads, shared, local, world, history, Goto, ReleaseFor, OnlyReturn, Leave
    <2> QED BY <2>1, <2>2, <2>3, <2>4, <2>5, <2>6 DEF TypeOK
  <1>19. ASSUME Cancel PROVE TypeOK'
    <2>1. SharedTypes'
      BY <1>0, <1>19
      DEF Cancel, SharedTypes, Threads, shared, local, world, history, Goto, ReleaseFor
    <2>2. ControlTypes'
      BY <1>0, <1>19
      DEF Cancel, ControlTypes, Threads, Pcs, Reasons, shared, local, world, history, Goto, ReleaseFor
    <2>3. ClockTypes'
      BY <1>0, <1>19
      DEF Cancel, ClockTypes, Threads, shared, local, world, history, Goto, ReleaseFor
    <2>4. WorldTypes'
      BY <1>0, <1>19
      DEF Cancel, WorldTypes, Threads, shared, local, world, history, Goto, ReleaseFor
    <2>5. LockDiscipline'
      BY <1>0, <1>19
      DEF Cancel, LockDiscipline, ControlTypes, SharedTypes, Threads, shared, local, world, history, Goto, ReleaseFor
    <2>6. WorkRemains'
      BY <1>0, <1>19
      DEF Cancel, WorkRemains, ControlTypes, Threads, shared, local, world, history, Goto, ReleaseFor
    <2> QED BY <2>1, <2>2, <2>3, <2>4, <2>5, <2>6 DEF TypeOK
  <1>20. ASSUME FocusChanges PROVE TypeOK'
    <2>1. SharedTypes'
      BY <1>0, <1>20
      DEF FocusChanges, SharedTypes, Threads, shared, local, world, history, Goto, ReleaseFor
    <2>2. ControlTypes'
      BY <1>0, <1>20
      DEF FocusChanges, ControlTypes, Threads, Pcs, Reasons, shared, local, world, history, Goto, ReleaseFor
    <2>3. ClockTypes'
      BY <1>0, <1>20
      DEF FocusChanges, ClockTypes, Threads, shared, local, world, history, Goto, ReleaseFor
    <2>4. WorldTypes'
      BY <1>0, <1>20
      DEF FocusChanges, WorldTypes, Threads, shared, local, world, history, Goto, ReleaseFor
    <2>5. LockDiscipline'
      BY <1>0, <1>20
      DEF FocusChanges, LockDiscipline, ControlTypes, SharedTypes, Threads, shared, local, world, history, Goto, ReleaseFor
    <2>6. WorkRemains'
      BY <1>0, <1>20
      DEF FocusChanges, WorkRemains, ControlTypes, Threads, shared, local, world, history, Goto, ReleaseFor
    <2> QED BY <2>1, <2>2, <2>3, <2>4, <2>5, <2>6 DEF TypeOK
  <1>21. ASSUME Tick PROVE TypeOK'
    <2>1. SharedTypes'
      BY <1>0, <1>21
      DEF Tick, SharedTypes, Threads, shared, local, world, history, Goto, ReleaseFor
    <2>2. ControlTypes'
      BY <1>0, <1>21
      DEF Tick, ControlTypes, Threads, Pcs, Reasons, shared, local, world, history, Goto, ReleaseFor
    <2>3. ClockTypes'
      BY <1>0, <1>21
      DEF Tick, ClockTypes, Threads, shared, local, world, history, Goto, ReleaseFor
    <2>4. WorldTypes'
      BY <1>0, <1>21
      DEF Tick, WorldTypes, Threads, shared, local, world, history, Goto, ReleaseFor
    <2>5. LockDiscipline'
      BY <1>0, <1>21
      DEF Tick, LockDiscipline, ControlTypes, SharedTypes, Threads, shared, local, world, history, Goto, ReleaseFor
    <2>6. WorkRemains'
      BY <1>0, <1>21
      DEF Tick, WorkRemains, ControlTypes, Threads, shared, local, world, history, Goto, ReleaseFor
    <2> QED BY <2>1, <2>2, <2>3, <2>4, <2>5, <2>6 DEF TypeOK
  <1>22. CASE UNCHANGED vars
    BY <1>22 DEF vars, TypeOK, SharedTypes, ControlTypes, ClockTypes, WorldTypes, LockDiscipline, WorkRemains, shared, local, world, history, Goto, ReleaseFor
  <1> QED BY <1>1, <1>2, <1>3, <1>4, <1>5, <1>6, <1>7, <1>8, <1>9, <1>10, <1>11, <1>12, <1>13, <1>14, <1>15, <1>16, <1>17, <1>18, <1>19, <1>20, <1>21, <1>22
       DEF Next, ApplyStep, ReleaseStep

\* Every value keeps its type, and the locks are held exactly where apply_bounded
\* and _press_scan_code hold them.
THEOREM SinkTypeCorrect == Spec => []TypeOK
  BY InitType, NextType, PTL DEF Spec

-----------------------------------------------------------------------------
(* No held key is forgotten.                                               *)

\* The keys a thread still answers for: those it claimed, but for the one whose
\* key-up it has just seen acknowledged.
Due(t) ==
  IF pc[t] = "record" /\ lifted[t] THEN Range(Tail(claimed[t])) ELSE Range(claimed[t])

AccountInv == \A k \in down : k \in Range(owned) \/ \E t \in Threads : k \in Due(t)

LEMMA NothingClaimed == Range(<<>>) = {}
  BY DEF Range

LEMMA ClaimedKeys ==
  ASSUME TypeOK, NEW t \in Threads
  PROVE  /\ claimed[t] \in Seq(Keys)
         /\ pc[t] \in {"up", "record"} <=> claimed[t] # <<>>
  BY DEF TypeOK, ControlTypes, WorkRemains

LEMMA NextAccount == TypeOK /\ AccountInv /\ [Next]_vars => AccountInv'
  <1> SUFFICES ASSUME TypeOK, AccountInv, [Next]_vars PROVE AccountInv'
    OBVIOUS
  <1>0. /\ owned \in Seq(Keys) /\ lifted \in [Threads -> BOOLEAN]
        /\ pc \in [Threads -> Pcs] /\ claimed \in [Threads -> Seq(Keys)]
        /\ todo \in [Threads -> Seq(Keys)]
    BY DEF TypeOK, SharedTypes, ControlTypes
  <1>1. ASSUME NEW a \in Appliers, Begin(a) PROVE AccountInv'
    <2>1. \A u \in Threads : Due(u)' = Due(u)
      BY <1>0, <1>1 DEF Due, Begin, Threads, shared, local, world, history, Goto, ReleaseFor
    <2>2. owned' = owned /\ down' = down
      BY <1>1 DEF Begin, shared, local, world, history, Goto, ReleaseFor
    <2> QED BY <2>1, <2>2 DEF AccountInv
  <1>2. ASSUME NEW a \in Appliers, Validate(a) PROVE AccountInv'
    <2>1. \A u \in Threads : Due(u)' = Due(u)
      BY <1>0, <1>2 DEF Due, Validate, Threads, shared, local, world, history, Goto, ReleaseFor, OnlyApply
    <2>2. owned' = owned /\ down' = down
      BY <1>2 DEF Validate, shared, local, world, history, Goto, ReleaseFor, OnlyApply
    <2> QED BY <2>1, <2>2 DEF AccountInv
  <1>3. ASSUME NEW a \in Appliers, Submit(a) PROVE AccountInv'
    <2>1. \A u \in Threads : Due(u)' = Due(u)
      BY <1>0, <1>3 DEF Due, Submit, Threads, shared, local, world, history, Goto, ReleaseFor, OnlyApply
    <2>2. owned' = owned /\ down' = down
      BY <1>3 DEF Submit, shared, local, world, history, Goto, ReleaseFor, OnlyApply
    <2> QED BY <2>1, <2>2 DEF AccountInv
  <1>4. ASSUME NEW a \in Appliers, Send(a) PROVE AccountInv'
    <2>1. a \in Threads /\ todo[a] \in Seq(Keys) /\ todo[a] # <<>>
      BY <1>0, <1>4 DEF Send, TypeOK, WorkRemains, Threads
    <2>2. Head(todo[a]) \in Keys
      BY <2>1, HeadAndTail
    <2>3. Range(owned') = Range(owned) \cup {Head(todo[a])} /\ down' \subseteq down \cup {Head(todo[a])}
      BY <1>4, <1>0, <2>2, OwnAdds DEF Send
    <2>4. \A t \in Threads : Due(t)' = Due(t)
      BY <1>0, <1>4, <2>1 DEF Due, Send, shared, local, world, history, Goto, ReleaseFor
    <2> QED BY <2>3, <2>4 DEF AccountInv
  <1>5. ASSUME NEW a \in Appliers, ReadDownAt(a) PROVE AccountInv'
    <2>1. \A u \in Threads : Due(u)' = Due(u)
      BY <1>0, <1>5 DEF Due, ReadDownAt, Threads, shared, local, world, history, Goto, ReleaseFor, OnlyApply
    <2>2. owned' = owned /\ down' = down
      BY <1>5 DEF ReadDownAt, shared, local, world, history, Goto, ReleaseFor, OnlyApply
    <2> QED BY <2>1, <2>2 DEF AccountInv
  <1>6. ASSUME NEW a \in Appliers, CheckDown(a) PROVE AccountInv'
    <2>1. \A u \in Threads : Due(u)' = Due(u)
      BY <1>0, <1>6 DEF Due, CheckDown, Threads, shared, local, world, history, Goto, ReleaseFor
    <2>2. owned' = owned /\ down' = down
      BY <1>6 DEF CheckDown, shared, local, world, history, Goto, ReleaseFor
    <2> QED BY <2>1, <2>2 DEF AccountInv
  <1>7. ASSUME NEW a \in Appliers, HoldUntil(a) PROVE AccountInv'
    <2>1. \A u \in Threads : Due(u)' = Due(u)
      BY <1>0, <1>7 DEF Due, HoldUntil, Threads, shared, local, world, history, Goto, ReleaseFor, OnlyApply
    <2>2. owned' = owned /\ down' = down
      BY <1>7 DEF HoldUntil, shared, local, world, history, Goto, ReleaseFor, OnlyApply
    <2> QED BY <2>1, <2>2 DEF AccountInv
  <1>8. ASSUME NEW a \in Appliers, ReleasedForReturn(a) PROVE AccountInv'
    <2>1. \A u \in Threads : Due(u)' = Due(u)
      BY <1>0, <1>8 DEF Due, ReleasedForReturn, Threads, shared, local, world, history, Goto, ReleaseFor, OnlyReturn, KeepLocals
    <2>2. owned' = owned /\ down' = down
      BY <1>8 DEF ReleasedForReturn, shared, local, world, history, Goto, ReleaseFor, OnlyReturn, KeepLocals
    <2> QED BY <2>1, <2>2 DEF AccountInv
  <1>9. ASSUME NEW a \in Appliers, ReleasedToUnwind(a) PROVE AccountInv'
    <2>1. \A u \in Threads : Due(u)' = Due(u)
      BY <1>0, <1>9 DEF Due, ReleasedToUnwind, Threads, shared, local, world, history, Goto, ReleaseFor, OnlyReturn, KeepLocals
    <2>2. owned' = owned /\ down' = down
      BY <1>9 DEF ReleasedToUnwind, shared, local, world, history, Goto, ReleaseFor, OnlyReturn, KeepLocals
    <2> QED BY <2>1, <2>2 DEF AccountInv
  <1>10. ASSUME NEW a \in Appliers, Raise(a) PROVE AccountInv'
    <2>1. \A u \in Threads : Due(u)' = Due(u)
      BY <1>0, <1>10 DEF Due, Raise, Threads, shared, local, world, history, Goto, ReleaseFor, OnlyReturn, EndApply, Leave
    <2>2. owned' = owned /\ down' = down
      BY <1>10 DEF Raise, shared, local, world, history, Goto, ReleaseFor, OnlyReturn, EndApply, Leave
    <2> QED BY <2>1, <2>2 DEF AccountInv
  <1>11. ASSUME NEW a \in Appliers, Commit(a) PROVE AccountInv'
    <2>1. \A u \in Threads : Due(u)' = Due(u)
      BY <1>0, <1>11 DEF Due, Commit, Threads, shared, local, world, history, Goto, ReleaseFor, OnlyReturn, KeepLocals, EndApply, Leave
    <2>2. owned' = owned /\ down' = down
      BY <1>11 DEF Commit, shared, local, world, history, Goto, ReleaseFor, OnlyReturn, KeepLocals, EndApply, Leave
    <2> QED BY <2>1, <2>2 DEF AccountInv
  <1>12. ASSUME NEW r \in Releasers, ReleaseAll(r) PROVE AccountInv'
    <2>1. \A u \in Threads : Due(u)' = Due(u)
      BY <1>0, <1>12 DEF Due, ReleaseAll, Threads, shared, local, world, history, Goto, ReleaseFor, OnlyReturn, KeepLocals
    <2>2. owned' = owned /\ down' = down
      BY <1>12 DEF ReleaseAll, shared, local, world, history, Goto, ReleaseFor, OnlyReturn, KeepLocals
    <2> QED BY <2>1, <2>2 DEF AccountInv
  <1>13. ASSUME NEW r \in Releasers, ReleaseAllEnds(r) PROVE AccountInv'
    <2>1. \A u \in Threads : Due(u)' = Due(u)
      BY <1>0, <1>13 DEF Due, ReleaseAllEnds, Threads, shared, local, world, history, Goto, ReleaseFor, OnlyReturn, Leave
    <2>2. owned' = owned /\ down' = down
      BY <1>13 DEF ReleaseAllEnds, shared, local, world, history, Goto, ReleaseFor, OnlyReturn, Leave
    <2> QED BY <2>1, <2>2 DEF AccountInv
  <1>14. ASSUME NEW t \in Threads, Claim(t) PROVE AccountInv'
    <2>1. claimed[t] = <<>>
      BY <1>14, ClaimedKeys DEF Claim
    <2>2. owned' = <<>> /\ down' = down /\ claimed'[t] = Reverse(owned) /\ pc'[t] # "record"
      BY <1>0, <1>14 DEF Claim, shared, local, world, history, Goto, ReleaseFor, TakeOwned
    <2>3. Due(t)' = Range(owned)
      BY <1>0, <2>2, ReverseKeeps DEF Due
    <2>4. \A u \in Threads : u # t => Due(u)' = Due(u)
      BY <1>0, <1>14 DEF Due, Claim, shared, local, world, history, Goto, ReleaseFor, TakeOwned
    <2>5. Due(t) = {}
      BY <1>14, <2>1, NothingClaimed DEF Due, Claim
    <2> QED BY <2>2, <2>3, <2>4, <2>5 DEF AccountInv
  <1>15. ASSUME NEW t \in Threads, KeyUp(t) PROVE AccountInv'
    <2>1. claimed[t] \in Seq(Keys) /\ claimed[t] # <<>>
      BY <1>15, ClaimedKeys DEF KeyUp
    <2>2. Range(claimed[t]) = {Head(claimed[t])} \cup Range(Tail(claimed[t]))
      BY <2>1, HeadAndTail
    <2>3. owned' = owned /\ claimed' = claimed /\ pc'[t] = "record" /\ Due(t) = Range(claimed[t])
      BY <1>0, <1>15 DEF Due, KeyUp, shared, local, world, history, Goto, ReleaseFor, Noted
    <2>4. \A u \in Threads : u # t => Due(u)' = Due(u)
      BY <1>0, <1>15 DEF Due, KeyUp, shared, local, world, history, Goto, ReleaseFor, Noted
    <2>5. CASE down' = down \ {Head(claimed[t])} /\ lifted' = [lifted EXCEPT ![t] = TRUE]
      <3>1. Due(t)' = Range(Tail(claimed[t]))
        BY <1>0, <2>3, <2>5 DEF Due
      <3> QED BY <2>2, <2>3, <2>4, <2>5, <3>1 DEF AccountInv
    <2>6. CASE down' \subseteq down /\ lifted' = [lifted EXCEPT ![t] = FALSE]
      <3>1. Due(t)' = Range(claimed[t])
        BY <1>0, <2>3, <2>6 DEF Due
      <3> QED BY <2>3, <2>4, <2>6, <3>1 DEF AccountInv
    <2> QED BY <1>15, <2>5, <2>6 DEF KeyUp
  <1>16. ASSUME NEW t \in Threads, Record(t) PROVE AccountInv'
    <2>1. claimed[t] \in Seq(Keys) /\ claimed[t] # <<>>
      BY <1>16, ClaimedKeys DEF Record
    <2>2. /\ Range(claimed[t]) = {Head(claimed[t])} \cup Range(Tail(claimed[t]))
          /\ Head(claimed[t]) \in Keys
      BY <2>1, HeadAndTail
    <2>3. down' = down /\ Due(t)' = Range(Tail(claimed[t]))
      BY <1>0, <1>16 DEF Due, Record, shared, local, world, history, Goto, ReleaseFor, Noted, OnlyRecord
    <2>4. \A u \in Threads : u # t => Due(u)' = Due(u)
      BY <1>0, <1>16 DEF Due, Record, shared, local, world, history, Goto, ReleaseFor, Noted, OnlyRecord
    <2>5. CASE lifted[t]
      <3>1. owned' = owned /\ Due(t) = Range(Tail(claimed[t]))
        BY <1>16, <2>5 DEF Record, Due
      <3> QED BY <2>3, <2>4, <3>1 DEF AccountInv
    <2>6. CASE ~lifted[t]
      <3>1. Range(owned') = Range(owned) \cup {Head(claimed[t])}
        BY <1>0, <1>16, <2>2, <2>6, OwnAdds DEF Record
      <3>2. Due(t) = Range(claimed[t])
        BY <2>6 DEF Due
      <3> QED BY <2>2, <2>3, <2>4, <3>1, <3>2 DEF AccountInv
    <2> QED BY <2>5, <2>6
  <1>17. ASSUME Close PROVE AccountInv'
    <2>1. \A u \in Threads : Due(u)' = Due(u)
      BY <1>0, <1>17 DEF Due, Close, Threads, shared, local, world, history, Goto, ReleaseFor
    <2>2. owned' = owned /\ down' = down
      BY <1>17 DEF Close, shared, local, world, history, Goto, ReleaseFor
    <2> QED BY <2>1, <2>2 DEF AccountInv
  <1>18. ASSUME CloseReceipt PROVE AccountInv'
    <2>1. \A u \in Threads : Due(u)' = Due(u)
      BY <1>0, <1>18 DEF Due, CloseReceipt, Threads, shared, local, world, history, Goto, ReleaseFor, OnlyReturn, Leave
    <2>2. owned' = owned /\ down' = down
      BY <1>18 DEF CloseReceipt, shared, local, world, history, Goto, ReleaseFor, OnlyReturn, Leave
    <2> QED BY <2>1, <2>2 DEF AccountInv
  <1>19. ASSUME Cancel PROVE AccountInv'
    <2>1. \A u \in Threads : Due(u)' = Due(u)
      BY <1>0, <1>19 DEF Due, Cancel, Threads, shared, local, world, history, Goto, ReleaseFor
    <2>2. owned' = owned /\ down' = down
      BY <1>19 DEF Cancel, shared, local, world, history, Goto, ReleaseFor
    <2> QED BY <2>1, <2>2 DEF AccountInv
  <1>20. ASSUME FocusChanges PROVE AccountInv'
    <2>1. \A u \in Threads : Due(u)' = Due(u)
      BY <1>0, <1>20 DEF Due, FocusChanges, Threads, shared, local, world, history, Goto, ReleaseFor
    <2>2. owned' = owned /\ down' = down
      BY <1>20 DEF FocusChanges, shared, local, world, history, Goto, ReleaseFor
    <2> QED BY <2>1, <2>2 DEF AccountInv
  <1>21. ASSUME Tick PROVE AccountInv'
    <2>1. \A u \in Threads : Due(u)' = Due(u)
      BY <1>0, <1>21 DEF Due, Tick, Threads, shared, local, world, history, Goto, ReleaseFor
    <2>2. owned' = owned /\ down' = down
      BY <1>21 DEF Tick, shared, local, world, history, Goto, ReleaseFor
    <2> QED BY <2>1, <2>2 DEF AccountInv
  <1>22. CASE UNCHANGED vars
    BY <1>22 DEF vars, AccountInv, Due, shared, local, world, history, Goto, ReleaseFor
  <1> QED BY <1>1, <1>2, <1>3, <1>4, <1>5, <1>6, <1>7, <1>8, <1>9, <1>10, <1>11, <1>12, <1>13, <1>14, <1>15, <1>16, <1>17, <1>18, <1>19, <1>20, <1>21, <1>22
       DEF Next, ApplyStep, ReleaseStep

LEMMA AccountHolds == Spec => []AccountInv
  <1>1. Init => AccountInv
    BY DEF Init, AccountInv
  <1> QED BY <1>1, NextAccount, SinkTypeCorrect, PTL DEF Spec

LEMMA DueIsClaimed == TypeOK /\ AccountInv => HeldIsAccounted
  <1> SUFFICES ASSUME TypeOK, AccountInv, NEW t \in Threads
               PROVE  Due(t) \subseteq Range(claimed[t])
    BY DEF AccountInv, HeldIsAccounted
  <1>1. CASE pc[t] = "record"
    BY <1>1, ClaimedKeys, HeadAndTail DEF Due
  <1>2. CASE pc[t] # "record"
    BY <1>2 DEF Due
  <1> QED BY <1>1, <1>2

-----------------------------------------------------------------------------
(* Nothing is left when every call is over.                                *)

Ahead == {"validate", "submit", "send", "sent", "check", "hold", "claim"}

\* Every owned key has an applier on its way to a claim, and a key-up recorded
\* as failed has been counted.
OwnerInv ==
  /\ owned # <<>> => unlifted \/ \E a \in Appliers : pc[a] \in Ahead
  /\ \A t \in Threads : pc[t] = "record" => lifted[t] \/ unlifted

LEMMA NextOwner == TypeOK /\ OwnerInv /\ [Next]_vars => OwnerInv'
  <1> SUFFICES ASSUME TypeOK, OwnerInv, [Next]_vars PROVE OwnerInv'
    OBVIOUS
  <1>0. /\ lifted \in [Threads -> BOOLEAN] /\ pc \in [Threads -> Pcs]
    BY DEF TypeOK, SharedTypes, ControlTypes
  <1>1. ASSUME NEW a \in Appliers, Begin(a) PROVE OwnerInv'
    BY <1>0, <1>1 DEF OwnerInv, Ahead, Begin, Threads, shared, local, world, history, Goto, ReleaseFor
  <1>2. ASSUME NEW a \in Appliers, Validate(a) PROVE OwnerInv'
    BY <1>0, <1>2 DEF OwnerInv, Ahead, Validate, Threads, shared, local, world, history, Goto, ReleaseFor, OnlyApply
  <1>3. ASSUME NEW a \in Appliers, Submit(a) PROVE OwnerInv'
    BY <1>0, <1>3 DEF OwnerInv, Ahead, Submit, Threads, shared, local, world, history, Goto, ReleaseFor, OnlyApply
  <1>4. ASSUME NEW a \in Appliers, Send(a) PROVE OwnerInv'
    BY <1>0, <1>4 DEF OwnerInv, Ahead, Send, Threads, shared, local, world, history, Goto, ReleaseFor
  <1>5. ASSUME NEW a \in Appliers, ReadDownAt(a) PROVE OwnerInv'
    BY <1>0, <1>5 DEF OwnerInv, Ahead, ReadDownAt, Threads, shared, local, world, history, Goto, ReleaseFor, OnlyApply
  <1>6. ASSUME NEW a \in Appliers, CheckDown(a) PROVE OwnerInv'
    BY <1>0, <1>6 DEF OwnerInv, Ahead, CheckDown, Threads, shared, local, world, history, Goto, ReleaseFor
  <1>7. ASSUME NEW a \in Appliers, HoldUntil(a) PROVE OwnerInv'
    BY <1>0, <1>7 DEF OwnerInv, Ahead, HoldUntil, Threads, shared, local, world, history, Goto, ReleaseFor, OnlyApply
  <1>8. ASSUME NEW a \in Appliers, ReleasedForReturn(a) PROVE OwnerInv'
    BY <1>0, <1>8 DEF OwnerInv, Ahead, ReleasedForReturn, Threads, shared, local, world, history, Goto, ReleaseFor, OnlyReturn, KeepLocals
  <1>9. ASSUME NEW a \in Appliers, ReleasedToUnwind(a) PROVE OwnerInv'
    BY <1>0, <1>9 DEF OwnerInv, Ahead, ReleasedToUnwind, Threads, shared, local, world, history, Goto, ReleaseFor, OnlyReturn, KeepLocals
  <1>10. ASSUME NEW a \in Appliers, Raise(a) PROVE OwnerInv'
    BY <1>0, <1>10 DEF OwnerInv, Ahead, Raise, Threads, shared, local, world, history, Goto, ReleaseFor, OnlyReturn, EndApply, Leave
  <1>11. ASSUME NEW a \in Appliers, Commit(a) PROVE OwnerInv'
    BY <1>0, <1>11 DEF OwnerInv, Ahead, Commit, Threads, shared, local, world, history, Goto, ReleaseFor, OnlyReturn, KeepLocals, EndApply, Leave
  <1>12. ASSUME NEW r \in Releasers, ReleaseAll(r) PROVE OwnerInv'
    BY <1>0, <1>12 DEF OwnerInv, Ahead, ReleaseAll, Threads, shared, local, world, history, Goto, ReleaseFor, OnlyReturn, KeepLocals
  <1>13. ASSUME NEW r \in Releasers, ReleaseAllEnds(r) PROVE OwnerInv'
    BY <1>0, <1>13 DEF OwnerInv, Ahead, ReleaseAllEnds, Threads, shared, local, world, history, Goto, ReleaseFor, OnlyReturn, Leave
  <1>14. ASSUME NEW t \in Threads, Claim(t) PROVE OwnerInv'
    BY <1>0, <1>14 DEF OwnerInv, Ahead, Claim, Threads, shared, local, world, history, Goto, ReleaseFor, TakeOwned
  <1>15. ASSUME NEW t \in Threads, KeyUp(t) PROVE OwnerInv'
    BY <1>0, <1>15 DEF OwnerInv, Ahead, KeyUp, Threads, shared, local, world, history, Goto, ReleaseFor, Noted
  <1>16. ASSUME NEW t \in Threads, Record(t) PROVE OwnerInv'
    BY <1>0, <1>16 DEF OwnerInv, Ahead, Record, Threads, shared, local, world, history, Goto, ReleaseFor, Noted, OnlyRecord
  <1>17. ASSUME Close PROVE OwnerInv'
    BY <1>0, <1>17 DEF OwnerInv, Ahead, Close, Threads, shared, local, world, history, Goto, ReleaseFor
  <1>18. ASSUME CloseReceipt PROVE OwnerInv'
    BY <1>0, <1>18 DEF OwnerInv, Ahead, CloseReceipt, Threads, shared, local, world, history, Goto, ReleaseFor, OnlyReturn, Leave
  <1>19. ASSUME Cancel PROVE OwnerInv'
    BY <1>0, <1>19 DEF OwnerInv, Ahead, Cancel, Threads, shared, local, world, history, Goto, ReleaseFor
  <1>20. ASSUME FocusChanges PROVE OwnerInv'
    BY <1>0, <1>20 DEF OwnerInv, Ahead, FocusChanges, Threads, shared, local, world, history, Goto, ReleaseFor
  <1>21. ASSUME Tick PROVE OwnerInv'
    BY <1>0, <1>21 DEF OwnerInv, Ahead, Tick, Threads, shared, local, world, history, Goto, ReleaseFor
  <1>22. CASE UNCHANGED vars
    BY <1>22 DEF vars, OwnerInv, shared, local, world, history, Goto, ReleaseFor
  <1> QED BY <1>1, <1>2, <1>3, <1>4, <1>5, <1>6, <1>7, <1>8, <1>9, <1>10, <1>11, <1>12, <1>13, <1>14, <1>15, <1>16, <1>17, <1>18, <1>19, <1>20, <1>21, <1>22
       DEF Next, ApplyStep, ReleaseStep

LEMMA OwnerHolds == Spec => []OwnerInv
  <1>1. Init => OwnerInv
    BY DEF Init, OwnerInv
  <1> QED BY <1>1, NextOwner, SinkTypeCorrect, PTL DEF Spec

LEMMA AllIdleMeansNothingLeft == TypeOK /\ AccountInv /\ OwnerInv => NothingLeftHeld
  <1> SUFFICES ASSUME TypeOK, AccountInv, OwnerInv,
                      \A t \in Threads : pc[t] = "idle", ~unlifted
               PROVE  down = {} /\ owned = <<>>
    BY DEF NothingLeftHeld
  <1>1. owned = <<>>
    BY DEF OwnerInv, Ahead, Threads
  <1>2. \A t \in Threads : Due(t) = {}
    BY ClaimedKeys, NothingClaimed DEF Due
  <1> QED BY <1>1, <1>2, NothingClaimed DEF AccountInv

\* When every call is over nothing is held and nothing is owned, unless a key-up
\* was not acknowledged.
THEOREM NothingStaysHeld == Spec => []NothingLeftHeld
  BY AllIdleMeansNothingLeft, OwnerHolds, AccountHolds, SinkTypeCorrect, PTL

-----------------------------------------------------------------------------
(* close gives the receipt up after the keys.                              *)

\* From close's claim on no key-down is being submitted, and what is owned is
\* owned because a key-up was refused.
ClosedInv ==
  /\ ~receipt => closed /\ pc[Closer] # "claim"
  /\ pc[Closer] # "idle" => closed /\ why[Closer] = "close"
  /\ closed /\ pc[Closer] # "claim" =>
       /\ unlifted \/ owned = <<>>
       /\ \A a \in Appliers : pc[a] # "send"

LEMMA NextClosed == TypeOK /\ OwnerInv /\ ClosedInv /\ [Next]_vars => ClosedInv'
  <1> SUFFICES ASSUME TypeOK, OwnerInv, ClosedInv, [Next]_vars PROVE ClosedInv'
    OBVIOUS
  <1>0. /\ pc \in [Threads -> Pcs] /\ why \in [Threads -> Reasons] /\ NoOne \notin Appliers
        /\ Closer \notin Appliers /\ Closer \notin Releasers
        /\ \A a \in Appliers : pc[a] = "send" <=> subLock = a
        /\ \A t \in Threads : pc[t] = "record" => lifted[t] \/ unlifted
    BY NoOneIsOutside, SinkAssumption DEF TypeOK, ControlTypes, LockDiscipline, OwnerInv, SinkAssumption
  <1>1. ASSUME NEW a \in Appliers, Begin(a) PROVE ClosedInv'
    BY <1>0, <1>1
    DEF ClosedInv, Threads, Begin, shared, local, world, history, Goto, ReleaseFor
  <1>2. ASSUME NEW a \in Appliers, Validate(a) PROVE ClosedInv'
    BY <1>0, <1>2
    DEF ClosedInv, Threads, Validate, shared, local, world, history, Goto, ReleaseFor, OnlyApply
  <1>3. ASSUME NEW a \in Appliers, Submit(a) PROVE ClosedInv'
    BY <1>0, <1>3
    DEF ClosedInv, Threads, Submit, shared, local, world, history, Goto, ReleaseFor, OnlyApply, StillCurrent, GenerationIsCurrent
  <1>4. ASSUME NEW a \in Appliers, Send(a) PROVE ClosedInv'
    BY <1>0, <1>4
    DEF ClosedInv, Threads, Send, shared, local, world, history, Goto, ReleaseFor
  <1>5. ASSUME NEW a \in Appliers, ReadDownAt(a) PROVE ClosedInv'
    BY <1>0, <1>5
    DEF ClosedInv, Threads, ReadDownAt, shared, local, world, history, Goto, ReleaseFor, OnlyApply
  <1>6. ASSUME NEW a \in Appliers, CheckDown(a) PROVE ClosedInv'
    BY <1>0, <1>6
    DEF ClosedInv, Threads, CheckDown, shared, local, world, history, Goto, ReleaseFor
  <1>7. ASSUME NEW a \in Appliers, HoldUntil(a) PROVE ClosedInv'
    BY <1>0, <1>7
    DEF ClosedInv, Threads, HoldUntil, shared, local, world, history, Goto, ReleaseFor, OnlyApply
  <1>8. ASSUME NEW a \in Appliers, ReleasedForReturn(a) PROVE ClosedInv'
    BY <1>0, <1>8
    DEF ClosedInv, Threads, ReleasedForReturn, shared, local, world, history, Goto, ReleaseFor, OnlyReturn, KeepLocals
  <1>9. ASSUME NEW a \in Appliers, ReleasedToUnwind(a) PROVE ClosedInv'
    BY <1>0, <1>9
    DEF ClosedInv, Threads, ReleasedToUnwind, shared, local, world, history, Goto, ReleaseFor, OnlyReturn, KeepLocals
  <1>10. ASSUME NEW a \in Appliers, Raise(a) PROVE ClosedInv'
    BY <1>0, <1>10
    DEF ClosedInv, Threads, Raise, shared, local, world, history, Goto, ReleaseFor, OnlyReturn, EndApply, Leave
  <1>11. ASSUME NEW a \in Appliers, Commit(a) PROVE ClosedInv'
    BY <1>0, <1>11
    DEF ClosedInv, Threads, Commit, shared, local, world, history, Goto, ReleaseFor, OnlyReturn, KeepLocals, EndApply, Leave
  <1>12. ASSUME NEW r \in Releasers, ReleaseAll(r) PROVE ClosedInv'
    BY <1>0, <1>12
    DEF ClosedInv, Threads, ReleaseAll, shared, local, world, history, Goto, ReleaseFor, OnlyReturn, KeepLocals
  <1>13. ASSUME NEW r \in Releasers, ReleaseAllEnds(r) PROVE ClosedInv'
    BY <1>0, <1>13
    DEF ClosedInv, Threads, ReleaseAllEnds, shared, local, world, history, Goto, ReleaseFor, OnlyReturn, Leave
  <1>14. ASSUME NEW t \in Threads, Claim(t) PROVE ClosedInv'
    BY <1>0, <1>14
    DEF ClosedInv, Threads, Claim, shared, local, world, history, Goto, ReleaseFor, TakeOwned, Revokes
  <1>15. ASSUME NEW t \in Threads, KeyUp(t) PROVE ClosedInv'
    BY <1>0, <1>15
    DEF ClosedInv, Threads, KeyUp, shared, local, world, history, Goto, ReleaseFor, Noted
  <1>16. ASSUME NEW t \in Threads, Record(t) PROVE ClosedInv'
    BY <1>0, <1>16
    DEF ClosedInv, Threads, Record, shared, local, world, history, Goto, ReleaseFor, Noted, OnlyRecord
  <1>17. ASSUME Close PROVE ClosedInv'
    BY <1>0, <1>17
    DEF ClosedInv, Threads, Close, shared, local, world, history, Goto, ReleaseFor
  <1>18. ASSUME CloseReceipt PROVE ClosedInv'
    BY <1>0, <1>18
    DEF ClosedInv, Threads, CloseReceipt, shared, local, world, history, Goto, ReleaseFor, OnlyReturn, Leave
  <1>19. ASSUME Cancel PROVE ClosedInv'
    BY <1>0, <1>19
    DEF ClosedInv, Threads, Cancel, shared, local, world, history, Goto, ReleaseFor
  <1>20. ASSUME FocusChanges PROVE ClosedInv'
    BY <1>0, <1>20
    DEF ClosedInv, Threads, FocusChanges, shared, local, world, history, Goto, ReleaseFor
  <1>21. ASSUME Tick PROVE ClosedInv'
    BY <1>0, <1>21
    DEF ClosedInv, Threads, Tick, shared, local, world, history, Goto, ReleaseFor
  <1>22. CASE UNCHANGED vars
    BY <1>22 DEF vars, ClosedInv, shared, local, world, history, Goto, ReleaseFor
  <1> QED BY <1>1, <1>2, <1>3, <1>4, <1>5, <1>6, <1>7, <1>8, <1>9, <1>10, <1>11, <1>12, <1>13, <1>14, <1>15, <1>16, <1>17, <1>18, <1>19, <1>20, <1>21, <1>22
       DEF Next, ApplyStep, ReleaseStep

\* No key is ever held that the sink does not remember, whatever the backend
\* acknowledges and however releases overlap, and close gives the receipt up with
\* no key left but those another thread is lifting.
THEOREM NoKeyForgotten == Spec => []KeysAreAccounted
  <1>1. Init => ClosedInv
    BY NoOneIsOutside DEF Init, ClosedInv, Threads
  <1>2. Spec => []ClosedInv
    BY <1>1, NextClosed, OwnerHolds, SinkTypeCorrect, PTL DEF Spec
  <1>3. HeldIsAccounted /\ ClosedInv => KeysAreAccounted
    BY NothingClaimed DEF HeldIsAccounted, ClosedInv, ReceiptOutlivesKeys, KeysAreAccounted
  <1> QED BY <1>2, <1>3, DueIsClaimed, AccountHolds, SinkTypeCorrect, PTL

-----------------------------------------------------------------------------
(* No key-down of a revoked apply.                                         *)

PressInv == \A a \in Appliers : pc[a] = "send" => pending = gen

LEMMA NextPress == TypeOK /\ PressInv /\ [Next]_vars => PressInv'
  <1> SUFFICES ASSUME TypeOK, PressInv, [Next]_vars PROVE PressInv'
    OBVIOUS
  <1>0. /\ pc \in [Threads -> Pcs] /\ NoOne \notin Appliers
        /\ \A a \in Appliers : pc[a] = "send" <=> subLock = a
    BY NoOneIsOutside DEF TypeOK, ControlTypes, LockDiscipline
  <1>1. ASSUME NEW a \in Appliers, Begin(a) PROVE PressInv'
    BY <1>0, <1>1 DEF PressInv, Begin, Threads, shared, local, world, history, Goto, ReleaseFor
  <1>2. ASSUME NEW a \in Appliers, Validate(a) PROVE PressInv'
    BY <1>0, <1>2 DEF PressInv, Validate, Threads, shared, local, world, history, Goto, ReleaseFor, OnlyApply
  <1>3. ASSUME NEW a \in Appliers, Submit(a) PROVE PressInv'
    BY <1>0, <1>3 DEF PressInv, Submit, Threads, shared, local, world, history, Goto, ReleaseFor, OnlyApply, StillCurrent, GenerationIsCurrent
  <1>4. ASSUME NEW a \in Appliers, Send(a) PROVE PressInv'
    BY <1>0, <1>4 DEF PressInv, Send, Threads, shared, local, world, history, Goto, ReleaseFor
  <1>5. ASSUME NEW a \in Appliers, ReadDownAt(a) PROVE PressInv'
    BY <1>0, <1>5 DEF PressInv, ReadDownAt, Threads, shared, local, world, history, Goto, ReleaseFor, OnlyApply
  <1>6. ASSUME NEW a \in Appliers, CheckDown(a) PROVE PressInv'
    BY <1>0, <1>6 DEF PressInv, CheckDown, Threads, shared, local, world, history, Goto, ReleaseFor
  <1>7. ASSUME NEW a \in Appliers, HoldUntil(a) PROVE PressInv'
    BY <1>0, <1>7 DEF PressInv, HoldUntil, Threads, shared, local, world, history, Goto, ReleaseFor, OnlyApply
  <1>8. ASSUME NEW a \in Appliers, ReleasedForReturn(a) PROVE PressInv'
    BY <1>0, <1>8 DEF PressInv, ReleasedForReturn, Threads, shared, local, world, history, Goto, ReleaseFor, OnlyReturn, KeepLocals
  <1>9. ASSUME NEW a \in Appliers, ReleasedToUnwind(a) PROVE PressInv'
    BY <1>0, <1>9 DEF PressInv, ReleasedToUnwind, Threads, shared, local, world, history, Goto, ReleaseFor, OnlyReturn, KeepLocals
  <1>10. ASSUME NEW a \in Appliers, Raise(a) PROVE PressInv'
    BY <1>0, <1>10 DEF PressInv, Raise, Threads, shared, local, world, history, Goto, ReleaseFor, OnlyReturn, EndApply, Leave
  <1>11. ASSUME NEW a \in Appliers, Commit(a) PROVE PressInv'
    BY <1>0, <1>11 DEF PressInv, Commit, Threads, shared, local, world, history, Goto, ReleaseFor, OnlyReturn, KeepLocals, EndApply, Leave
  <1>12. ASSUME NEW r \in Releasers, ReleaseAll(r) PROVE PressInv'
    BY <1>0, <1>12 DEF PressInv, ReleaseAll, Threads, shared, local, world, history, Goto, ReleaseFor, OnlyReturn, KeepLocals
  <1>13. ASSUME NEW r \in Releasers, ReleaseAllEnds(r) PROVE PressInv'
    BY <1>0, <1>13 DEF PressInv, ReleaseAllEnds, Threads, shared, local, world, history, Goto, ReleaseFor, OnlyReturn, Leave
  <1>14. ASSUME NEW t \in Threads, Claim(t) PROVE PressInv'
    BY <1>0, <1>14 DEF PressInv, Claim, Threads, shared, local, world, history, Goto, ReleaseFor, TakeOwned
  <1>15. ASSUME NEW t \in Threads, KeyUp(t) PROVE PressInv'
    BY <1>0, <1>15 DEF PressInv, KeyUp, Threads, shared, local, world, history, Goto, ReleaseFor, Noted
  <1>16. ASSUME NEW t \in Threads, Record(t) PROVE PressInv'
    BY <1>0, <1>16 DEF PressInv, Record, Threads, shared, local, world, history, Goto, ReleaseFor, Noted, OnlyRecord
  <1>17. ASSUME Close PROVE PressInv'
    BY <1>0, <1>17 DEF PressInv, Close, Threads, shared, local, world, history, Goto, ReleaseFor
  <1>18. ASSUME CloseReceipt PROVE PressInv'
    BY <1>0, <1>18 DEF PressInv, CloseReceipt, Threads, shared, local, world, history, Goto, ReleaseFor, OnlyReturn, Leave
  <1>19. ASSUME Cancel PROVE PressInv'
    BY <1>0, <1>19 DEF PressInv, Cancel, Threads, shared, local, world, history, Goto, ReleaseFor
  <1>20. ASSUME FocusChanges PROVE PressInv'
    BY <1>0, <1>20 DEF PressInv, FocusChanges, Threads, shared, local, world, history, Goto, ReleaseFor
  <1>21. ASSUME Tick PROVE PressInv'
    BY <1>0, <1>21 DEF PressInv, Tick, Threads, shared, local, world, history, Goto, ReleaseFor
  <1>22. CASE UNCHANGED vars
    BY <1>22 DEF vars, PressInv, shared, local, world, history, Goto, ReleaseFor
  <1> QED BY <1>1, <1>2, <1>3, <1>4, <1>5, <1>6, <1>7, <1>8, <1>9, <1>10, <1>11, <1>12, <1>13, <1>14, <1>15, <1>16, <1>17, <1>18, <1>19, <1>20, <1>21, <1>22
       DEF Next, ApplyStep, ReleaseStep

LEMMA OnlySendPresses == TypeOK /\ PressInv /\ [Next]_vars => PressIsCurrent
  <1> SUFFICES ASSUME PressInv, [Next]_vars, ~(down' \subseteq down) PROVE pending = gen
    BY DEF PressIsCurrent
  <1>1. ASSUME NEW a \in Appliers, Begin(a) PROVE pending = gen
    BY <1>1 DEF PressInv, Begin, shared, local, world, history, Goto, ReleaseFor
  <1>2. ASSUME NEW a \in Appliers, Validate(a) PROVE pending = gen
    BY <1>2 DEF PressInv, Validate, shared, local, world, history, Goto, ReleaseFor, OnlyApply
  <1>3. ASSUME NEW a \in Appliers, Submit(a) PROVE pending = gen
    BY <1>3 DEF PressInv, Submit, shared, local, world, history, Goto, ReleaseFor, OnlyApply
  <1>4. ASSUME NEW a \in Appliers, Send(a) PROVE pending = gen
    BY <1>4 DEF PressInv, Send, shared, local, world, history, Goto, ReleaseFor
  <1>5. ASSUME NEW a \in Appliers, ReadDownAt(a) PROVE pending = gen
    BY <1>5 DEF PressInv, ReadDownAt, shared, local, world, history, Goto, ReleaseFor, OnlyApply
  <1>6. ASSUME NEW a \in Appliers, CheckDown(a) PROVE pending = gen
    BY <1>6 DEF PressInv, CheckDown, shared, local, world, history, Goto, ReleaseFor
  <1>7. ASSUME NEW a \in Appliers, HoldUntil(a) PROVE pending = gen
    BY <1>7 DEF PressInv, HoldUntil, shared, local, world, history, Goto, ReleaseFor, OnlyApply
  <1>8. ASSUME NEW a \in Appliers, ReleasedForReturn(a) PROVE pending = gen
    BY <1>8 DEF PressInv, ReleasedForReturn, shared, local, world, history, Goto, ReleaseFor, OnlyReturn, KeepLocals
  <1>9. ASSUME NEW a \in Appliers, ReleasedToUnwind(a) PROVE pending = gen
    BY <1>9 DEF PressInv, ReleasedToUnwind, shared, local, world, history, Goto, ReleaseFor, OnlyReturn, KeepLocals
  <1>10. ASSUME NEW a \in Appliers, Raise(a) PROVE pending = gen
    BY <1>10 DEF PressInv, Raise, shared, local, world, history, Goto, ReleaseFor, OnlyReturn, EndApply, Leave
  <1>11. ASSUME NEW a \in Appliers, Commit(a) PROVE pending = gen
    BY <1>11 DEF PressInv, Commit, shared, local, world, history, Goto, ReleaseFor, OnlyReturn, KeepLocals, EndApply, Leave
  <1>12. ASSUME NEW r \in Releasers, ReleaseAll(r) PROVE pending = gen
    BY <1>12 DEF PressInv, ReleaseAll, shared, local, world, history, Goto, ReleaseFor, OnlyReturn, KeepLocals
  <1>13. ASSUME NEW r \in Releasers, ReleaseAllEnds(r) PROVE pending = gen
    BY <1>13 DEF PressInv, ReleaseAllEnds, shared, local, world, history, Goto, ReleaseFor, OnlyReturn, Leave
  <1>14. ASSUME NEW t \in Threads, Claim(t) PROVE pending = gen
    BY <1>14 DEF PressInv, Claim, shared, local, world, history, Goto, ReleaseFor, TakeOwned
  <1>15. ASSUME NEW t \in Threads, KeyUp(t) PROVE pending = gen
    BY <1>15 DEF PressInv, KeyUp, shared, local, world, history, Goto, ReleaseFor, Noted
  <1>16. ASSUME NEW t \in Threads, Record(t) PROVE pending = gen
    BY <1>16 DEF PressInv, Record, shared, local, world, history, Goto, ReleaseFor, Noted, OnlyRecord
  <1>17. ASSUME Close PROVE pending = gen
    BY <1>17 DEF PressInv, Close, shared, local, world, history, Goto, ReleaseFor
  <1>18. ASSUME CloseReceipt PROVE pending = gen
    BY <1>18 DEF PressInv, CloseReceipt, shared, local, world, history, Goto, ReleaseFor, OnlyReturn, Leave
  <1>19. ASSUME Cancel PROVE pending = gen
    BY <1>19 DEF PressInv, Cancel, shared, local, world, history, Goto, ReleaseFor
  <1>20. ASSUME FocusChanges PROVE pending = gen
    BY <1>20 DEF PressInv, FocusChanges, shared, local, world, history, Goto, ReleaseFor
  <1>21. ASSUME Tick PROVE pending = gen
    BY <1>21 DEF PressInv, Tick, shared, local, world, history, Goto, ReleaseFor
  <1>22. CASE UNCHANGED vars
    BY <1>22 DEF vars
  <1> QED BY <1>1, <1>2, <1>3, <1>4, <1>5, <1>6, <1>7, <1>8, <1>9, <1>10, <1>11, <1>12, <1>13, <1>14, <1>15, <1>16, <1>17, <1>18, <1>19, <1>20, <1>21, <1>22
       DEF Next, ApplyStep, ReleaseStep

\* Once release_all or close has revoked an apply, no key-down of it reaches the
\* window, not even one already past every check.
THEOREM RevocationIsFinal == Spec => NoPressAfterRevocation
  <1>1. Init => PressInv
    BY DEF Init, PressInv, Threads
  <1> QED BY <1>1, NextPress, OnlySendPresses, SinkTypeCorrect, PTL
          DEF Spec, NoPressAfterRevocation

-----------------------------------------------------------------------------
(* The sink implements its port.                                           *)

\* What is submitted is submitted in the generation of the apply in progress; only
\* release_all and close revoke, and a revoked generation never comes back.
RegistrationInv ==
  /\ \A a \in Appliers : pc[a] = "send" => activeGen = gen
  /\ \A a \in Appliers : pc[a] = "claim" => why[a] \in {"return", "unwind", "cleanup"}
  /\ activeGen \in Nat => activeGen <= gen

LEMMA NextRegistration == TypeOK /\ RegistrationInv /\ [Next]_vars => RegistrationInv'
  <1> SUFFICES ASSUME TypeOK, RegistrationInv, [Next]_vars PROVE RegistrationInv'
    OBVIOUS
  <1>0. /\ pc \in [Threads -> Pcs] /\ why \in [Threads -> Reasons] /\ NoOne \notin Appliers
        /\ Closer \notin Appliers /\ \A r \in Releasers : r \notin Appliers
        /\ NoOne \notin Nat /\ gen \in Nat
        /\ \A a \in Appliers : pc[a] # "idle" <=> applyLock = a
        /\ \A a \in Appliers : pc[a] = "send" <=> subLock = a
    BY NoOneIsOutside DEF TypeOK, ControlTypes, SharedTypes, LockDiscipline
  <1>1. ASSUME NEW a \in Appliers, Begin(a) PROVE RegistrationInv'
    BY <1>0, <1>1
    DEF RegistrationInv, Threads, Begin, shared, local, world, history, Goto, ReleaseFor
  <1>2. ASSUME NEW a \in Appliers, Validate(a) PROVE RegistrationInv'
    BY <1>0, <1>2
    DEF RegistrationInv, Threads, Validate, shared, local, world, history, Goto, ReleaseFor, OnlyApply
  <1>3. ASSUME NEW a \in Appliers, Submit(a) PROVE RegistrationInv'
    BY <1>0, <1>3
    DEF RegistrationInv, Threads, Submit, shared, local, world, history, Goto, ReleaseFor, OnlyApply, StillCurrent, GenerationIsCurrent
  <1>4. ASSUME NEW a \in Appliers, Send(a) PROVE RegistrationInv'
    BY <1>0, <1>4
    DEF RegistrationInv, Threads, Send, shared, local, world, history, Goto, ReleaseFor
  <1>5. ASSUME NEW a \in Appliers, ReadDownAt(a) PROVE RegistrationInv'
    BY <1>0, <1>5
    DEF RegistrationInv, Threads, ReadDownAt, shared, local, world, history, Goto, ReleaseFor, OnlyApply
  <1>6. ASSUME NEW a \in Appliers, CheckDown(a) PROVE RegistrationInv'
    BY <1>0, <1>6
    DEF RegistrationInv, Threads, CheckDown, shared, local, world, history, Goto, ReleaseFor
  <1>7. ASSUME NEW a \in Appliers, HoldUntil(a) PROVE RegistrationInv'
    BY <1>0, <1>7
    DEF RegistrationInv, Threads, HoldUntil, shared, local, world, history, Goto, ReleaseFor, OnlyApply
  <1>8. ASSUME NEW a \in Appliers, ReleasedForReturn(a) PROVE RegistrationInv'
    BY <1>0, <1>8
    DEF RegistrationInv, Threads, ReleasedForReturn, shared, local, world, history, Goto, ReleaseFor, OnlyReturn, KeepLocals
  <1>9. ASSUME NEW a \in Appliers, ReleasedToUnwind(a) PROVE RegistrationInv'
    BY <1>0, <1>9
    DEF RegistrationInv, Threads, ReleasedToUnwind, shared, local, world, history, Goto, ReleaseFor, OnlyReturn, KeepLocals
  <1>10. ASSUME NEW a \in Appliers, Raise(a) PROVE RegistrationInv'
    BY <1>0, <1>10
    DEF RegistrationInv, Threads, Raise, shared, local, world, history, Goto, ReleaseFor, OnlyReturn, EndApply, Leave
  <1>11. ASSUME NEW a \in Appliers, Commit(a) PROVE RegistrationInv'
    BY <1>0, <1>11
    DEF RegistrationInv, Threads, Commit, shared, local, world, history, Goto, ReleaseFor, OnlyReturn, KeepLocals, EndApply, Leave
  <1>12. ASSUME NEW r \in Releasers, ReleaseAll(r) PROVE RegistrationInv'
    BY <1>0, <1>12
    DEF RegistrationInv, Threads, ReleaseAll, shared, local, world, history, Goto, ReleaseFor, OnlyReturn, KeepLocals
  <1>13. ASSUME NEW r \in Releasers, ReleaseAllEnds(r) PROVE RegistrationInv'
    BY <1>0, <1>13
    DEF RegistrationInv, Threads, ReleaseAllEnds, shared, local, world, history, Goto, ReleaseFor, OnlyReturn, Leave
  <1>14. ASSUME NEW t \in Threads, Claim(t) PROVE RegistrationInv'
    BY <1>0, <1>14
    DEF RegistrationInv, Threads, Claim, shared, local, world, history, Goto, ReleaseFor, TakeOwned, Revokes
  <1>15. ASSUME NEW t \in Threads, KeyUp(t) PROVE RegistrationInv'
    BY <1>0, <1>15
    DEF RegistrationInv, Threads, KeyUp, shared, local, world, history, Goto, ReleaseFor, Noted
  <1>16. ASSUME NEW t \in Threads, Record(t) PROVE RegistrationInv'
    BY <1>0, <1>16
    DEF RegistrationInv, Threads, Record, shared, local, world, history, Goto, ReleaseFor, Noted, OnlyRecord
  <1>17. ASSUME Close PROVE RegistrationInv'
    BY <1>0, <1>17
    DEF RegistrationInv, Threads, Close, shared, local, world, history, Goto, ReleaseFor
  <1>18. ASSUME CloseReceipt PROVE RegistrationInv'
    BY <1>0, <1>18
    DEF RegistrationInv, Threads, CloseReceipt, shared, local, world, history, Goto, ReleaseFor, OnlyReturn, Leave
  <1>19. ASSUME Cancel PROVE RegistrationInv'
    BY <1>0, <1>19
    DEF RegistrationInv, Threads, Cancel, shared, local, world, history, Goto, ReleaseFor
  <1>20. ASSUME FocusChanges PROVE RegistrationInv'
    BY <1>0, <1>20
    DEF RegistrationInv, Threads, FocusChanges, shared, local, world, history, Goto, ReleaseFor
  <1>21. ASSUME Tick PROVE RegistrationInv'
    BY <1>0, <1>21
    DEF RegistrationInv, Threads, Tick, shared, local, world, history, Goto, ReleaseFor
  <1>22. CASE UNCHANGED vars
    BY <1>22 DEF vars, RegistrationInv, shared, local, world, history, Goto, ReleaseFor
  <1> QED BY <1>1, <1>2, <1>3, <1>4, <1>5, <1>6, <1>7, <1>8, <1>9, <1>10, <1>11, <1>12, <1>13, <1>14, <1>15, <1>16, <1>17, <1>18, <1>19, <1>20, <1>21, <1>22
       DEF Next, ApplyStep, ReleaseStep

LEMMA StepIsPortStep ==
  ASSUME TypeOK, RegistrationInv, NothingLeftHeld', [Next]_vars
  PROVE  [Port!PortNext]_(Port!portVars)
  <1>0. /\ pc \in [Threads -> Pcs] /\ why \in [Threads -> Reasons] /\ NoOne \notin Appliers
        /\ Closer \notin Appliers /\ \A r \in Releasers : r \notin Appliers
        /\ NoOne \notin Nat /\ gen \in Nat
        /\ activeGen \in Nat \cup {NoOne} /\ todo \in [Threads -> Seq(Keys)]
        /\ pc' \in [Threads -> Pcs] /\ NothingLeftHeld'
        /\ \A a \in Appliers : pc[a] # "idle" <=> applyLock = a
        /\ \A a \in Appliers : pc[a] = "send" <=> subLock = a
    BY NoOneIsOutside, NextType DEF TypeOK, ControlTypes, SharedTypes, LockDiscipline
  <1>1. ASSUME NEW a \in Appliers, Begin(a) PROVE [Port!PortNext]_(Port!portVars)
    <2>1. /\ a \notin InSink /\ InSink \cap Appliers = {} /\ InSink' = InSink \cup {a}
          /\ Unrevoked' /\ down' = down /\ unlifted' = unlifted
      BY <1>0, <1>1 DEF Begin, Threads, InSink, Unrevoked, world, Goto
    <2> QED BY <2>1 DEF Port!PortNext, Port!Apply
  <1>2. ASSUME NEW a \in Appliers, Validate(a) PROVE [Port!PortNext]_(Port!portVars)
    BY <1>0, <1>2 DEF Validate, Threads, InSink, Unrevoked, Port!portVars, shared, local, world, history, Goto, ReleaseFor, OnlyApply
  <1>3. ASSUME NEW a \in Appliers, Submit(a) PROVE [Port!PortNext]_(Port!portVars)
    BY <1>0, <1>3 DEF Submit, Threads, InSink, Unrevoked, Port!portVars, shared, local, world, history, Goto, ReleaseFor, OnlyApply, StillCurrent, GenerationIsCurrent
  <1>4. ASSUME NEW a \in Appliers, Send(a) PROVE [Port!PortNext]_(Port!portVars)
    <2>1. /\ a \in InSink /\ InSink' = InSink /\ Unrevoked /\ Unrevoked' /\ unlifted' = unlifted
      BY <1>0, <1>4 DEF Send, Threads, InSink, Unrevoked, RegistrationInv, history, Goto, ReleaseFor
    <2>2. Head(todo[a]) \in Keys
      BY <1>4, HeadAndTail, <1>0 DEF Send, TypeOK, ControlTypes, WorkRemains, Threads
    <2>3. down' \in {down, down \cup {Head(todo[a])}}
      BY <1>4 DEF Send
    <2>4. CASE down' = down
      BY <2>1, <2>4 DEF Port!portVars
    <2>5. CASE down' = down \cup {Head(todo[a])}
      BY <2>1, <2>2, <2>5 DEF Port!PortNext, Port!Press
    <2> QED BY <2>3, <2>4, <2>5
  <1>5. ASSUME NEW a \in Appliers, ReadDownAt(a) PROVE [Port!PortNext]_(Port!portVars)
    BY <1>0, <1>5 DEF ReadDownAt, Threads, InSink, Unrevoked, Port!portVars, shared, local, world, history, Goto, ReleaseFor, OnlyApply
  <1>6. ASSUME NEW a \in Appliers, CheckDown(a) PROVE [Port!PortNext]_(Port!portVars)
    BY <1>0, <1>6 DEF CheckDown, Threads, InSink, Unrevoked, Port!portVars, shared, local, world, history, Goto, ReleaseFor
  <1>7. ASSUME NEW a \in Appliers, HoldUntil(a) PROVE [Port!PortNext]_(Port!portVars)
    BY <1>0, <1>7 DEF HoldUntil, Threads, InSink, Unrevoked, Port!portVars, shared, local, world, history, Goto, ReleaseFor, OnlyApply
  <1>8. ASSUME NEW a \in Appliers, ReleasedForReturn(a) PROVE [Port!PortNext]_(Port!portVars)
    BY <1>0, <1>8 DEF ReleasedForReturn, Threads, InSink, Unrevoked, Port!portVars, shared, local, world, history, Goto, ReleaseFor, OnlyReturn, KeepLocals
  <1>9. ASSUME NEW a \in Appliers, ReleasedToUnwind(a) PROVE [Port!PortNext]_(Port!portVars)
    BY <1>0, <1>9 DEF ReleasedToUnwind, Threads, InSink, Unrevoked, Port!portVars, shared, local, world, history, Goto, ReleaseFor, OnlyReturn, KeepLocals
  <1>10. ASSUME NEW a \in Appliers, Raise(a) PROVE [Port!PortNext]_(Port!portVars)
    <2>1. /\ a \in InSink /\ InSink' = InSink \ {a} /\ ~Unrevoked' /\ down' = down
          /\ unlifted' = unlifted /\ a \notin Releasers \cup {Closer}
      BY <1>0, <1>10 DEF Raise, Threads, InSink, Unrevoked, Goto, OnlyReturn, EndApply, Leave, history
    <2>2. InSink' = {} => down' = {} \/ unlifted'
      BY <1>0 DEF NothingLeftHeld, InSink
    <2>3. Unrevoked' = (Unrevoked /\ a \in Releasers \cup {Closer})
      BY <2>1 DEF Unrevoked
    <2> QED BY <2>1, <2>2, <2>3 DEF Port!PortNext, Port!Return
  <1>11. ASSUME NEW a \in Appliers, Commit(a) PROVE [Port!PortNext]_(Port!portVars)
    <2>1. CASE ReleaseFor(a, "cleanup") /\ UNCHANGED <<activeGen, applyLock, receipt>>
      BY <1>0, <1>11, <2>1 DEF Commit, Threads, InSink, Unrevoked, Port!portVars, OnlyReturn, history,
         Goto, ReleaseFor
    <2>2. CASE EndApply(a)
      <3>1. /\ a \in InSink /\ InSink' = InSink \ {a} /\ ~Unrevoked' /\ down' = down
            /\ unlifted' = unlifted /\ a \notin Releasers \cup {Closer}
        BY <1>0, <1>11, <2>2 DEF Commit, Threads, InSink, Unrevoked, Goto, OnlyReturn, EndApply, Leave, history
      <3>2. InSink' = {} => down' = {} \/ unlifted'
        BY <1>0 DEF NothingLeftHeld, InSink
      <3>3. Unrevoked' = (Unrevoked /\ a \in Releasers \cup {Closer})
        BY <3>1 DEF Unrevoked
      <3> QED BY <3>1, <3>2, <3>3 DEF Port!PortNext, Port!Return
    <2> QED BY <1>11, <2>1, <2>2 DEF Commit
  <1>12. ASSUME NEW r \in Releasers, ReleaseAll(r) PROVE [Port!PortNext]_(Port!portVars)
    <2>1. /\ r \notin InSink /\ InSink' = InSink \cup {r} /\ down' = down
          /\ Unrevoked' = Unrevoked /\ unlifted' = unlifted
      BY <1>0, <1>12 DEF ReleaseAll, Threads, InSink, Unrevoked, Goto, ReleaseFor, history, OnlyReturn, KeepLocals
    <2> QED BY <2>1 DEF Port!PortNext, Port!Release
  <1>13. ASSUME NEW r \in Releasers, ReleaseAllEnds(r) PROVE [Port!PortNext]_(Port!portVars)
    <2>1. /\ r \in InSink /\ InSink' = InSink \ {r} /\ Unrevoked' = Unrevoked
          /\ down' = down /\ unlifted' = unlifted
      BY <1>0, <1>13 DEF ReleaseAllEnds, Threads, InSink, Unrevoked, Goto, OnlyReturn, Leave, history
    <2>2. InSink' = {} => down' = {} \/ unlifted'
      BY <1>0 DEF NothingLeftHeld, InSink
    <2>3. Unrevoked' = (Unrevoked /\ r \in Releasers \cup {Closer})
      BY <2>1 DEF Unrevoked
    <2> QED BY <2>1, <2>2, <2>3 DEF Port!PortNext, Port!Return
  <1>14. ASSUME NEW t \in Threads, Claim(t) PROVE [Port!PortNext]_(Port!portVars)
    <2>1. /\ t \in InSink /\ InSink' = InSink /\ down' = down /\ unlifted' = unlifted
          /\ activeGen' = activeGen
      BY <1>0, <1>14 DEF Claim, TakeOwned, Threads, InSink, Goto, history
    <2>2. CASE Revokes(t)
      <3>1. t \in Releasers \cup {Closer}
        BY <1>14, <2>2 DEF Claim, Revokes, RegistrationInv, Threads
      <3>2. ~Unrevoked'
        BY <1>0, <1>14, <2>1, <2>2 DEF Claim, Unrevoked, RegistrationInv
      <3> QED BY <2>1, <3>1, <3>2 DEF Port!PortNext, Port!Revoke
    <2>3. CASE ~Revokes(t)
      <3>1. gen' = gen
        BY <1>14, <2>3 DEF Claim
      <3> QED BY <2>1, <3>1 DEF Unrevoked, Port!portVars
    <2> QED BY <2>2, <2>3
  <1>15. ASSUME NEW t \in Threads, KeyUp(t) PROVE [Port!PortNext]_(Port!portVars)
    <2>1. t \in InSink /\ InSink' = InSink /\ Unrevoked' = Unrevoked
      BY <1>0, <1>15 DEF KeyUp, Threads, InSink, Unrevoked, shared, Goto
    <2>2. Head(claimed[t]) \in Keys
      BY <1>15, ClaimedKeys, HeadAndTail, <1>0 DEF KeyUp
    <2> DEFINE k == Head(claimed[t])
    <2>3. CASE down' = down \ {k} /\ unlifted' = unlifted
      BY <2>1, <2>2, <2>3 DEF Port!PortNext, Port!Lift
    <2>4. CASE down' = down \ {k} /\ unlifted' = TRUE
      BY <2>1, <2>2, <2>4 DEF Port!PortNext, Port!RefusedLift
    <2>5. CASE down' = down \ {} /\ unlifted' = TRUE
      BY <2>1, <2>5 DEF Port!PortNext, Port!RefusedLift
    <2> QED BY <1>15, <2>3, <2>4, <2>5 DEF KeyUp
  <1>16. ASSUME NEW t \in Threads, Record(t) PROVE [Port!PortNext]_(Port!portVars)
    BY <1>0, <1>16 DEF Record, Threads, InSink, Unrevoked, Port!portVars, shared, local, world, history, Goto, ReleaseFor, Noted, OnlyRecord
  <1>17. ASSUME Close PROVE [Port!PortNext]_(Port!portVars)
    <2>1. /\ Closer \notin InSink /\ InSink' = InSink \cup {Closer} /\ down' = down
          /\ Unrevoked' = Unrevoked /\ unlifted' = unlifted
      BY <1>0, <1>17 DEF Close, Threads, InSink, Unrevoked, Goto, ReleaseFor, history
    <2> QED BY <2>1 DEF Port!PortNext, Port!Release
  <1>18. ASSUME CloseReceipt PROVE [Port!PortNext]_(Port!portVars)
    <2>1. /\ Closer \in InSink /\ InSink' = InSink \ {Closer} /\ Unrevoked' = Unrevoked
          /\ down' = down /\ unlifted' = unlifted
      BY <1>0, <1>18 DEF CloseReceipt, Threads, InSink, Unrevoked, Goto, OnlyReturn, Leave, history
    <2>2. InSink' = {} => down' = {} \/ unlifted'
      BY <1>0 DEF NothingLeftHeld, InSink
    <2>3. Unrevoked' = (Unrevoked /\ Closer \in Releasers \cup {Closer})
      BY <2>1 DEF Unrevoked
    <2> QED BY <2>1, <2>2, <2>3 DEF Port!PortNext, Port!Return
  <1>19. ASSUME Cancel PROVE [Port!PortNext]_(Port!portVars)
    BY <1>0, <1>19 DEF Cancel, Threads, InSink, Unrevoked, Port!portVars, shared, local, world, history, Goto, ReleaseFor
  <1>20. ASSUME FocusChanges PROVE [Port!PortNext]_(Port!portVars)
    BY <1>0, <1>20 DEF FocusChanges, Threads, InSink, Unrevoked, Port!portVars, shared, local, world, history, Goto, ReleaseFor
  <1>21. ASSUME Tick PROVE [Port!PortNext]_(Port!portVars)
    BY <1>0, <1>21 DEF Tick, Threads, InSink, Unrevoked, Port!portVars, shared, local, world, history, Goto, ReleaseFor
  <1>22. CASE UNCHANGED vars
    BY <1>22 DEF vars, shared, local, history, InSink, Unrevoked, Port!portVars
  <1> QED BY <1>1, <1>2, <1>3, <1>4, <1>5, <1>6, <1>7, <1>8, <1>9, <1>10, <1>11, <1>12, <1>13, <1>14, <1>15, <1>16, <1>17, <1>18, <1>19, <1>20, <1>21, <1>22
       DEF Next, ApplyStep, ReleaseStep

\* Every behaviour of the keyboard sink is one its port allows: keys go down in an
\* unrevoked apply only, and the last call to leave leaves none down.
THEOREM SinkImplementsPort == Spec => ImplementsPort
  <1>1. Init => Port!PortInit
    BY NoOneIsOutside DEF Init, Port!PortInit, InSink, Unrevoked
  <1>2. Init => RegistrationInv
    BY NoOneIsOutside DEF Init, RegistrationInv, Threads
  <1>3. Spec => []RegistrationInv
    BY <1>2, NextRegistration, SinkTypeCorrect, PTL DEF Spec
  <1> QED BY <1>1, <1>3, StepIsPortStep, NothingStaysHeld, SinkTypeCorrect, PTL
          DEF Spec, ImplementsPort, Port!PortSpec

-----------------------------------------------------------------------------
(* An apply that returns held its keys.                                    *)

\* The apply in progress found no release still lifting keys, and none has
\* revoked it since.
Undisturbed == ~stale /\ activeGen = gen

HandingBack == {"up", "record", "released", "commit"}

\* Whoever lifts keys beside an undisturbed apply has revoked it, and the
\* release of such an apply leaves nothing owned unless it notes a failure.
ReturnInv ==
  /\ \A t \in Threads \ Appliers : pc[t] = "claim" => Revokes(t)
  /\ \A a \in Appliers : pc[a] # "idle" => activeGen \in Nat
  /\ \A a \in Appliers : pc[a] # "idle" /\ Undisturbed =>
       ~stolen /\ \A t \in Threads \ {a} : claimed[t] = <<>>
  /\ \A a \in Appliers :
       /\ pc[a] \in HandingBack /\ why[a] = "return"
       /\ ~failures[a] /\ Undisturbed
       => owned = <<>>
  /\ \A a \in Appliers : pc[a] = "commit" => why[a] = "return" /\ ~failures[a]

\* A step of an apply that has not begun its release and begins none of it.
LEMMA StillPressing ==
  ASSUME TypeOK, ReturnInv, NEW a \in Appliers, pc[a] # "idle",
         pc'[a] \notin HandingBack,
         \A t \in Threads \ {a} : pc'[t] = pc[t] /\ why'[t] = why[t],
         UNCHANGED <<gen, activeGen, stale, stolen, claimed>>
  PROVE  ReturnInv'
  <1>1. \A b \in Appliers \ {a} : pc'[b] = "idle"
    BY DEF TypeOK, LockDiscipline, Threads
  <1>2. \A t \in Threads \ Appliers : pc'[t] = pc[t] /\ why'[t] = why[t]
    OBVIOUS
  <1> QED BY <1>1, <1>2 DEF ReturnInv, Undisturbed, HandingBack, Revokes, Threads

LEMMA NextReturn == TypeOK /\ RegistrationInv /\ ReturnInv /\ [Next]_vars => ReturnInv'
  <1> SUFFICES ASSUME TypeOK, RegistrationInv, ReturnInv, [Next]_vars PROVE ReturnInv'
    OBVIOUS
  <1>0. /\ pc \in [Threads -> Pcs] /\ why \in [Threads -> Reasons] /\ NoOne \notin Appliers
        /\ failures \in [Threads -> BOOLEAN] /\ claimed \in [Threads -> Seq(Keys)]
        /\ lifted \in [Threads -> BOOLEAN]
        /\ Closer \notin Appliers /\ \A r \in Releasers : r \notin Appliers
        /\ NoOne \notin Nat /\ gen \in Nat
        /\ \A a \in Appliers : pc[a] # "idle" <=> applyLock = a
        /\ \A t \in Threads : pc[t] \in {"up", "record"} <=> claimed[t] # <<>>
    BY NoOneIsOutside DEF TypeOK, ControlTypes, SharedTypes, LockDiscipline, WorkRemains
  <1>1. ASSUME NEW a \in Appliers, Begin(a) PROVE ReturnInv'
    BY <1>0, <1>1 DEF ReturnInv, RegistrationInv, Undisturbed, HandingBack, Threads, Revokes, Begin, shared, local, world, history, Goto, ReleaseFor
  <1>2. ASSUME NEW a \in Appliers, Validate(a) PROVE ReturnInv'
    <2>1. pc[a] # "idle" /\ pc'[a] \notin HandingBack
      BY <1>0, <1>2 DEF Validate, HandingBack, Threads, Goto, ReleaseFor
    <2>2. \A t \in Threads \ {a} : pc'[t] = pc[t] /\ why'[t] = why[t]
      BY <1>0, <1>2 DEF Validate, Threads, Goto, ReleaseFor, shared, local, OnlyApply
    <2>3. UNCHANGED <<gen, activeGen, stale, stolen, claimed>>
      BY <1>2 DEF Validate, shared, history, OnlyApply
    <2> QED BY <2>1, <2>2, <2>3, StillPressing
  <1>3. ASSUME NEW a \in Appliers, Submit(a) PROVE ReturnInv'
    <2>1. pc[a] # "idle" /\ pc'[a] \notin HandingBack
      BY <1>0, <1>3 DEF Submit, HandingBack, Threads, Goto, ReleaseFor
    <2>2. \A t \in Threads \ {a} : pc'[t] = pc[t] /\ why'[t] = why[t]
      BY <1>0, <1>3 DEF Submit, Threads, Goto, ReleaseFor, shared, local, OnlyApply
    <2>3. UNCHANGED <<gen, activeGen, stale, stolen, claimed>>
      BY <1>3 DEF Submit, shared, history, OnlyApply
    <2> QED BY <2>1, <2>2, <2>3, StillPressing
  <1>4. ASSUME NEW a \in Appliers, Send(a) PROVE ReturnInv'
    BY <1>0, <1>4 DEF ReturnInv, RegistrationInv, Undisturbed, HandingBack, Threads, Revokes, Send, shared, local, world, history, Goto, ReleaseFor
  <1>5. ASSUME NEW a \in Appliers, ReadDownAt(a) PROVE ReturnInv'
    BY <1>0, <1>5 DEF ReturnInv, RegistrationInv, Undisturbed, HandingBack, Threads, Revokes, ReadDownAt, shared, local, world, history, Goto, ReleaseFor, OnlyApply
  <1>6. ASSUME NEW a \in Appliers, CheckDown(a) PROVE ReturnInv'
    <2>1. pc[a] # "idle" /\ pc'[a] \notin HandingBack
      BY <1>0, <1>6 DEF CheckDown, HandingBack, Threads, Goto, ReleaseFor
    <2>2. \A t \in Threads \ {a} : pc'[t] = pc[t] /\ why'[t] = why[t]
      BY <1>0, <1>6 DEF CheckDown, Threads, Goto, ReleaseFor, shared, local
    <2>3. UNCHANGED <<gen, activeGen, stale, stolen, claimed>>
      BY <1>6 DEF CheckDown, shared, history
    <2> QED BY <2>1, <2>2, <2>3, StillPressing
  <1>7. ASSUME NEW a \in Appliers, HoldUntil(a) PROVE ReturnInv'
    <2>1. pc[a] # "idle" /\ pc'[a] \notin HandingBack
      BY <1>0, <1>7 DEF HoldUntil, HandingBack, Threads, Goto, ReleaseFor
    <2>2. \A t \in Threads \ {a} : pc'[t] = pc[t] /\ why'[t] = why[t]
      BY <1>0, <1>7 DEF HoldUntil, Threads, Goto, ReleaseFor, shared, local, OnlyApply
    <2>3. UNCHANGED <<gen, activeGen, stale, stolen, claimed>>
      BY <1>7 DEF HoldUntil, shared, history, OnlyApply
    <2> QED BY <2>1, <2>2, <2>3, StillPressing
  <1>8. ASSUME NEW a \in Appliers, ReleasedForReturn(a) PROVE ReturnInv'
    <2>1. /\ pc[a] = "released" /\ why[a] = "return"
          /\ \A t \in Threads \ {a} : pc'[t] = pc[t] /\ why'[t] = why[t]
          /\ UNCHANGED <<gen, activeGen, owned, claimed, failures, stale, stolen>>
      BY <1>0, <1>8 DEF ReleasedForReturn, Threads, Goto, ReleaseFor, OnlyReturn, KeepLocals, history
    <2>2. CASE ReleaseFor(a, "cleanup")
      BY <1>0, <2>1, <2>2, StillPressing DEF ReleaseFor, Goto, HandingBack, Threads
    <2>3. CASE HoldMeasured(a) /\ Goto(a, "commit") /\ UNCHANGED why
      <3>1. pc'[a] = "commit" /\ why'[a] = "return" /\ ~failures[a]
        BY <1>0, <2>1, <2>3 DEF HoldMeasured, Goto, Threads
      <3>2. \A b \in Appliers \ {a} : pc'[b] = "idle"
        BY <1>0, <2>1 DEF Threads
      <3>3. \A t \in Threads \ Appliers : pc'[t] = pc[t] /\ why'[t] = why[t]
        BY <2>1
      <3> QED BY <2>1, <3>1, <3>2, <3>3 DEF ReturnInv, Undisturbed, HandingBack, Revokes, Threads
    <2> QED BY <1>8, <2>2, <2>3 DEF ReleasedForReturn
  <1>9. ASSUME NEW a \in Appliers, ReleasedToUnwind(a) PROVE ReturnInv'
    BY <1>0, <1>9 DEF ReturnInv, RegistrationInv, Undisturbed, HandingBack, Threads, Revokes, ReleasedToUnwind, shared, local, world, history, Goto, ReleaseFor, OnlyReturn, KeepLocals
  <1>10. ASSUME NEW a \in Appliers, Raise(a) PROVE ReturnInv'
    BY <1>0, <1>10 DEF ReturnInv, RegistrationInv, Undisturbed, HandingBack, Threads, Revokes, Raise, shared, local, world, history, Goto, ReleaseFor, OnlyReturn, EndApply, Leave
  <1>11. ASSUME NEW a \in Appliers, Commit(a) PROVE ReturnInv'
    <2>1. pc[a] # "idle" /\ pc'[a] \notin HandingBack
      BY <1>0, <1>11 DEF Commit, HandingBack, Threads, Goto, ReleaseFor, EndApply, Leave
    <2>2. \A t \in Threads \ {a} : pc'[t] = pc[t] /\ why'[t] = why[t]
      BY <1>0, <1>11 DEF Commit, Threads, Goto, ReleaseFor, EndApply, Leave
    <2>3. UNCHANGED <<gen, stale, stolen, claimed>>
      BY <1>11 DEF Commit, OnlyReturn, history
    <2>4. CASE UNCHANGED activeGen
      BY <2>1, <2>2, <2>3, <2>4, StillPressing
    <2>5. CASE pc'[a] = "idle"
      <3>1. \A b \in Appliers : pc'[b] = "idle"
        BY <1>0, <2>1, <2>2, <2>5 DEF Threads
      <3>2. \A t \in Threads \ Appliers : pc'[t] = pc[t] /\ why'[t] = why[t]
        BY <2>2
      <3> QED BY <3>1, <3>2 DEF ReturnInv, HandingBack, Revokes
    <2> QED BY <1>0, <1>11, <2>4, <2>5 DEF Commit, EndApply, Leave, Goto, Threads
  <1>12. ASSUME NEW r \in Releasers, ReleaseAll(r) PROVE ReturnInv'
    BY <1>0, <1>12 DEF ReturnInv, RegistrationInv, Undisturbed, HandingBack, Threads, Revokes, ReleaseAll, shared, local, world, history, Goto, ReleaseFor, OnlyReturn, KeepLocals
  <1>13. ASSUME NEW r \in Releasers, ReleaseAllEnds(r) PROVE ReturnInv'
    BY <1>0, <1>13 DEF ReturnInv, RegistrationInv, Undisturbed, HandingBack, Threads, Revokes, ReleaseAllEnds, shared, local, world, history, Goto, ReleaseFor, OnlyReturn, Leave
  <1>14. ASSUME NEW t \in Threads, Claim(t) PROVE ReturnInv'
    BY <1>0, <1>14 DEF ReturnInv, RegistrationInv, Undisturbed, HandingBack, Threads, Revokes, Claim, shared, local, world, history, Goto, ReleaseFor, TakeOwned, Revokes
  <1>15. ASSUME NEW t \in Threads, KeyUp(t) PROVE ReturnInv'
    <2>1. /\ pc[t] = "up" /\ pc' = [pc EXCEPT ![t] = "record"] /\ claimed[t] # <<>>
          /\ UNCHANGED <<gen, activeGen, owned, why, claimed, stale, applyLock>>
      BY <1>0, <1>15 DEF KeyUp, Goto, shared
    <2>2. ASSUME NEW a \in Appliers, pc'[a] # "idle", Undisturbed' PROVE ~stolen'
      <3>1. pc[a] # "idle" /\ Undisturbed
        BY <1>0, <2>1, <2>2 DEF Undisturbed, Threads
      <3>2. t = a /\ applyLock = a /\ ~stolen
        BY <1>0, <2>1, <3>1 DEF ReturnInv
      <3> QED BY <1>15, <3>2 DEF KeyUp
    <2>3. \A u \in Threads : failures[u] => failures'[u] \/ why[u] # "return"
      BY <1>0, <1>15 DEF KeyUp, Noted
    <2>4. \A a \in Appliers : pc'[a] # "idle" => activeGen' \in Nat
      BY <1>0, <2>1 DEF ReturnInv, Threads
    <2>5. ASSUME NEW a \in Appliers, pc'[a] \in HandingBack, why'[a] = "return", ~failures'[a], Undisturbed'
          PROVE  owned' = <<>>
      <3>1. pc[a] \in HandingBack /\ why[a] = "return" /\ ~failures[a] /\ Undisturbed
        BY <1>0, <2>1, <2>3, <2>5 DEF HandingBack, Undisturbed, Threads
      <3> QED BY <2>1, <3>1 DEF ReturnInv
    <2>6. ASSUME NEW a \in Appliers, pc'[a] = "commit" PROVE why'[a] = "return" /\ ~failures'[a]
      <3>1. pc[a] = "commit" /\ a # t
        BY <1>0, <2>1, <2>6 DEF Threads
      <3>2. failures'[a] = failures[a]
        BY <1>0, <1>15, <3>1 DEF KeyUp, Threads
      <3> QED BY <2>1, <3>1, <3>2 DEF ReturnInv
    <2>7. \A a \in Appliers : pc'[a] # "idle" /\ Undisturbed' =>
            \A u \in Threads \ {a} : claimed'[u] = <<>>
      BY <1>0, <2>1 DEF ReturnInv, Undisturbed, Threads
    <2>8. \A u \in Threads \ Appliers : pc'[u] = "claim" => (why'[u] \in {"release", "close"})
      BY <1>0, <2>1 DEF ReturnInv, Revokes
    <2> QED BY <2>2, <2>4, <2>5, <2>6, <2>7, <2>8 DEF ReturnInv, Revokes
  <1>16. ASSUME NEW t \in Threads, Record(t) PROVE ReturnInv'
    <2>1. /\ pc[t] = "record" /\ pc' = [pc EXCEPT ![t] = IF Len(claimed[t]) > 1 THEN "up" ELSE "released"]
          /\ claimed[t] # <<>> /\ claimed' = [claimed EXCEPT ![t] = Tail(@)]
          /\ UNCHANGED <<gen, activeGen, why, stolen, stale>>
      BY <1>0, <1>16 DEF Record, Goto, OnlyRecord, history
    <2>2. \A a \in Appliers : pc'[a] # "idle" <=> pc[a] # "idle"
      BY <1>0, <2>1 DEF Threads
    <2>3. \A a \in Appliers : pc'[a] # "idle" => activeGen' \in Nat
      BY <2>1, <2>2 DEF ReturnInv
    <2>4. ASSUME NEW a \in Appliers, pc'[a] # "idle", Undisturbed'
          PROVE  t = a /\ ~stolen' /\ \A u \in Threads \ {a} : claimed'[u] = <<>>
      <3>1. t = a /\ ~stolen /\ \A u \in Threads \ {a} : claimed[u] = <<>>
        BY <2>1, <2>2, <2>4 DEF ReturnInv, Undisturbed
      <3> QED BY <1>0, <2>1, <3>1
    <2>5. ASSUME NEW a \in Appliers, pc'[a] \in HandingBack, why'[a] = "return", ~failures'[a], Undisturbed'
          PROVE  owned' = <<>>
      <3>1. t = a
        BY <2>4, <2>5 DEF HandingBack
      <3>2. ~failures[a] /\ lifted[a]
        BY <1>0, <1>16, <2>1, <2>5, <3>1 DEF Record, Noted
      <3>3. owned = <<>>
        BY <2>1, <2>5, <3>1, <3>2 DEF ReturnInv, HandingBack, Undisturbed
      <3> QED BY <1>16, <3>1, <3>2, <3>3 DEF Record
    <2>6. ASSUME NEW a \in Appliers, pc'[a] = "commit" PROVE why'[a] = "return" /\ ~failures'[a]
      <3>1. pc[a] = "commit" /\ a # t
        BY <1>0, <2>1, <2>6 DEF Threads
      <3>2. failures'[a] = failures[a]
        BY <1>0, <1>16, <3>1 DEF Record, Threads
      <3> QED BY <2>1, <3>1, <3>2 DEF ReturnInv
    <2>7. \A u \in Threads \ Appliers : pc'[u] = "claim" => (why'[u] \in {"release", "close"})
      BY <1>0, <2>1 DEF ReturnInv, Revokes
    <2> QED BY <2>3, <2>4, <2>5, <2>6, <2>7 DEF ReturnInv, Revokes
  <1>17. ASSUME Close PROVE ReturnInv'
    BY <1>0, <1>17 DEF ReturnInv, RegistrationInv, Undisturbed, HandingBack, Threads, Revokes, Close, shared, local, world, history, Goto, ReleaseFor
  <1>18. ASSUME CloseReceipt PROVE ReturnInv'
    BY <1>0, <1>18 DEF ReturnInv, RegistrationInv, Undisturbed, HandingBack, Threads, Revokes, CloseReceipt, shared, local, world, history, Goto, ReleaseFor, OnlyReturn, Leave
  <1>19. ASSUME Cancel PROVE ReturnInv'
    BY <1>0, <1>19 DEF ReturnInv, RegistrationInv, Undisturbed, HandingBack, Threads, Revokes, Cancel, shared, local, world, history, Goto, ReleaseFor
  <1>20. ASSUME FocusChanges PROVE ReturnInv'
    BY <1>0, <1>20 DEF ReturnInv, RegistrationInv, Undisturbed, HandingBack, Threads, Revokes, FocusChanges, shared, local, world, history, Goto, ReleaseFor
  <1>21. ASSUME Tick PROVE ReturnInv'
    BY <1>0, <1>21 DEF ReturnInv, RegistrationInv, Undisturbed, HandingBack, Threads, Revokes, Tick, shared, local, world, history, Goto, ReleaseFor
  <1>22. CASE UNCHANGED vars
    BY <1>22 DEF vars, ReturnInv, Undisturbed, Revokes, shared, local, world, history
  <1> QED BY <1>1, <1>2, <1>3, <1>4, <1>5, <1>6, <1>7, <1>8, <1>9, <1>10, <1>11, <1>12, <1>13, <1>14, <1>15, <1>16, <1>17, <1>18, <1>19, <1>20, <1>21, <1>22
       DEF Next, ApplyStep, ReleaseStep

LEMMA ReturnIsHeld ==
  TypeOK /\ AccountInv /\ ReturnInv /\ [Next]_vars => ReturnIsHonest
  <1> SUFFICES ASSUME TypeOK, AccountInv, ReturnInv, [Next]_vars,
                      NEW a \in Appliers, pc[a] = "commit", pc'[a] = "idle", ~stale
               PROVE  ~stolen /\ down = {}
    BY DEF ReturnIsHonest
  <1>0. pc \in [Threads -> Pcs] /\ a \in Threads
    BY DEF TypeOK, ControlTypes, Threads
  <1>1. Commit(a)
    <2>1. ASSUME NEW b \in Appliers, Begin(b) PROVE FALSE
      BY <1>0, <2>1 DEF Threads, Goto, ReleaseFor, Begin
    <2>2. ASSUME NEW b \in Appliers, Validate(b) \/ Submit(b) \/ ReadDownAt(b) \/ HoldUntil(b) PROVE FALSE
      BY <1>0, <2>2 DEF Threads, Goto, ReleaseFor, Validate, Submit, ReadDownAt, HoldUntil, OnlyApply
    <2>3. ASSUME NEW b \in Appliers, Send(b) \/ CheckDown(b) PROVE FALSE
      BY <1>0, <2>3 DEF Threads, Goto, ReleaseFor, Send, CheckDown
    <2>4. ASSUME NEW b \in Appliers, ReleasedForReturn(b) \/ ReleasedToUnwind(b) \/ Raise(b) PROVE FALSE
      BY <1>0, <2>4 DEF Threads, Goto, ReleaseFor, ReleasedForReturn, ReleasedToUnwind, Raise, EndApply, Leave
    <2>5. ASSUME NEW b \in Appliers, b # a, Commit(b) PROVE FALSE
      BY <1>0, <2>5 DEF Threads, Goto, ReleaseFor, Commit, EndApply, Leave
    <2>6. ASSUME NEW r \in Releasers, ReleaseAll(r) \/ ReleaseAllEnds(r) PROVE FALSE
      BY <1>0, <2>6 DEF Threads, Goto, ReleaseFor, ReleaseAll, ReleaseAllEnds, Leave
    <2>7. ASSUME NEW t \in Threads, Claim(t) \/ KeyUp(t) \/ Record(t) PROVE FALSE
      BY <1>0, <2>7 DEF Threads, Goto, ReleaseFor, Claim, KeyUp, Record, TakeOwned
    <2>8. ASSUME Close \/ CloseReceipt PROVE FALSE
      BY <1>0, <2>8 DEF Threads, Goto, ReleaseFor, Close, CloseReceipt, Leave
    <2>9. ASSUME Cancel \/ FocusChanges \/ Tick PROVE FALSE
      BY <1>0, <2>9 DEF Threads, Goto, ReleaseFor, Cancel, FocusChanges, Tick, local
    <2>10. CASE UNCHANGED vars
      BY <2>10 DEF vars, local
    <2> QED BY <2>1, <2>2, <2>3, <2>4, <2>5, <2>6, <2>7, <2>8, <2>9, <2>10
         DEF Next, ApplyStep, ReleaseStep
  <1>2. Undisturbed
    BY <1>0, <1>1 DEF Commit, Undisturbed, GenerationIsCurrent, Goto, ReleaseFor
  <1>3. ~stolen /\ owned = <<>> /\ \A t \in Threads : claimed[t] = <<>>
    BY <1>2 DEF ReturnInv, HandingBack, Threads, TypeOK, WorkRemains
  <1>4. \A t \in Threads : Due(t) = {}
    BY <1>3, ClaimedKeys, NothingClaimed DEF Due
  <1> QED BY <1>3, <1>4, NothingClaimed DEF AccountInv

\* An apply that returns held its keys for the whole measured hold and left none
\* down, unless it began while an earlier release was still lifting keys.
THEOREM ReturnMeansHeld == Spec => ReturnedMeansHeld
  <1>1. Init => ReturnInv
    BY NoOneIsOutside DEF Init, ReturnInv, Threads
  <1>2. Init => RegistrationInv
    BY NoOneIsOutside DEF Init, RegistrationInv, Threads
  <1> QED BY <1>1, <1>2, NextReturn, NextRegistration, ReturnIsHeld, AccountHolds,
             SinkTypeCorrect, PTL DEF Spec, ReturnedMeansHeld

-----------------------------------------------------------------------------
(* Progress: a call goes round in no circle.  What liveness adds is that    *)
(* its thread goes on; that it gets somewhere is proved here.               *)

Pressing == {"validate", "submit", "send", "sent", "check"}
Lifting == {"up", "record", "released"}

\* How much of a call is left once its release of this kind is through.
Reason(w) == CASE w = "return" -> 6 [] w = "unwind" -> 3 [] OTHER -> 1

\* The part of the call a thread is in, downwards: it presses, holds, releases to
\* return, commits, releases what a refused press left, releases in the handler.
Phase(t) ==
  CASE pc[t] \in Pressing -> 9
    [] pc[t] = "hold" -> 8
    [] pc[t] = "claim" -> Reason(why[t]) + 1
    [] pc[t] \in Lifting -> Reason(why[t])
    [] pc[t] = "commit" -> 5
    [] OTHER -> 0

\* The keys that part has still to press or to lift.
KeysLeft(t) == IF pc[t] \in Pressing THEN Len(todo[t]) ELSE Len(claimed[t])

\* The steps it has still to make for one of them.
PointsLeft(t) ==
  CASE pc[t] = "validate" -> 4
    [] pc[t] = "submit" -> 3
    [] pc[t] = "send" -> 2
    [] pc[t] \in {"sent", "up"} -> 1
    [] OTHER -> 0

CallRests(t) == UNCHANGED <<pc[t], why[t], todo[t], claimed[t]>>

CallAdvances(t) ==
  \/ Phase(t)' < Phase(t)
  \/ /\ Phase(t)' = Phase(t)
     /\ \/ KeysLeft(t)' < KeysLeft(t)
        \/ KeysLeft(t)' = KeysLeft(t) /\ PointsLeft(t)' < PointsLeft(t)

\* Whatever is done in the sink, each call under way rests or comes nearer its end.
NoCircle == \A t \in Threads : pc[t] # "idle" => CallRests(t) \/ CallAdvances(t)

\* A thread's own step moves it, if it is under way, and no other.
Advances(s) ==
  /\ \A t \in Threads \ {s} : CallRests(t)
  /\ pc[s] # "idle" => CallAdvances(s)

LEMMA MeasuresAreNumbers ==
  ASSUME TypeOK, NEW t \in Threads
  PROVE  Phase(t) \in Nat /\ KeysLeft(t) \in Nat /\ PointsLeft(t) \in Nat
  <1>1. todo[t] \in Seq(Keys) /\ claimed[t] \in Seq(Keys)
    BY DEF TypeOK, ControlTypes
  <1>2. Phase(t) \in Nat /\ PointsLeft(t) \in Nat
    BY DEF Phase, PointsLeft, Reason
  <1> QED BY <1>1, <1>2 DEF KeysLeft

LEMMA NextAdvances == TypeOK /\ [Next]_vars => NoCircle
  <1> SUFFICES ASSUME TypeOK, [Next]_vars PROVE NoCircle
    OBVIOUS
  <1>0. /\ pc \in [Threads -> Pcs] /\ why \in [Threads -> Reasons]
        /\ todo \in [Threads -> Seq(Keys)] /\ claimed \in [Threads -> Seq(Keys)]
        /\ Appliers \subseteq Threads /\ Releasers \subseteq Threads /\ Closer \in Threads
        /\ \A t \in Threads : pc[t] \in {"up", "record"} <=> claimed[t] # <<>>
    BY DEF TypeOK, ControlTypes, WorkRemains, Threads
  <1> DEFINE Moves(s, l) == pc' = [pc EXCEPT ![s] = l]
  <1>1. ASSUME NEW s \in Threads, Advances(s) PROVE NoCircle
    BY <1>1 DEF Advances, NoCircle
  <1>2. ASSUME UNCHANGED <<pc, why, todo, claimed>> PROVE NoCircle
    BY <1>2 DEF NoCircle, CallRests
  <1>3. ASSUME NEW s \in Threads, pc[s] = "idle", \A t \in Threads \ {s} : CallRests(t)
        PROVE  NoCircle
    BY <1>1, <1>3 DEF Advances
  \* A step of thread s to another point, with the same keys before it.
  <1>4. ASSUME NEW s \in Threads, NEW l, Goto(s, l), UNCHANGED <<todo, claimed>>,
               why' = why \/ \E w : why' = [why EXCEPT ![s] = w]
        PROVE  /\ \A t \in Threads \ {s} : CallRests(t)
               /\ pc'[s] = l /\ todo'[s] = todo[s] /\ claimed'[s] = claimed[s]
    BY <1>0, <1>4 DEF Goto, CallRests
  <1>5. ASSUME NEW s \in Threads, NEW w, ReleaseFor(s, w), UNCHANGED <<todo, claimed>>
        PROVE  /\ \A t \in Threads \ {s} : CallRests(t)
               /\ pc'[s] = "claim" /\ why'[s] = w
    BY <1>0, <1>4, <1>5 DEF ReleaseFor
  <1>6. ASSUME NEW s \in Threads, NEW w \in {"return", "unwind", "cleanup"},
               ReleaseFor(s, w), UNCHANGED <<todo, claimed>>,
               \/ pc[s] \in Pressing \cup {"hold"}
               \/ w = "cleanup" /\ pc[s] = "commit"
               \/ w = "cleanup" /\ pc[s] = "released" /\ why[s] \in {"return", "unwind"}
        PROVE  NoCircle
    <2>1. Phase(s)' < Phase(s)
      BY <1>5, <1>6 DEF Phase, Pressing, Lifting, Reason
    <2> QED BY <1>1, <1>5, <1>6, <2>1 DEF Advances, CallAdvances
  <1>7. ASSUME NEW s \in Threads, Leave(s), UNCHANGED claimed, pc[s] # "idle"
        PROVE  NoCircle
    <2>1. pc'[s] = "idle" /\ \A t \in Threads \ {s} : CallRests(t)
      BY <1>0, <1>7 DEF Leave, Goto, CallRests
    <2>2. Phase(s) > 0 /\ Phase(s)' = 0
      BY <1>0, <1>7, <2>1 DEF Phase, Pressing, Lifting, Reason, Pcs
    <2> QED BY <1>1, <2>1, <2>2 DEF Advances, CallAdvances
  <1>8. ASSUME NEW s \in Threads, NEW l, Goto(s, l), UNCHANGED <<why, todo, claimed>>,
               \/ <<pc[s], l>> \in {<<"validate", "submit">>, <<"submit", "send">>,
                                    <<"send", "sent">>, <<"sent", "check">>, <<"check", "hold">>}
               \/ pc[s] = "released" /\ why[s] = "return" /\ l = "commit"
               \/ pc[s] = "up" /\ l = "record"
        PROVE  NoCircle
    <2>1. pc'[s] = l /\ todo'[s] = todo[s] /\ claimed'[s] = claimed[s] /\ why'[s] = why[s]
          /\ \A t \in Threads \ {s} : CallRests(t)
      BY <1>4, <1>8
    <2>2. CallAdvances(s)
      BY <1>8, <2>1 DEF CallAdvances, Phase, KeysLeft, PointsLeft, Pressing, Lifting, Reason
    <2> QED BY <1>1, <2>1, <2>2 DEF Advances
  <1>9. ASSUME NEW a \in Appliers, Begin(a) PROVE NoCircle
    <2>1. pc[a] = "idle" /\ \A t \in Threads \ {a} : CallRests(t)
      BY <1>0, <1>9 DEF Begin, Goto, CallRests
    <2> QED BY <1>0, <1>3, <2>1
  <1>10. ASSUME NEW a \in Appliers, Validate(a) \/ Submit(a) PROVE NoCircle
    BY <1>0, <1>6, <1>8, <1>10 DEF Validate, Submit, OnlyApply, Pressing
  <1>11. ASSUME NEW a \in Appliers, Send(a) PROVE NoCircle
    BY <1>0, <1>6, <1>8, <1>11 DEF Send, Pressing
  <1>12. ASSUME NEW a \in Appliers, ReadDownAt(a) \/ HoldUntil(a) PROVE NoCircle
    BY <1>0, <1>6, <1>8, <1>12 DEF ReadDownAt, HoldUntil, OnlyApply, Pressing
  <1>13. ASSUME NEW a \in Appliers, CheckDown(a) PROVE NoCircle
    <2>1. CASE UNCHANGED todo
      BY <1>0, <1>6, <1>8, <1>13, <2>1 DEF CheckDown, Pressing
    <2>2. CASE Len(todo[a]) > 1 /\ todo' = [todo EXCEPT ![a] = Tail(@)] /\ Goto(a, "submit")
               /\ UNCHANGED why
      <3>1. /\ pc[a] = "check" /\ pc'[a] = "submit" /\ todo'[a] = Tail(todo[a])
            /\ \A t \in Threads \ {a} : CallRests(t)
        BY <1>0, <1>13, <2>2 DEF CheckDown, Goto, CallRests
      <3>2. Len(todo'[a]) < Len(todo[a])
        BY <1>0, <2>2, <3>1
      <3>3. Phase(a) = 9
        BY <1>0, <3>1 DEF Phase, Pressing, Lifting, Reason
      <3>5. Phase(a)' = 9
        BY <1>0, <3>1 DEF Phase, Pressing, Lifting, Reason
      <3>4. KeysLeft(a) = Len(todo[a]) /\ KeysLeft(a)' = Len(todo'[a])
        BY <3>1 DEF KeysLeft, Pressing
      <3> QED BY <1>0, <1>1, <3>1, <3>2, <3>3, <3>4, <3>5 DEF Advances, CallAdvances
    <2> QED BY <1>13, <2>1, <2>2 DEF CheckDown
  <1>14. ASSUME NEW t \in Threads, Claim(t) PROVE NoCircle
    <2>1. /\ pc[t] = "claim" /\ pc'[t] \in Lifting /\ why'[t] = why[t]
          /\ \A u \in Threads \ {t} : CallRests(u)
      BY <1>0, <1>14 DEF Claim, TakeOwned, Goto, CallRests, Lifting
    <2>2. Phase(t)' < Phase(t)
      BY <2>1 DEF Phase, Pressing, Lifting, Reason
    <2> QED BY <1>1, <2>1, <2>2 DEF Advances, CallAdvances
  <1>15. ASSUME NEW t \in Threads, KeyUp(t) PROVE NoCircle
    BY <1>8, <1>15 DEF KeyUp
  <1>16. ASSUME NEW t \in Threads, Record(t) PROVE NoCircle
    <2>1. /\ pc[t] = "record" /\ pc'[t] \in {"up", "released"} /\ why'[t] = why[t]
          /\ claimed'[t] = Tail(claimed[t]) /\ \A u \in Threads \ {t} : CallRests(u)
      BY <1>0, <1>16 DEF Record, OnlyRecord, Goto, CallRests
    <2>2. Len(claimed'[t]) < Len(claimed[t])
      BY <1>0, <2>1
    <2>3. CallAdvances(t)
      BY <2>1, <2>2 DEF CallAdvances, Phase, KeysLeft, Pressing, Lifting
    <2> QED BY <1>1, <2>1, <2>3 DEF Advances
  <1>17. ASSUME NEW a \in Appliers, ReleasedForReturn(a) \/ ReleasedToUnwind(a) PROVE NoCircle
    BY <1>0, <1>6, <1>8, <1>17 DEF ReleasedForReturn, ReleasedToUnwind, KeepLocals, OnlyReturn
  <1>18. ASSUME NEW a \in Appliers, Raise(a) PROVE NoCircle
    BY <1>0, <1>7, <1>18 DEF Raise, EndApply, OnlyReturn
  <1>19. ASSUME NEW a \in Appliers, Commit(a) PROVE NoCircle
    BY <1>0, <1>6, <1>7, <1>19 DEF Commit, EndApply, KeepLocals, OnlyReturn
  <1>20. ASSUME NEW r \in Releasers, ReleaseAll(r) PROVE NoCircle
    BY <1>0, <1>3, <1>5, <1>20 DEF ReleaseAll, KeepLocals, OnlyReturn
  <1>21. ASSUME NEW r \in Releasers, ReleaseAllEnds(r) PROVE NoCircle
    BY <1>0, <1>7, <1>21 DEF ReleaseAllEnds, OnlyReturn
  <1>22. CASE Close
    BY <1>0, <1>3, <1>5, <1>22 DEF Close
  <1>23. CASE CloseReceipt
    BY <1>0, <1>7, <1>23 DEF CloseReceipt, OnlyReturn
  <1>24. CASE Cancel \/ FocusChanges \/ Tick \/ UNCHANGED vars
    BY <1>2, <1>24 DEF Cancel, FocusChanges, Tick, local, vars
  <1> QED
    BY <1>9, <1>10, <1>11, <1>12, <1>13, <1>14, <1>15, <1>16, <1>17, <1>18, <1>19, <1>20,
       <1>21, <1>22, <1>23, <1>24
    DEF Next, ApplyStep, ReleaseStep

\* Every call of the sink, an apply, a release_all or the close, gets nearer its end
\* with every step its thread makes: its part of the work, the keys of that part and
\* the points of one key only go down, though a refused key is owned again and
\* other threads release and revoke meanwhile.  ComesToRest adds the fairness.
THEOREM NoCallCircles == Spec => [][NoCircle]_vars
  BY SinkTypeCorrect, NextAdvances, PTL DEF Spec

=============================================================================
