-------------------------- MODULE ExpirySweepProofs --------------------------
(***************************************************************************)
(* What holds of the expiry sweep for every account and every way its      *)
(* resources are paged and tagged, any warning window, any length of a day *)
(* in ticks, at whatever time of the day the sweeps fall due, and however  *)
(* late each of them runs.                                                 *)
(***************************************************************************)
EXTENDS ExpirySweep, TLAPS

-----------------------------------------------------------------------------
(* Days and ticks.                                                         *)

Day(tick) == tick \div TicksPerDay

LEMMA DayBounds ==
  ASSUME NEW tick \in Int
  PROVE  /\ Day(tick) \in Int
         /\ Day(tick) * TicksPerDay <= tick
         /\ tick < (Day(tick) + 1) * TicksPerDay
BY TicksAssumption DEF Day

LEMMA ProductsGrow ==
  ASSUME NEW j \in Int, NEW k \in Int, j <= k
  PROVE  /\ j * TicksPerDay \in Int /\ k * TicksPerDay \in Int
         /\ j * TicksPerDay <= k * TicksPerDay
BY TicksAssumption

(* The tick lies in the day whose ticks enclose it.                        *)
LEMMA DayIsUnique ==
  ASSUME NEW tick \in Int, NEW k \in Int
  PROVE  /\ k * TicksPerDay <= tick => k <= Day(tick)
         /\ tick < (k + 1) * TicksPerDay => Day(tick) <= k
<1>1. ASSUME k * TicksPerDay <= tick, ~(k <= Day(tick))
      PROVE  FALSE
  <2>1. Day(tick) + 1 <= k
    BY <1>1, DayBounds
  <2>2. (Day(tick) + 1) * TicksPerDay <= k * TicksPerDay
    BY <2>1, DayBounds, ProductsGrow
  <2> QED
    BY <1>1, <2>2, DayBounds, ProductsGrow, TicksAssumption
<1>2. ASSUME tick < (k + 1) * TicksPerDay, ~(Day(tick) <= k)
      PROVE  FALSE
  <2>1. k + 1 <= Day(tick)
    BY <1>2, DayBounds
  <2>2. (k + 1) * TicksPerDay <= Day(tick) * TicksPerDay
    BY <2>1, DayBounds, ProductsGrow
  <2> QED
    BY <1>2, <2>2, DayBounds, ProductsGrow, TicksAssumption
<1> QED
  BY <1>1, <1>2

LEMMA DaysGrow ==
  ASSUME NEW s \in Int, NEW t \in Int, s <= t
  PROVE  Day(s) <= Day(t)
<1>1. Day(s) * TicksPerDay <= t
  BY DayBounds, ProductsGrow, TicksAssumption
<1> QED
  BY <1>1, DayBounds, DayIsUnique

(* A number of whole days later it is that many days later.                *)
LEMMA DaysAdd ==
  ASSUME NEW tick \in Int, NEW k \in Int
  PROVE  Day(tick + k * TicksPerDay) = Day(tick) + k
<1> DEFINE t == tick + k * TicksPerDay
<1>1. /\ Day(tick) \in Int /\ t \in Int
      /\ (Day(tick) + k) * TicksPerDay = Day(tick) * TicksPerDay + k * TicksPerDay
      /\ (Day(tick) + k + 1) * TicksPerDay
           = (Day(tick) + 1) * TicksPerDay + k * TicksPerDay
  BY DayBounds, TicksAssumption
<1>2. (Day(tick) + k) * TicksPerDay <= t /\ t < (Day(tick) + k + 1) * TicksPerDay
  BY <1>1, DayBounds, ProductsGrow, TicksAssumption
<1> HIDE DEF t
<1>3. Day(tick) + k <= Day(t) /\ Day(t) <= Day(tick) + k /\ Day(t) \in Int
  BY <1>1, <1>2, DayIsUnique, DayBounds
<1>4. Day(t) = Day(tick) + k
  BY <1>1, <1>3
<1> QED
  BY <1>4 DEF t

(* A tick that does not begin a day is of the same day as the one before.  *)
LEMMA SameDay ==
  ASSUME NEW tick \in Int
  PROVE  /\ Day(tick + 1) \in {Day(tick), Day(tick) + 1}
         /\ (tick + 1) % TicksPerDay # 0 => Day(tick + 1) = Day(tick)
BY TicksAssumption DEF Day

-----------------------------------------------------------------------------
(* Every variable keeps its type, and no resource is on the list of a      *)
(* sweep that has not started.                                             *)
LEMMA TypeInit == Init => TypeOK
<1>1. Len(Pages) \in Nat
  BY SweepAssumption
<1>2. 0 \in 0 .. LastTick /\ 0 \in 0 .. Len(Pages) /\ 0 \in 0 .. MaxMissed
  BY <1>1, SweepAssumption
<1>3. Init => /\ since \in [Resources -> 0 .. now] /\ startedAt \in 0 .. now
              /\ missed \in [Resources -> 0 .. MaxMissed]
  BY <1>2 DEF Init
<1> QED
  BY <1>2, <1>3 DEF Init, TypeOK

LEMMA PagesHold ==
  ASSUME NEW k \in 1 .. Len(Pages)
  PROVE  Pages[k] \subseteq Resources
BY SweepAssumption DEF Resources

LEMMA TypeNext == TypeOK /\ [Next]_vars => TypeOK'
<1> SUFFICES ASSUME TypeOK, [Next]_vars PROVE TypeOK'
  OBVIOUS
<1> USE SweepAssumption DEF TypeOK
<1>1. Len(Pages) \in Nat
  OBVIOUS
<1>2. CASE Tick
  <2>1. now + 1 \in 0 .. LastTick
    BY <1>2 DEF Tick
  <2> QED
    BY <1>2, <2>1 DEF Tick, tagVars
<1>3. CASE \E r \in Resources, t \in TagChoices : Retag(r, t)
  <2>1. 0 \in 0 .. MaxMissed
    OBVIOUS
  <2> QED
    BY <1>3, <2>1 DEF Retag, sweepVars
<1>4. CASE StartSweep
  BY <1>1, <1>4 DEF StartSweep, tagVars
<1>5. CASE ListPage
  <2>1. page + 1 \in 0 .. Len(Pages) /\ Pages[page + 1] \subseteq Resources
    BY <1>1, <1>5, PagesHold DEF ListPage
  <2> QED
    BY <1>5, <2>1 DEF ListPage, tagVars
<1>6. CASE EndListing \/ EndSweep \/ AttemptFails
  BY <1>6 DEF EndListing, EndSweep, AttemptFails, tagVars
<1>7. CASE ListingFails \/ SweepDropped
  <2>1. missed' \in [Resources -> 0 .. MaxMissed]
    BY <1>7 DEF ListingFails, SweepDropped, MissAll
  <2> QED
    BY <1>7, <2>1 DEF ListingFails, SweepDropped, MissAll
<1>8. ASSUME NEW r \in Resources, SendNotice(r)
      PROVE  TypeOK'
  <2>1. missed' \in [Resources -> 0 .. MaxMissed]
    BY <1>8 DEF SendNotice
  <2> QED
    BY <1>8, <2>1 DEF SendNotice
<1>9. CASE UNCHANGED vars
  BY <1>9 DEF vars, tagVars, sweepVars
<1> QED
  BY <1>2, <1>3, <1>4, <1>5, <1>6, <1>7, <1>8, <1>9 DEF Next

(* Every variable keeps its type: the clock never runs past its bound, and *)
(* no more chances come to nothing than MaxMissed.                         *)
THEOREM TypeCorrect == Spec => []TypeOK
BY TypeInit, TypeNext, PTL DEF Spec

(* A date with no time means through the end of that day: at any tick of   *)
(* the day written in the tag, an exemption is honoured, however long the  *)
(* day is.                                                                 *)
THEOREM DatesLastTheirDay == Spec => []DateLastsItsDay
<1>1. TypeOK => DateLastsItsDay
  <2> SUFFICES ASSUME TypeOK, NEW r \in Resources, tags[r].value = "true",
                      tags[r].until = "date", tags[r].at = now \div TicksPerDay
               PROVE  Exempt(tags[r], now)
    BY DEF DateLastsItsDay
  <2>1. now < (tags[r].at + 1) * TicksPerDay
    BY SweepAssumption, DayBounds DEF TypeOK, Day
  <2>2. End(tags[r]) = (tags[r].at + 1) * TicksPerDay
    BY DEF End
  <2>3. ~(now >= End(tags[r]))
    BY <2>1, <2>2, TicksAssumption, SweepAssumption DEF TypeOK, Tags
  <2> QED
    BY <2>3 DEF Exempt, Reason, ReadableForms
<1> QED
  BY <1>1, TypeCorrect, PTL

-----------------------------------------------------------------------------
(* A sweep a day is enough.  The days of the sweeps begin when they fall   *)
(* due.                                                                    *)

Today == Day(now - phase)

(* The day of the last tick an exemption holds.                            *)
LastDay(t) == Day(End(t) - 1 - phase)

Dated(r) == Listed(r) /\ tags[r].until \in ReadableForms

(* An exemption a notice is still to be published for.                     *)
Owed(r) == Dated(r) /\ Settled(r) /\ r \notin noticed /\ missed[r] < WarnWithinDays

(* The warning window is still to begin, on a later day than today.        *)
Early(r) == Today + WarnWithinDays < LastDay(tags[r])

(* The sweep that is due or at work is still a chance: until it is done    *)
(* with the resource.                                                      *)
Pending(r) == IF sweep = "idle" \/ (sweep = "sending" /\ r \notin expiring) THEN 0 ELSE 1

(* Each day since the window began had its chance, and all but the one     *)
(* still pending were missed; a sweep holds the resource as soon as it     *)
(* listed its page.                                                        *)
InTime(r) ==
  /\ now < End(tags[r])
  /\ Today + WarnWithinDays + 1 <= LastDay(tags[r]) + missed[r] + Pending(r)
  /\ sweep = "listing" =>
       \A k \in 1 .. page : r \in Pages[k] => r \in expiring \/ Early(r)

Sweeping ==
  /\ TypeOK
  /\ sweep \in {"listing", "sending"} => Day(startedAt - phase) = Today
  /\ \A r \in Resources : Owed(r) => InTime(r)

(* When an exemption ends.                                                 *)
LEMMA EndTyped ==
  ASSUME TypeOK, NEW t \in Tags, t.until \in ReadableForms
  PROVE  End(t) \in Int /\ LastDay(t) \in Int
<1>1. t.at \in Nat /\ t.at * TicksPerDay \in Int /\ (t.at + 1) * TicksPerDay \in Int
  BY TicksAssumption DEF Tags
<1>2. \/ End(t) = (t.at + 1) * TicksPerDay
      \/ End(t) = t.at * TicksPerDay + 1
      \/ End(t) = t.at + 1
  BY DEF End, ReadableForms
<1>3. End(t) \in Int
  <2>1. CASE End(t) = (t.at + 1) * TicksPerDay
    BY <1>1, <2>1
  <2>2. CASE End(t) = t.at * TicksPerDay + 1
    BY <1>1, <2>2
  <2>3. CASE End(t) = t.at + 1
    BY <1>1, <2>3
  <2> QED
    BY <1>2, <2>1, <2>2, <2>3
<1>4. End(t) - 1 - phase \in Int
  BY <1>3, TicksAssumption DEF TypeOK
<1> QED
  BY <1>3, <1>4, DayBounds DEF LastDay

LEMMA TagsTyped ==
  ASSUME TypeOK, NEW r \in Resources, Dated(r)
  PROVE  /\ End(tags[r]) \in Int /\ LastDay(tags[r]) \in Int
         /\ now \in Int /\ phase \in Int /\ Today \in Int
         /\ WarnWithinDays \in Nat /\ missed[r] \in Nat
<1>1. tags[r] \in Tags
  BY SweepAssumption DEF TypeOK
<1>2. now \in Int /\ phase \in Int /\ missed[r] \in Nat
  BY SweepAssumption, TicksAssumption DEF TypeOK
<1>3. Today \in Int
  BY <1>2, DayBounds DEF Today
<1> QED
  BY <1>1, <1>2, <1>3, EndTyped, SweepAssumption DEF Dated

(* What was tagged at a tick is in time at that tick, and its window is    *)
(* still to begin.                                                         *)
LEMMA TaggedInTime ==
  ASSUME NEW tick \in Int, NEW end \in Int,
         tick + (WarnWithinDays + 1) * TicksPerDay < end
  PROVE  tick < end /\ Day(tick) + WarnWithinDays + 1 <= Day(end - 1)
<1>1. WarnWithinDays + 1 \in Int /\ 0 <= WarnWithinDays + 1
  BY SweepAssumption
<1>2. (WarnWithinDays + 1) * TicksPerDay \in Int /\ 0 <= (WarnWithinDays + 1) * TicksPerDay
  BY <1>1, TicksAssumption
<1>3. Day(tick + (WarnWithinDays + 1) * TicksPerDay) = Day(tick) + (WarnWithinDays + 1)
  BY <1>1, DaysAdd
<1>4. Day(tick + (WarnWithinDays + 1) * TicksPerDay) <= Day(end - 1)
  BY <1>2, DaysGrow
<1>5. tick < end
  BY <1>2
<1>6. Day(tick) \in Int /\ Day(end - 1) \in Int
  BY DayBounds
<1>7. Day(tick) + (WarnWithinDays + 1) <= Day(end - 1)
  BY <1>3, <1>4
<1> QED
  BY <1>1, <1>5, <1>6, <1>7, SweepAssumption

(* A sweep leaves out an exemption that holds only before its window.      *)
LEMMA LeftOutIsEarly ==
  ASSUME NEW start \in Int, NEW end \in Int,
         ~((end - 1 - start) \div TicksPerDay <= WarnWithinDays)
  PROVE  Day(start) + WarnWithinDays < Day(end - 1)
<1> DEFINE w == WarnWithinDays + 1
           gap == end - 1 - start
<1>1. w \in Int /\ w * TicksPerDay \in Int /\ gap \in Int
  BY SweepAssumption, TicksAssumption
<1>2. w <= Day(gap) /\ Day(gap) \in Int
  BY <1>1, SweepAssumption, DayBounds DEF Day
<1>3. w * TicksPerDay <= Day(gap) * TicksPerDay /\ Day(gap) * TicksPerDay <= gap
  BY <1>1, <1>2, ProductsGrow, DayBounds
<1>4. start + w * TicksPerDay <= end - 1
  BY <1>1, <1>2, <1>3, ProductsGrow
<1>5. Day(start + w * TicksPerDay) <= Day(end - 1)
  BY <1>1, <1>4, DaysGrow
<1>6. Day(start + w * TicksPerDay) = Day(start) + w
  BY <1>1, DaysAdd
<1> QED
  BY <1>5, <1>6, DayBounds, SweepAssumption

(* The same of ends counted from the time the sweeps fall due.             *)
LEMMA SettledInTime ==
  ASSUME TypeOK, NEW t \in Tags, t.until \in ReadableForms,
         now + (WarnWithinDays + 1) * TicksPerDay < End(t)
  PROVE  now < End(t) /\ Today + WarnWithinDays + 1 <= LastDay(t)
<1> DEFINE end == End(t)
<1>1. end \in Int /\ now \in Int /\ phase \in Int /\ WarnWithinDays \in Nat
  BY EndTyped, SweepAssumption, TicksAssumption DEF TypeOK
<1>2. (WarnWithinDays + 1) * TicksPerDay \in Int
  BY <1>1, TicksAssumption
<1> HIDE DEF end
<1>3. /\ now - phase \in Int /\ end - phase \in Int
      /\ (now - phase) + (WarnWithinDays + 1) * TicksPerDay < end - phase
  BY <1>1, <1>2 DEF end
<1>4. /\ now - phase < end - phase
      /\ Day(now - phase) + WarnWithinDays + 1 <= Day((end - phase) - 1)
  BY <1>3, TaggedInTime
<1>5. (end - phase) - 1 = end - 1 - phase /\ now < end
  BY <1>1, <1>4
<1> QED
  BY <1>4, <1>5 DEF Today, LastDay, end

LEMMA SweepingInit == Init => Sweeping
<1> SUFFICES ASSUME Init, NEW r \in Resources, Owed(r) PROVE InTime(r)
  BY TypeInit DEF Sweeping, Init
<1>1. TypeOK
  BY TypeInit
<1>2. /\ End(tags[r]) \in Int /\ LastDay(tags[r]) \in Int
      /\ now \in Int /\ Today \in Int /\ WarnWithinDays \in Nat
  BY <1>1, TagsTyped DEF Owed
<1>3. /\ now + (WarnWithinDays + 1) * TicksPerDay < End(tags[r])
      /\ missed[r] = 0 /\ sweep # "listing"
  BY DEF Init, Owed, Settled
<1>4. now < End(tags[r]) /\ Today + WarnWithinDays + 1 <= LastDay(tags[r])
  <2>1. tags[r] \in Tags /\ tags[r].until \in ReadableForms
    BY <1>1, SweepAssumption DEF TypeOK, Owed, Dated
  <2> QED
    BY <1>1, <1>3, <2>1, SettledInTime
<1>5. Pending(r) \in {0, 1}
  BY DEF Pending
<1>6. Today + WarnWithinDays + 1 <= LastDay(tags[r]) + missed[r] + Pending(r)
  BY <1>2, <1>3, <1>4, <1>5
<1> QED
  BY <1>3, <1>4, <1>6 DEF InTime

(* Steps that change neither a tag nor the time.                           *)
LEMMA InTimeSweep ==
  ASSUME Sweeping, NEW r \in Resources, Owed(r),
         UNCHANGED <<now, phase, tags>>, missed'[r] \in {missed[r], missed[r] + 1},
         missed'[r] + Pending(r)' >= missed[r] + Pending(r) \/ Early(r),
         sweep' = "listing" =>
           \A k \in 1 .. page' : r \in Pages[k] => r \in expiring' \/ Early(r)
  PROVE  InTime(r)'
<1>1. /\ End(tags[r]) \in Int /\ LastDay(tags[r]) \in Int
      /\ now \in Int /\ Today \in Int /\ WarnWithinDays \in Nat /\ missed[r] \in Nat
  BY TagsTyped DEF Sweeping, Owed
<1>2. InTime(r)
  BY DEF Sweeping
<1>3. /\ Today' = Today /\ tags'[r] = tags[r] /\ Early(r)' = Early(r)
      /\ LastDay(tags[r])' = LastDay(tags[r])
  BY DEF Today, Early, LastDay
<1>4. Pending(r) \in {0, 1} /\ Pending(r)' \in {0, 1}
  BY DEF Pending
<1>5. Today + WarnWithinDays + 1 <= LastDay(tags[r]) + missed'[r] + Pending(r)'
  <2>1. CASE missed'[r] + Pending(r)' >= missed[r] + Pending(r)
    BY <1>1, <1>2, <1>4, <2>1 DEF InTime
  <2>2. CASE Early(r)
    BY <1>1, <1>4, <2>2 DEF Early
  <2> QED
    BY <2>1, <2>2
<1> QED
  BY <1>2, <1>3, <1>5 DEF InTime

(* Time does not reach the end of an exemption a notice is owed for.       *)
LEMMA InTimeTick ==
  ASSUME Sweeping, NEW r \in Resources, Owed(r), Tick
  PROVE  InTime(r)'
<1>1. /\ End(tags[r]) \in Int /\ LastDay(tags[r]) \in Int
      /\ now \in Int /\ phase \in Int /\ now - phase \in Int /\ Today \in Int
      /\ WarnWithinDays \in Nat /\ missed[r] \in Nat
  BY TagsTyped DEF Sweeping, Owed
<1>2. InTime(r) /\ missed[r] < WarnWithinDays
  BY DEF Sweeping, Owed
<1>3. Pending(r) \in {0, 1} /\ Pending(r)' \in {0, 1}
  BY DEF Pending
<1>4. now' = now + 1 /\ UNCHANGED <<phase, tagVars, page, expiring>>
  BY DEF Tick
<1>5. now + 1 < End(tags[r])
  <2> SUFFICES ASSUME ~(now + 1 < End(tags[r])) PROVE FALSE
    OBVIOUS
  <2>1. now = End(tags[r]) - 1
    <3>1. now < End(tags[r])
      BY <1>2 DEF InTime
    <3> QED
      BY <1>1, <3>1
  <2>2. Today = LastDay(tags[r])
    BY <2>1 DEF Today, LastDay
  <2>3. Today + WarnWithinDays + 1 <= Today + missed[r] + Pending(r)
    BY <1>2, <2>2 DEF InTime
  <2> QED
    BY <1>1, <1>2, <1>3, <2>3
<1>6. /\ tags'[r] = tags[r] /\ missed'[r] = missed[r]
      /\ LastDay(tags[r])' = LastDay(tags[r])
      /\ now' - phase' = (now - phase) + 1
  BY <1>1, <1>4 DEF tagVars, LastDay
<1>7. Today' = Day((now - phase) + 1)
  BY <1>6 DEF Today
<1>8. CASE Fires(now + 1)
  <2>1. sweep = "idle" /\ sweep' = "due"
    BY <1>4, <1>8 DEF Tick
  <2>2. Pending(r) = 0 /\ Pending(r)' = 1
    BY <2>1 DEF Pending
  <2>3. Today' \in {Today, Today + 1}
    BY <1>1, <1>7, SameDay DEF Today
  <2>4. Today' + WarnWithinDays + 1 <= LastDay(tags[r]) + missed[r] + 1
    BY <1>1, <1>2, <2>2, <2>3 DEF InTime
  <2> QED
    BY <1>4, <1>5, <1>6, <2>1, <2>2, <2>4 DEF InTime
<1>9. CASE ~ Fires(now + 1)
  <2>1. sweep' = sweep
    BY <1>4, <1>9 DEF Tick
  <2>2. Today' = Today
    <3>1. (now + 1) - phase = (now - phase) + 1
      BY <1>1
    <3>2. ((now - phase) + 1) % TicksPerDay # 0
      BY <1>9, <3>1 DEF Fires
    <3> QED
      BY <1>1, <1>7, <3>2, SameDay DEF Today
  <2>3. Pending(r)' = Pending(r) /\ Early(r)' = Early(r)
    BY <1>4, <1>6, <2>1, <2>2 DEF Pending, Early
  <2> QED
    BY <1>2, <1>4, <1>5, <1>6, <2>1, <2>2, <2>3 DEF InTime
<1> QED
  BY <1>8, <1>9

(* An exemption that is put in place is in time, whatever the sweep does.  *)
LEMMA InTimeRetag ==
  ASSUME Sweeping, TypeOK', NEW r \in Resources, Owed(r)', NEW t \in TagChoices, Retag(r, t)
  PROVE  InTime(r)'
<1>1. /\ tags'[r] = t /\ since'[r] = now /\ missed'[r] = 0
      /\ now' = now /\ phase' = phase /\ sweep' = sweep
  BY DEF Retag, sweepVars, Sweeping, TypeOK
<1>2. TypeOK /\ t \in Tags /\ t.until \in ReadableForms
  BY <1>1, SweepAssumption DEF Owed, Dated, Sweeping
<1>3. /\ End(t) \in Int /\ LastDay(t) \in Int /\ Today \in Int /\ WarnWithinDays \in Nat
  <2>1. now - phase \in Int
    BY <1>2, SweepAssumption, TicksAssumption DEF TypeOK
  <2> QED
    BY <1>2, <2>1, EndTyped, DayBounds, SweepAssumption DEF Today
<1>4. now < End(t) /\ Today + WarnWithinDays + 1 <= LastDay(t)
  <2>1. now + (WarnWithinDays + 1) * TicksPerDay < End(t)
    BY <1>1 DEF Owed, Settled
  <2> QED
    BY <1>2, <2>1, SettledInTime
<1>5. Today' = Today /\ LastDay(tags[r])' = LastDay(t) /\ Pending(r)' \in {0, 1}
  BY <1>1 DEF Today, LastDay, Pending
<1>6. Early(r)'
  BY <1>3, <1>4, <1>5 DEF Early
<1>7. (Today + WarnWithinDays + 1 <= LastDay(tags[r]) + missed[r] + Pending(r))'
  BY <1>1, <1>3, <1>4, <1>5
<1> QED
  BY <1>1, <1>4, <1>6, <1>7 DEF InTime

(* What a page adds to the list.                                           *)
LEMMA PageCovers ==
  ASSUME Sweeping, NEW r \in Resources, Owed(r), sweep = "listing", ~LapsesSoon(r)
  PROVE  Early(r)
<1> DEFINE end == End(tags[r])
<1>1. /\ end \in Int /\ now \in Int /\ phase \in Int
      /\ startedAt \in Int /\ startedAt <= now
      /\ Day(startedAt - phase) = Today /\ now < end
  BY TagsTyped DEF Sweeping, Owed, TypeOK, InTime
<1>2. Exempt(tags[r], startedAt)
  <2>1. tags[r].value = "true" /\ tags[r].until \in ReadableForms /\ ~(startedAt >= end)
    BY <1>1 DEF Owed, Dated, Listed
  <2> QED
    BY <2>1 DEF Exempt, Reason, ReadableForms
<1>3. ~((end - 1 - startedAt) \div TicksPerDay <= WarnWithinDays)
  BY <1>2 DEF LapsesSoon, DaysLeft
<1> HIDE DEF end
<1>4. /\ startedAt - phase \in Int /\ end - phase \in Int
      /\ (end - phase) - 1 - (startedAt - phase) = end - 1 - startedAt
      /\ (end - phase) - 1 = end - 1 - phase
  BY <1>1
<1>5. Day(startedAt - phase) + WarnWithinDays < Day((end - phase) - 1)
  BY <1>3, <1>4, LeftOutIsEarly
<1> QED
  BY <1>1, <1>4, <1>5 DEF Early, LastDay, end

LEMMA SweepingNext == Sweeping /\ [Next]_vars => Sweeping'
<1> SUFFICES ASSUME Sweeping, [Next]_vars PROVE Sweeping'
  OBVIOUS
<1>1. TypeOK /\ TypeOK'
  BY TypeNext DEF Sweeping
<1>2. /\ now \in Int /\ phase \in Int /\ Len(Pages) \in Nat /\ page \in Int
      /\ \A r \in Resources : missed[r] \in Nat /\ missed'[r] \in Nat
  BY <1>1, SweepAssumption, TicksAssumption DEF TypeOK
<1>3. (sweep \in {"listing", "sending"} => Day(startedAt - phase) = Today)'
  <2>1. CASE Tick
    <3>1. ~ Fires(now + 1) => Today' = Today
      <4>1. (now + 1) - phase = (now - phase) + 1 /\ now - phase \in Int
        BY <1>2
      <4>2. now' = now + 1 /\ phase' = phase
        BY <2>1 DEF Tick
      <4>3. Today' = Day((now - phase) + 1)
        BY <4>1, <4>2 DEF Today
      <4>4. ~ Fires(now + 1) => ((now - phase) + 1) % TicksPerDay # 0
        BY <4>1 DEF Fires
      <4> QED
        BY <4>1, <4>3, <4>4, SameDay DEF Today
    <3> QED
      BY <2>1, <3>1 DEF Tick, Sweeping
  <2>2. CASE ~Tick
    BY <2>2
    DEF Sweeping, Today, Next, Retag, sweepVars, StartSweep, ListPage, EndListing,
        ListingFails, SendNotice, EndSweep, AttemptFails, SweepDropped, vars
  <2> QED
    BY <2>1, <2>2
<1>4. ASSUME NEW r \in Resources, Owed(r)'
      PROVE  InTime(r)'
  <2>1. CASE Tick
    <3>1. Owed(r)
      BY <1>4, <2>1 DEF Tick, tagVars, Owed, Dated, Listed, Settled
    <3> QED
      BY <2>1, <3>1, InTimeTick
  <2>2. ASSUME NEW q \in Resources, NEW t \in TagChoices, Retag(q, t)
        PROVE  InTime(r)'
    <3>1. CASE q = r
      BY <1>1, <1>4, <2>2, <3>1, InTimeRetag
    <3>2. CASE q # r
      <4>1. /\ tags'[r] = tags[r] /\ since'[r] = since[r] /\ (r \in noticed' <=> r \in noticed)
            /\ missed'[r] = missed[r]
            /\ UNCHANGED <<now, phase, sweepVars>>
        BY <1>1, <2>2, <3>2 DEF Retag, TypeOK
      <4>2. Owed(r) /\ InTime(r)
        BY <1>4, <4>1 DEF Owed, Dated, Listed, Settled, Sweeping
      <4> QED
        BY <4>1, <4>2 DEF InTime, Today, LastDay, Pending, Early, sweepVars
    <3> QED
      BY <3>1, <3>2
  <2>3. CASE ~Tick /\ ~(\E q \in Resources, t \in TagChoices : Retag(q, t))
    <3>1. /\ UNCHANGED <<now, phase, tags, since>> /\ noticed \subseteq noticed'
          /\ missed'[r] \in {missed[r], missed[r] + 1}
      <4>1. CASE \E q \in Resources : SendNotice(q)
        BY <1>1, <4>1 DEF SendNotice, TypeOK
      <4>2. CASE ListingFails \/ SweepDropped
        BY <4>2 DEF ListingFails, SweepDropped, MissAll
      <4>3. CASE StartSweep \/ ListPage \/ EndListing \/ EndSweep \/ AttemptFails
        BY <4>3 DEF StartSweep, ListPage, EndListing, EndSweep, AttemptFails, tagVars
      <4>4. CASE UNCHANGED vars
        BY <4>4 DEF vars, tagVars
      <4> QED
        BY <2>3, <4>1, <4>2, <4>3, <4>4 DEF Next
    <3>2. Owed(r) /\ InTime(r)
      <4>1. missed[r] < WarnWithinDays
        BY <1>2, <1>4, <3>1, SweepAssumption DEF Owed
      <4> QED
        BY <1>4, <3>1, <4>1 DEF Owed, Dated, Listed, Settled, Sweeping
    <3>3. ASSUME missed'[r] = missed[r], Pending(r)' = 1
          PROVE  missed'[r] + Pending(r)' >= missed[r] + Pending(r)
      BY <1>2, <3>3 DEF Pending
    <3>4. ASSUME missed'[r] = missed[r] + 1
          PROVE  missed'[r] + Pending(r)' >= missed[r] + Pending(r)
      BY <1>2, <3>4 DEF Pending
    <3>5. CASE StartSweep
      <4>1. /\ sweep' = "listing" /\ page' = 0 /\ missed' = missed
            /\ Pending(r)' = 1
        BY <3>5 DEF StartSweep, tagVars, Pending
      <4> QED
        BY <3>1, <3>2, <3>3, <4>1, InTimeSweep
    <3>6. CASE ListPage
      <4>1. /\ sweep = "listing" /\ sweep' = "listing" /\ page' = page + 1
            /\ expiring' = expiring \union {q \in Pages[page + 1] : Listed(q) /\ LapsesSoon(q)}
            /\ missed' = missed /\ Pending(r)' = 1
        BY <3>6 DEF ListPage, tagVars, Pending
      <4>2. ASSUME NEW k \in 1 .. page', r \in Pages[k]
            PROVE  r \in expiring' \/ Early(r)
        <5>1. CASE k \in 1 .. page
          BY <3>2, <4>1, <4>2, <5>1 DEF InTime
        <5>2. CASE k = page + 1
          BY <3>2, <4>1, <4>2, <5>2, PageCovers DEF Owed, Dated
        <5> QED
          BY <1>2, <4>1, <5>1, <5>2
      <4> QED
        BY <3>1, <3>2, <3>3, <4>1, <4>2, InTimeSweep
    <3>7. CASE EndListing
      <4>1. /\ sweep = "listing" /\ sweep' = "sending" /\ page = Len(Pages)
            /\ expiring' = expiring /\ missed' = missed
        BY <3>7 DEF EndListing, tagVars
      <4>2. PICK k \in 1 .. page : r \in Pages[k]
        BY <4>1, SweepAssumption DEF Resources
      <4>3. r \in expiring' \/ Early(r)
        BY <3>2, <4>1, <4>2 DEF InTime
      <4>4. r \in expiring' => Pending(r)' = 1
        BY <4>1 DEF Pending
      <4> QED
        BY <3>1, <3>2, <3>3, <4>1, <4>3, <4>4, InTimeSweep
    <3>8. CASE \E q \in Resources : SendNotice(q)
      <4>1. PICK q \in Resources : SendNotice(q)
        BY <3>8
      <4>2. sweep = "sending" /\ sweep' = "sending" /\ expiring' = expiring \ {q}
        BY <4>1 DEF SendNotice
      <4>3. CASE q = r
        <5>1. missed'[r] = missed[r] + 1
          BY <1>1, <1>4, <4>1, <4>3 DEF SendNotice, Owed, TypeOK
        <5> QED
          BY <3>1, <3>2, <3>4, <4>2, <5>1, InTimeSweep
      <4>4. CASE q # r
        <5>1. missed'[r] = missed[r]
          BY <1>1, <4>1, <4>4 DEF SendNotice, TypeOK
        <5>2. Pending(r)' = Pending(r) /\ Pending(r) \in Nat
          BY <4>2, <4>4 DEF Pending
        <5>3. missed'[r] + Pending(r)' >= missed[r] + Pending(r)
          BY <1>2, <5>1, <5>2
        <5> QED
          BY <3>1, <3>2, <4>2, <5>3, InTimeSweep
      <4> QED
        BY <4>3, <4>4
    <3>9. CASE EndSweep
      <4>1. /\ sweep = "sending" /\ sweep' = "idle" /\ expiring = {}
            /\ missed' = missed
        BY <3>9 DEF EndSweep, tagVars
      <4>2. Pending(r) = 0 /\ Pending(r)' = 0
        BY <4>1 DEF Pending
      <4>3. missed'[r] + Pending(r)' >= missed[r] + Pending(r)
        BY <1>2, <4>1, <4>2
      <4> QED
        BY <3>1, <3>2, <4>1, <4>3, InTimeSweep
    <3>10. CASE ListingFails \/ SweepDropped
      <4>1. missed'[r] = missed[r] + 1 /\ sweep' = "idle"
        BY <3>10 DEF ListingFails, SweepDropped, MissAll
      <4> QED
        BY <3>1, <3>2, <3>4, <4>1, InTimeSweep
    <3>11. CASE AttemptFails
      <4>1. missed' = missed /\ sweep' = "due" /\ Pending(r)' = 1
        BY <3>11 DEF AttemptFails, tagVars, Pending
      <4> QED
        BY <3>1, <3>2, <3>3, <4>1, InTimeSweep
    <3>12. CASE UNCHANGED vars
      BY <3>2, <3>12 DEF vars, tagVars, sweepVars, InTime, Today, LastDay, Pending, Early
    <3> QED
      BY <2>3, <3>5, <3>6, <3>7, <3>8, <3>9, <3>10, <3>11, <3>12 DEF Next
  <2> QED
    BY <2>1, <2>2, <2>3
<1> QED
  BY <1>1, <1>3, <1>4 DEF Sweeping

(* The daily sweep warns in time: no exemption that was in place for its   *)
(* window lapses without a published notice, unless since it was tagged as *)
(* many sweeps failed, or notices of it were lost, as the window has days; *)
(* at whatever time of the day the sweeps fall due, however late each runs,*)
(* however often an attempt at it is repeated, and whatever is retagged    *)
(* while it lists and sends.                                               *)
THEOREM NoticeComesFirst == Spec => []WarnedBeforeLapse
<1>1. Sweeping => WarnedBeforeLapse
  <2> SUFFICES ASSUME Sweeping, NEW r \in Resources, Reason(tags[r], now) = "expired",
                      Listed(r), Settled(r), missed[r] < WarnWithinDays, r \notin noticed
               PROVE  FALSE
    BY DEF WarnedBeforeLapse
  <2>1. tags[r] \in Tags
    BY SweepAssumption DEF Sweeping, TypeOK
  <2>2. tags[r].until \in ReadableForms /\ now >= End(tags[r])
    BY <2>1 DEF Reason, Tags, UntilForms, ReadableForms, Listed
  <2>3. Owed(r)
    BY <2>2 DEF Owed, Dated
  <2>4. now < End(tags[r]) /\ End(tags[r]) \in Int /\ now \in Int
    BY <2>3, TagsTyped DEF Sweeping, InTime, Owed
  <2> QED
    BY <2>2, <2>4
<1> QED
  BY <1>1, SweepingInit, SweepingNext, PTL DEF Spec

=============================================================================
