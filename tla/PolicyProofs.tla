---------------------------- MODULE PolicyProofs ----------------------------
(***************************************************************************)
(* What decide() permits and when a deferred outreach may be made: for any *)
(* settings, question and moment, and any resolution of the clock.         *)
(***************************************************************************)
EXTENDS MCPolicyEngine, TLAPS

Hours == 0 .. HoursPerDay - 1

(* Settings, and a question to the engine, as far as the gates look.       *)
SettingsTyped(s) ==
  /\ s.min_diagnosis_confidence \in Nat /\ s.max_touches_per_payer_7d \in Nat
  /\ s.human_approval_threshold_paise \in Nat /\ s.max_interventions_per_batch \in Nat
  /\ s.quiet_hours_start \in Hours /\ s.quiet_hours_end \in Hours

QuestionTyped(c) ==
  /\ c.confidence \in Nat /\ c.amount_paise \in Nat /\ c.touches_in_window \in Nat
  /\ c.interventions_dispatched_in_batch \in Nat /\ c.now \in Nat

Answered == decision = Open \/ decision = decide(proposal, ctx, settings)

IInv == SettingsTyped(settings) /\ QuestionTyped(ctx) /\ Answered

-----------------------------------------------------------------------------
(* The gates.                                                              *)
Permitted(p, c, s) ==
  /\ p \in RequiresContact
  /\ ~s.kill_switch_enabled
  /\ c.confidence >= s.min_diagnosis_confidence
  /\ c.category \in Recoverable \intersect CustomerActionable
  /\ c.touches_in_window < s.max_touches_per_payer_7d
  /\ c.amount_paise <= s.human_approval_threshold_paise
  /\ c.interventions_dispatched_in_batch < s.max_interventions_per_batch
  /\ ~InQuietHours(c.now, s)

Silent(p, c, s) == \A i \in 1 .. 9 : ~Fires(GateOrder[i], p, c, s)

LEMMA Gates ==
  /\ DOMAIN GateOrder = 1 .. 9
  /\ GateOrder[1] = "KILL_SWITCH" /\ GateOrder[2] = "LOW_CONFIDENCE"
  /\ GateOrder[3] = "UNRECOVERABLE_CATEGORY" /\ GateOrder[4] = "TOUCH_CAP_EXCEEDED"
  /\ GateOrder[5] = "HUMAN_APPROVAL_REQUIRED" /\ GateOrder[6] = "BATCH_INTERVENTION_CEILING"
  /\ GateOrder[7] = "OUT_OF_CATALOG" /\ GateOrder[8] = "CATEGORY_NOT_CUSTOMER_ACTIONABLE"
  /\ GateOrder[9] = "QUIET_HOURS"
BY DEF GateOrder

(* A proposal to contact the customer passes every gate exactly when       *)
(* nothing speaks against it.                                              *)
LEMMA SilentIffPermitted ==
  ASSUME NEW p \in RequiresContact, NEW c, NEW s, QuestionTyped(c), SettingsTyped(s)
  PROVE  Silent(p, c, s) <=> Permitted(p, c, s)
<1>1. Silent(p, c, s) <=>
        /\ ~Fires("KILL_SWITCH", p, c, s) /\ ~Fires("LOW_CONFIDENCE", p, c, s)
        /\ ~Fires("UNRECOVERABLE_CATEGORY", p, c, s) /\ ~Fires("TOUCH_CAP_EXCEEDED", p, c, s)
        /\ ~Fires("HUMAN_APPROVAL_REQUIRED", p, c, s) /\ ~Fires("BATCH_INTERVENTION_CEILING", p, c, s)
        /\ ~Fires("OUT_OF_CATALOG", p, c, s) /\ ~Fires("CATEGORY_NOT_CUSTOMER_ACTIONABLE", p, c, s)
        /\ ~Fires("QUIET_HOURS", p, c, s)
  <2>1. \A i \in 1 .. 9 : i = 1 \/ i = 2 \/ i = 3 \/ i = 4 \/ i = 5 \/ i = 6 \/ i = 7 \/ i = 8 \/ i = 9
    OBVIOUS
  <2>2. /\ 1 \in 1 .. 9 /\ 2 \in 1 .. 9 /\ 3 \in 1 .. 9 /\ 4 \in 1 .. 9 /\ 5 \in 1 .. 9
        /\ 6 \in 1 .. 9 /\ 7 \in 1 .. 9 /\ 8 \in 1 .. 9 /\ 9 \in 1 .. 9
    OBVIOUS
  <2> QED
    BY <2>1, <2>2, Gates, Zenon DEF Silent
<1>2. p \in Interventions
  BY DEF RequiresContact, Interventions
<1>3. /\ Fires("KILL_SWITCH", p, c, s) <=> s.kill_switch_enabled
      /\ Fires("LOW_CONFIDENCE", p, c, s) <=> c.confidence < s.min_diagnosis_confidence
      /\ Fires("UNRECOVERABLE_CATEGORY", p, c, s) <=> c.category \notin Recoverable
      /\ Fires("TOUCH_CAP_EXCEEDED", p, c, s) <=> c.touches_in_window >= s.max_touches_per_payer_7d
      /\ Fires("HUMAN_APPROVAL_REQUIRED", p, c, s)
           <=> c.amount_paise > s.human_approval_threshold_paise
      /\ Fires("BATCH_INTERVENTION_CEILING", p, c, s)
           <=> c.interventions_dispatched_in_batch >= s.max_interventions_per_batch
      /\ Fires("OUT_OF_CATALOG", p, c, s) <=> p \notin Interventions
      /\ Fires("CATEGORY_NOT_CUSTOMER_ACTIONABLE", p, c, s)
           <=> p \in RequiresContact /\ c.category \notin CustomerActionable
      /\ Fires("QUIET_HOURS", p, c, s) <=> p \in RequiresContact /\ InQuietHours(c.now, s)
  BY DEF Fires
<1> QED
  BY <1>1, <1>2, <1>3 DEF Permitted, QuestionTyped, SettingsTyped

(* The gate that overrides a proposal is one that fires, and what it falls *)
(* back to never contacts anyone.                                          *)
LEMMA Overridden ==
  ASSUME NEW p, NEW c, NEW s, ~Silent(p, c, s)
  PROVE  \E gate : /\ Fires(gate, p, c, s)
                   /\ decide(p, c, s).rule_id = gate
                   /\ decide(p, c, s).authorized_intervention = Fallback(gate, c.category)
                   /\ decide(p, c, s).retry_at = IF gate = "QUIET_HOURS"
                                                   THEN NextAllowedHour(c.now, s) ELSE NoRetry
<1> DEFINE FiresAt(i) == Fires(GateOrder[i], p, c, s)
           Leads(i)   == FiresAt(i) /\ \A j \in 1 .. i - 1 : ~FiresAt(j)
           first      == CHOOSE i \in DOMAIN GateOrder : Leads(i)
<1>1. DOMAIN GateOrder = 1 .. 9
  BY Gates
<1>2. \E i \in 1 .. 9 : Leads(i)
  <2>1. PICK k \in 1 .. 9 : FiresAt(k)
    BY DEF Silent
  <2> HIDE DEF FiresAt
  <2> QED
    BY <2>1
<1>3. first \in DOMAIN GateOrder /\ FiresAt(first)
  <2> HIDE DEF FiresAt
  <2> QED
    BY <1>1, <1>2
<1>4. decide(p, c, s) = Decision(p, Fallback(GateOrder[first], c.category), GateOrder[first],
                                 IF GateOrder[first] = "QUIET_HOURS"
                                   THEN NextAllowedHour(c.now, s) ELSE NoRetry)
  BY <1>1, Zenon DEF decide, Silent
<1> HIDE DEF first
<1> QED
  BY <1>3, <1>4 DEF Decision

LEMMA FallbacksAreSilent ==
  ASSUME NEW gate, NEW p, NEW c, NEW s, Fires(gate, p, c, s)
  PROVE  Fallback(gate, c.category) \notin RequiresContact
<1>1. CASE gate = "CATEGORY_NOT_CUSTOMER_ACTIONABLE"
  BY <1>1 DEF Fires, Fallback, propose_default, RequiresContact
<1> QED
  BY <1>1 DEF Fallback, RequiresContact

LEMMA Authorized ==
  ASSUME NEW p, NEW c, NEW s, Silent(p, c, s)
  PROVE  decide(p, c, s) = Decision(p, p, "PROPOSAL_AUTHORIZED", NoRetry)
BY Gates DEF decide, Silent

LEMMA ContactDecision ==
  ASSUME NEW p, NEW c, NEW s, QuestionTyped(c), SettingsTyped(s)
  PROVE  decide(p, c, s).authorized_intervention \in RequiresContact <=> Permitted(p, c, s)
<1>1. CASE Silent(p, c, s)
  <2>1. decide(p, c, s).authorized_intervention = p
    BY <1>1, Authorized DEF Decision
  <2> QED
    BY <1>1, <2>1, SilentIffPermitted DEF Permitted
<1>2. CASE ~Silent(p, c, s)
  <2>1. decide(p, c, s).authorized_intervention \notin RequiresContact
    BY <1>2, Overridden, FallbacksAreSilent
  <2> QED
    BY <1>2, <2>1, SilentIffPermitted DEF Permitted
<1> QED
  BY <1>1, <1>2

-----------------------------------------------------------------------------
(* The hours of a day.                                                     *)
LEMMA DivRange ==
  ASSUME NEW x \in Nat, NEW T \in Nat \ {0}, NEW n \in Nat
  PROVE  /\ x \div T \in Nat
         /\ x < n * T <=> x \div T < n
OBVIOUS

LEMMA Divided ==
  ASSUME NEW x \in Nat, NEW T \in Nat \ {0}, NEW m \in Nat
  PROVE  (m * T + x) \div T = m + (x \div T)
OBVIOUS

LEMMA Wrapped ==
  ASSUME NEW H \in Nat \ {0}, NEW k \in Nat, NEW y \in 0 .. H - 1
  PROVE  (k * H + y) % H = y
OBVIOUS

LEMMA Divmod ==
  ASSUME NEW now \in Nat, NEW D \in Nat \ {0}
  PROVE  /\ now \div D \in Nat /\ now % D \in 0 .. D - 1
         /\ now = (now \div D) * D + (now % D)
OBVIOUS

LEMMA DayType == TicksPerDay \in Nat \ {0} /\ TicksPerHour \in Nat \ {0} /\ HoursPerDay \in Nat \ {0}
BY ClockAssumption DEF TicksPerDay

(* The hour at x ticks into day k.                                         *)
LEMMA HourOfDay ==
  ASSUME NEW k \in Nat, NEW x \in 0 .. TicksPerDay - 1
  PROVE  /\ Hour(k * TicksPerDay + x) = x \div TicksPerHour
         /\ x \div TicksPerHour \in Hours
<1>1. x \div TicksPerHour \in Hours
  <2>1. x \in Nat /\ x < HoursPerDay * TicksPerHour
    BY DayType DEF TicksPerDay
  <2> QED
    BY <2>1, DivRange, DayType DEF Hours
<1>2. k * TicksPerDay + x = (k * HoursPerDay) * TicksPerHour + x
  BY DayType DEF TicksPerDay
<1>3. (k * TicksPerDay + x) \div TicksPerHour = k * HoursPerDay + (x \div TicksPerHour)
  <2> DEFINE m == k * HoursPerDay
  <2>1. m \in Nat /\ x \in Nat /\ TicksPerHour \in Nat \ {0}
    BY DayType
  <2> HIDE DEF m
  <2>2. (m * TicksPerHour + x) \div TicksPerHour = m + (x \div TicksPerHour)
    BY <2>1, Divided
  <2> QED
    BY <1>2, <2>2 DEF m
<1> QED
  BY <1>1, <1>3, Wrapped, DayType DEF Hour, Hours

QuietHour(h, s) ==
  IF s.quiet_hours_start > s.quiet_hours_end THEN h >= s.quiet_hours_start \/ h < s.quiet_hours_end
                                             ELSE s.quiet_hours_start <= h /\ h < s.quiet_hours_end

LEMMA QuietAt ==
  ASSUME NEW k \in Nat, NEW x \in 0 .. TicksPerDay - 1, NEW s
  PROVE  InQuietHours(k * TicksPerDay + x, s) <=> QuietHour(x \div TicksPerHour, s)
BY HourOfDay DEF InQuietHours, QuietHour

(* From a quiet moment on it is quiet up to the end of the window, which   *)
(* is the moment a deferral names, and there it is quiet no longer.        *)
LEMMA QuietUntilRetry ==
  ASSUME NEW now \in Nat, NEW s, SettingsTyped(s), InQuietHours(now, s)
  PROVE  LET retry == NextAllowedHour(now, s) IN
           /\ retry \in Nat /\ now < retry /\ retry < now + TicksPerDay
           /\ ~InQuietHours(retry, s)
           /\ \A t \in now .. retry - 1 : InQuietHours(t, s)
<1> DEFINE T == TicksPerHour
           H == HoursPerDay
           D == TicksPerDay
           k == now \div D
           x == now % D
           start == s.quiet_hours_start
           end   == s.quiet_hours_end
           retry == NextAllowedHour(now, s)
<1>1. /\ T \in Nat \ {0} /\ H \in Nat \ {0} /\ D \in Nat \ {0} /\ D = T * H
      /\ k \in Nat /\ x \in 0 .. D - 1 /\ now = k * D + x
      /\ start \in 0 .. H - 1 /\ end \in 0 .. H - 1
  BY DayType, Divmod DEF TicksPerDay, SettingsTyped, Hours
<1>2. QuietHour(x \div T, s)
  BY <1>1, QuietAt
<1>3. end * T \in 0 .. D - 1 /\ (end * T) \div T = end
  <2>1. end + 1 <= H /\ (end + 1) * T <= H * T
    BY <1>1
  <2>2. end * T \in Nat /\ end * T < H * T
    BY <1>1, <2>1
  <2>3. end \in Nat /\ 0 \in Nat /\ T \in Nat \ {0}
    BY <1>1
  <2>4. (end * T + 0) \div T = end + (0 \div T)
    BY <2>3, Divided
  <2>5. 0 \div T = 0
    BY <2>3
  <2> QED
    BY <1>1, <2>2, <2>4, <2>5
<1>4. ~QuietHour(end, s)
  BY <1>1 DEF QuietHour
<1>5. now - x = k * D
  BY <1>1
<1>6. retry = IF k * D + end * T <= now THEN k * D + end * T + D ELSE k * D + end * T
  BY <1>5 DEF NextAllowedHour
<1>7. \A j \in Nat, y \in 0 .. D - 1 : InQuietHours(j * D + y, s) <=> QuietHour(y \div T, s)
  BY QuietAt
<1>8. \A y \in Nat, n \in Nat : y \div T \in Nat /\ (y < n * T <=> y \div T < n)
  BY <1>1, DivRange
<1> HIDE DEF k, x, retry, D, T, H
<1>9. CASE x < end * T
  <2>1. retry = k * D + end * T /\ k * D \in Nat
    BY <1>1, <1>3, <1>6, <1>9
  <2>2. ~InQuietHours(retry, s)
    BY <1>1, <1>3, <1>4, <1>7, <2>1
  <2>3. ASSUME NEW t \in now .. retry - 1 PROVE InQuietHours(t, s)
    <3> DEFINE y == t - k * D
    <3>1. y \in 0 .. D - 1 /\ y < end * T /\ x <= y /\ t = k * D + y
      BY <1>1, <1>3, <2>1
    <3> HIDE DEF y
    <3>2. y \div T < end /\ x \div T < end /\ y \div T \in Nat /\ x \div T \in Nat
      BY <1>1, <1>3, <1>8, <1>9, <3>1
    <3>3. start <= end => start * T <= x
      BY <1>1, <1>2, <1>8 DEF QuietHour
    <3>4. start <= end => start <= y \div T
      BY <1>1, <1>8, <3>1, <3>2, <3>3
    <3>5. QuietHour(y \div T, s)
      BY <1>1, <3>2, <3>4 DEF QuietHour
    <3> QED
      BY <1>1, <1>7, <3>1, <3>5
  <2> QED
    BY <1>1, <1>3, <1>9, <2>1, <2>2, <2>3 DEF retry, D
<1>10. CASE x >= end * T
  <2>1. retry = k * D + end * T + D /\ k * D \in Nat
    BY <1>1, <1>3, <1>6, <1>10
  <2>2. retry = (k + 1) * D + end * T /\ k + 1 \in Nat
    BY <1>1, <1>3, <2>1
  <2>3. ~InQuietHours(retry, s)
    BY <1>3, <1>4, <1>7, <2>2
  <2>4. ~(x \div T < end) /\ x \div T \in Nat
    BY <1>1, <1>8, <1>10
  <2>5. start > end /\ x \div T >= start
    BY <1>1, <1>2, <2>4 DEF QuietHour
  <2>6. start * T <= x
    BY <1>1, <1>8, <2>5
  <2>7. ASSUME NEW t \in now .. retry - 1 PROVE InQuietHours(t, s)
    <3>1. CASE t < k * D + D
      <4> DEFINE y == t - k * D
      <4>1. y \in 0 .. D - 1 /\ x <= y /\ t = k * D + y
        BY <1>1, <2>1, <3>1
      <4> HIDE DEF y
      <4>2. y \div T >= start
        BY <1>1, <1>8, <2>6, <4>1
      <4> QED
        BY <1>1, <1>7, <2>5, <4>1, <4>2 DEF QuietHour
    <3>2. CASE t >= k * D + D
      <4> DEFINE y == t - (k * D + D)
      <4>1. y \in 0 .. D - 1 /\ y < end * T /\ t = (k + 1) * D + y
        BY <1>1, <1>3, <2>1, <3>2
      <4> HIDE DEF y
      <4>2. y \div T < end
        BY <1>1, <1>8, <4>1
      <4>3. QuietHour(y \div T, s)
        BY <2>5, <4>2 DEF QuietHour
      <4> QED
        BY <1>7, <2>2, <4>1, <4>3
    <3> QED
      BY <1>1, <2>1, <3>1, <3>2
  <2> QED
    <3>1. retry \in Nat /\ now < retry /\ retry < now + D
      <4>1. k * D \in Nat /\ end * T \in Nat /\ D \in Nat /\ now \in Nat
        BY <1>1, <1>3, <2>1
      <4>2. end * T < x /\ now = k * D + x
        <5>1. x # end * T
          BY <1>2, <1>3, <1>4
        <5> QED
          BY <1>1, <1>3, <1>10, <5>1
      <4> QED
        <5> DEFINE a == k * D
                   b == end * T
        <5>1. retry = a + b + D /\ now = a + x /\ b < x /\ x < D
          BY <1>1, <2>1, <4>2
        <5>2. a \in Nat /\ b \in Nat /\ D \in Nat /\ x \in Nat
          BY <1>1, <4>1
        <5> HIDE DEF a, b
        <5> QED
          BY <5>1, <5>2
    <3> QED
      BY <2>3, <2>7, <3>1 DEF retry, D
<1> QED
  BY <1>1, <1>3, <1>9, <1>10

-----------------------------------------------------------------------------
LEMMA InitInv == Init => IInv
<1> SUFFICES ASSUME Init PROVE IInv
  OBVIOUS
<1>1. QuestionTyped(ctx)
  <2>1. /\ ctx.confidence \in Confidences /\ ctx.amount_paise \in Amounts
        /\ ctx.touches_in_window \in Touches /\ ctx.interventions_dispatched_in_batch \in Batches
        /\ ctx.now \in 0 .. TicksPerDay - 1
    BY DEF Init
  <2> QED
    <3>1. ctx.now \in Nat
      BY <2>1, DayType
    <3> QED
      BY <2>1, <3>1, QuestionAssumption DEF QuestionTyped
<1>2. SettingsTyped(settings)
  BY QuestionAssumption DEF Init, SettingsTyped, Hours
<1> QED
  BY <1>1, <1>2 DEF Init, IInv, Answered

LEMMA StepInv == IInv /\ [Next]_vars => IInv'
BY DEF IInv, Answered, Next, Decide, vars, SettingsTyped, QuestionTyped

LEMMA Inductive == Spec => []IInv
BY InitInv, StepInv, PTL DEF Spec

(* A customer is contacted exactly when none of the nine reasons to stay   *)
(* silent holds, whatever the thresholds are (decide() of policy/engine.py *)
(* with the three tables it reads).                                        *)
THEOREM ContactExactlyWhenPermitted == Spec => []ContactIffPermitted
<1>1. IInv => ContactIffPermitted
  BY ContactDecision DEF IInv, Answered, ContactIffPermitted, Permitted
<1> QED
  BY <1>1, Inductive, PTL

(* A deferral names the first moment at which outreach is allowed again,   *)
(* for any window, wrapping midnight or not (_next_allowed_hour).          *)
THEOREM RetryIsFirstAllowedMoment == Spec => []RetryAtFirstAllowedMoment
<1>1. IInv => RetryAtFirstAllowedMoment
  <2> SUFFICES ASSUME IInv, decision.rule_id = "QUIET_HOURS" PROVE RetryAtFirstAllowedMoment
    BY DEF RetryAtFirstAllowedMoment
  <2>1. decision = decide(proposal, ctx, settings)
    BY DEF IInv, Answered, Open
  <2>2. ~Silent(proposal, ctx, settings)
    BY <2>1, Authorized DEF Decision
  <2>3. /\ Fires("QUIET_HOURS", proposal, ctx, settings)
        /\ decision.retry_at = NextAllowedHour(ctx.now, settings)
    BY <2>1, <2>2, Overridden
  <2>4. InQuietHours(ctx.now, settings) /\ ctx.now \in Nat
    BY <2>3 DEF Fires, IInv, QuestionTyped
  <2> QED
    BY <2>3, <2>4, QuietUntilRetry DEF IInv, RetryAtFirstAllowedMoment
<1> QED
  BY <1>1, Inductive, PTL
=============================================================================
