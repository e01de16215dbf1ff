------------------------------ MODULE PanelProofs ------------------------------
(***************************************************************************)
(* The theorems on the panel's three tasks, which exchange nothing but     *)
(* queued commands and events: radio_task, button_task and ui_task.        *)
(* They hold for every capacity of RADIO_CMD and period of its ticker, for *)
(* every long-press time and number of buttons' polls, and for every       *)
(* number of rows of a snapshot and height of a line.                      *)
(***************************************************************************)
EXTENDS Radio, MCButtons, Ui, Integers, FiniteSetTheorems, TLAPS

-----------------------------------------------------------------------------
(* Channel control *)

LEMMA RadioTypeInit == RadioInit => RadioTypeOK
<1> SUFFICES ASSUME RadioInit PROVE RadioTypeOK
  OBVIOUS
<1>1. CmdCap \in Nat /\ Period \in Nat
  BY RadioAssumption
<1>2. RADIO_CMD \in Seq(Presets) /\ Len(RADIO_CMD) = 0
  BY DEF RadioInit
<1>3. CURRENT_CHANNEL \in {1, 6, 11} /\ hop \in 0..2 /\ RADIO_ERRORS \in Nat
  BY DEF RadioInit
<1>4. HOP_MODE \in BOOLEAN
  BY Zenon DEF RadioInit
<1>5. left \in Int /\ left <= Period /\ since \in 0..Period
  BY <1>1 DEF RadioInit
<1> QED
  BY <1>1, <1>2, <1>3, <1>4, <1>5 DEF RadioTypeOK

\* NextPreset stays among the presets and moves on.
LEMMA PresetSteps ==
  ASSUME RadioTypeOK
  PROVE  /\ Preset \in Presets
         /\ \A p \in Presets : NextPreset(p) \in Presets /\ NextPreset(p) # p
BY DEF RadioTypeOK, Preset, Presets, SetHop, NextPreset

\* Taking a command: its own, and what stays in the queue.
LEMMA Taken ==
  ASSUME RadioTypeOK, TakeCommand
  PROVE  /\ RADIO_CMD' \in Seq(Presets) /\ Len(RADIO_CMD') <= CmdCap
         /\ Head(RADIO_CMD) = RADIO_CMD[1] /\ Head(RADIO_CMD) \in Presets
         /\ Len(RADIO_CMD) \in Nat /\ Len(RADIO_CMD) > 0
         /\ Len(RADIO_CMD') = Len(RADIO_CMD) - 1
         /\ \A i \in 1..Len(RADIO_CMD') :
               RADIO_CMD'[i] = RADIO_CMD[i + 1] /\ i + 1 \in 1..Len(RADIO_CMD)
<1>1. RADIO_CMD \in Seq(Presets) /\ RADIO_CMD # <<>> /\ RADIO_CMD' = Tail(RADIO_CMD)
  BY DEF RadioTypeOK, TakeCommand
<1>2. /\ RADIO_CMD' \in Seq(Presets) /\ Len(RADIO_CMD) \in Nat /\ Len(RADIO_CMD) > 0
      /\ Len(RADIO_CMD') = Len(RADIO_CMD) - 1
      /\ Head(RADIO_CMD) = RADIO_CMD[1] /\ Head(RADIO_CMD) \in Presets
      /\ \A i \in 1..Len(RADIO_CMD') : RADIO_CMD'[i] = RADIO_CMD[i + 1]
  BY <1>1
<1>3. Len(RADIO_CMD) <= CmdCap /\ CmdCap \in Nat
  BY RadioAssumption DEF RadioTypeOK
<1> QED
  BY <1>2, <1>3

\* Tuning to a channel of the presets.
LEMMA Tuned ==
  ASSUME RadioTypeOK, NEW ch \in {1, 6, 11}, Tune(ch)
  PROVE  /\ CURRENT_CHANNEL' \in {1, 6, 11} /\ RADIO_ERRORS' \in Nat
         /\ RADIO_ERRORS' = 0 => RADIO_ERRORS = 0 /\ CURRENT_CHANNEL' = ch
BY DEF RadioTypeOK, Tune

\* A press appends one preset or finds the queue full.
LEMMA Pressed ==
  ASSUME RadioTypeOK, Press
  PROVE  /\ RADIO_CMD' \in Seq(Presets) /\ Len(RADIO_CMD') <= CmdCap
         /\ Len(RADIO_CMD) \in Nat
         /\ \A i \in 1..Len(RADIO_CMD') :
               \/ i \in 1..Len(RADIO_CMD) /\ RADIO_CMD'[i] = RADIO_CMD[i]
               \/ i = Len(RADIO_CMD) + 1 /\ RADIO_CMD'[i] = NextPreset(Preset)
<1>1. RADIO_CMD \in Seq(Presets) /\ Len(RADIO_CMD) <= CmdCap /\ CmdCap \in Nat
  BY RadioAssumption DEF RadioTypeOK
<1>2. NextPreset(Preset) \in Presets
  BY PresetSteps
<1>3. CASE CmdFits
  <2>1. RADIO_CMD' = Append(RADIO_CMD, NextPreset(Preset)) /\ Len(RADIO_CMD) < CmdCap
    BY <1>3 DEF Press, SendPreset, CmdFits
  <2> DEFINE p == NextPreset(Preset)
  <2>2. RADIO_CMD' = Append(RADIO_CMD, p) /\ p \in Presets
    BY <1>2, <2>1
  <2> HIDE DEF p
  <2>3. /\ RADIO_CMD' \in Seq(Presets) /\ Len(RADIO_CMD') = Len(RADIO_CMD) + 1
        /\ Len(RADIO_CMD) \in Nat
        /\ \A i \in 1..Len(RADIO_CMD) : RADIO_CMD'[i] = RADIO_CMD[i]
        /\ RADIO_CMD'[Len(RADIO_CMD) + 1] = p
    BY <1>1, <2>2
  <2>4. \A i \in 1..Len(RADIO_CMD') : i \in 1..Len(RADIO_CMD) \/ i = Len(RADIO_CMD) + 1
    BY <2>3
  <2> QED
    BY <1>1, <2>1, <2>3, <2>4 DEF p
<1>4. CASE ~CmdFits
  BY <1>1, <1>4 DEF Press, SendPreset
<1> QED
  BY <1>3, <1>4

LEMMA RadioTypeStep == RadioTypeOK /\ [RadioNext]_radioVars => RadioTypeOK'
<1> SUFFICES ASSUME RadioTypeOK, [RadioNext]_radioVars PROVE RadioTypeOK'
  OBVIOUS
<1>1. /\ Period \in Nat /\ Period > 0
      /\ \A i \in 0..2 : HOP_SEQUENCE[i] \in {1, 6, 11}
  BY RadioAssumption DEF HOP_SEQUENCE
<1>2. CASE UNCHANGED radioVars
  BY <1>2 DEF radioVars, RadioTypeOK
<1>3. CASE Press
  BY <1>3, Pressed DEF Press, RadioTypeOK
<1>4. CASE TakeFixed
  <2>1. TakeCommand /\ Head(RADIO_CMD) \in 1..13 /\ Tune(Head(RADIO_CMD))
        /\ HOP_MODE' = FALSE /\ UNCHANGED <<hop, left, since>>
    BY <1>4 DEF TakeFixed
  <2>2. Head(RADIO_CMD) \in {1, 6, 11}
    BY <2>1, Taken DEF Presets, SetHop
  <2> QED
    BY <2>1, <2>2, Taken, Tuned DEF RadioTypeOK
<1>5. CASE TakeHop
  <2>1. /\ TakeCommand /\ Tune(HOP_SEQUENCE[0]) /\ HOP_MODE' = TRUE /\ hop' = 0
        /\ left' = Period /\ since' = 0
    BY <1>5 DEF TakeHop, ResetTicker
  <2>2. HOP_SEQUENCE[0] \in {1, 6, 11}
    BY <1>1
  <2> QED
    BY <1>1, <2>1, <2>2, Taken, Tuned DEF RadioTypeOK
<1>6. CASE TakeTick
  <2>1. left <= 0 /\ left' = left + Period /\ UNCHANGED <<RADIO_CMD, HOP_MODE, since>>
    BY <1>6 DEF TakeTick, Expired
  <2>2. left' \in Int /\ left' <= Period
    BY <1>1, <2>1 DEF RadioTypeOK
  <2>3. hop' \in 0..2 /\ CURRENT_CHANNEL' \in {1, 6, 11} /\ RADIO_ERRORS' \in Nat
    <3>1. CASE hop' = NextHop(hop) /\ Tune(HOP_SEQUENCE[NextHop(hop)])
      <4>1. NextHop(hop) \in 0..2
        BY DEF NextHop, RadioTypeOK
      <4>2. HOP_SEQUENCE[NextHop(hop)] \in {1, 6, 11}
        BY <1>1, <4>1
      <4> QED
        BY <3>1, <4>1, <4>2, Tuned
    <3>2. CASE UNCHANGED <<hop, CURRENT_CHANNEL, RADIO_ERRORS>>
      BY <3>2 DEF RadioTypeOK
    <3> QED
      BY <1>6, <3>1, <3>2 DEF TakeTick
  <2> QED
    BY <2>1, <2>2, <2>3 DEF RadioTypeOK
<1>7. CASE Pass
  BY <1>1, <1>7 DEF Pass, RadioTypeOK
<1> QED
  BY <1>2, <1>3, <1>4, <1>5, <1>6, <1>7 DEF RadioNext, RadioTask

\* The queue stays within its capacity and holds presets only; the receiver is on
\* a channel of the presets; the ticker is never further away than its period.
THEOREM RadioTyped == RadioSpec => []RadioTypeOK
BY RadioTypeInit, RadioTypeStep, PTL DEF RadioSpec
-----------------------------------------------------------------------------
(* Presses walk the cycle *)

\* As long as set_channel has not failed, what is queued is the preset the tuner is
\* in, queued before it got there, followed by the one that comes next.
Walk ==
    RADIO_ERRORS = 0 =>
        /\ \A i \in 1..Len(RADIO_CMD) : RADIO_CMD[i] \in {Preset, NextPreset(Preset)}
        /\ \A i, j \in 1..Len(RADIO_CMD) :
              i < j /\ RADIO_CMD[i] = NextPreset(Preset) => RADIO_CMD[j] = NextPreset(Preset)

\* What a step does to the preset, if no set_channel has failed after it.
StepsOn ==
    RADIO_ERRORS' = 0 /\ Preset' # Preset => Preset' = NextPreset(Preset)

LEMMA WalkInit == RadioInit => Walk
BY DEF RadioInit, Walk

LEMMA WalkPress == RadioTypeOK /\ Walk /\ Press => Walk' /\ StepsOn
<1> SUFFICES ASSUME RadioTypeOK, Walk, Press, RADIO_ERRORS' = 0
             PROVE  Walk' /\ Preset' = Preset
  BY DEF Walk, StepsOn
<1>1. UNCHANGED <<CURRENT_CHANNEL, HOP_MODE, RADIO_ERRORS>>
  BY DEF Press
<1>2. Preset' = Preset
  BY <1>1 DEF Preset
<1>3. NextPreset(Preset') = NextPreset(Preset)
  BY <1>2
<1>4. \A i \in 1..Len(RADIO_CMD') : RADIO_CMD'[i] \in {Preset, NextPreset(Preset)}
  BY <1>1, Pressed DEF Walk
<1>5. ASSUME NEW i \in 1..Len(RADIO_CMD'), NEW j \in 1..Len(RADIO_CMD'), i < j,
             RADIO_CMD'[i] = NextPreset(Preset)
      PROVE  RADIO_CMD'[j] = NextPreset(Preset)
  <2>1. CASE j = Len(RADIO_CMD) + 1
    BY <2>1, Pressed
  <2>2. CASE j \in 1..Len(RADIO_CMD)
    <3>1. i \in 1..Len(RADIO_CMD) /\ RADIO_CMD'[i] = RADIO_CMD[i] /\ RADIO_CMD'[j] = RADIO_CMD[j]
      BY <1>5, <2>2, Pressed
    <3> QED
      BY <1>1, <1>5, <2>2, <3>1 DEF Walk
  <2> QED
    BY <2>1, <2>2, Pressed
<1> QED
  BY <1>2, <1>3, <1>4, <1>5 DEF Walk

\* A command taken is the present preset or the next; if the next, so are the rest.
LEMMA WalkTake ==
  ASSUME RadioTypeOK, Walk, TakeCommand, Preset' = Head(RADIO_CMD), RADIO_ERRORS = 0
  PROVE  Walk' /\ StepsOn
<1>1. Preset' = RADIO_CMD[1] /\ 1 \in 1..Len(RADIO_CMD)
  BY Taken
<1>2. \A i \in 1..Len(RADIO_CMD') :
         /\ RADIO_CMD'[i] = RADIO_CMD[i + 1]
         /\ i + 1 \in 1..Len(RADIO_CMD) /\ 1 < i + 1
  BY Taken
<1>3. CASE Preset' = Preset
  <2>1. NextPreset(Preset') = NextPreset(Preset)
    BY <1>3
  <2> QED
    BY <1>2, <1>3, <2>1 DEF Walk, StepsOn
<1>4. CASE Preset' = NextPreset(Preset)
  <2>1. \A i \in 1..Len(RADIO_CMD') : RADIO_CMD'[i] = Preset'
    BY <1>1, <1>2, <1>4 DEF Walk
  <2>2. Preset' \in Presets /\ NextPreset(Preset') # Preset'
    BY <1>4, PresetSteps
  <2> QED
    BY <1>4, <2>1, <2>2 DEF Walk, StepsOn
<1> QED
  BY <1>1, <1>3, <1>4 DEF Walk

LEMMA WalkStep ==
  RadioTypeOK /\ RadioTypeOK' /\ Walk /\ [RadioNext]_radioVars => Walk' /\ StepsOn
<1> SUFFICES ASSUME RadioTypeOK, RadioTypeOK', Walk, [RadioNext]_radioVars,
                    RADIO_ERRORS' = 0
             PROVE  Walk' /\ StepsOn
  BY DEF Walk, StepsOn
<1>1. CASE UNCHANGED <<RADIO_CMD, CURRENT_CHANNEL, HOP_MODE, RADIO_ERRORS>>
  BY <1>1 DEF Walk, StepsOn, Preset
<1>2. CASE Press
  BY <1>2, WalkPress
<1>3. CASE TakeFixed
  <2>1. TakeCommand /\ HOP_MODE' = FALSE /\ Tune(Head(RADIO_CMD)) /\ Head(RADIO_CMD) \in 1..13
    BY <1>3 DEF TakeFixed
  <2>2. Head(RADIO_CMD) \in {1, 6, 11}
    BY <2>1, Taken DEF Presets, SetHop
  <2>3. CURRENT_CHANNEL' = Head(RADIO_CMD) /\ RADIO_ERRORS = 0
    BY <2>1, <2>2, Tuned
  <2>4. Preset' = Head(RADIO_CMD)
    BY <2>1, <2>3 DEF Preset
  <2> QED
    BY <2>1, <2>3, <2>4, WalkTake
<1>4. CASE TakeHop
  <2>1. /\ TakeCommand /\ HOP_MODE' = TRUE /\ Head(RADIO_CMD) = SetHop
        /\ Tune(HOP_SEQUENCE[0]) /\ HOP_SEQUENCE[0] \in {1, 6, 11}
    BY <1>4 DEF TakeHop, HOP_SEQUENCE
  <2>2. RADIO_ERRORS = 0
    BY <2>1, Tuned
  <2>3. Preset' = Head(RADIO_CMD)
    BY <2>1 DEF Preset
  <2> QED
    BY <2>1, <2>2, <2>3, WalkTake
<1>5. CASE TakeTick /\ Hopping
  \* The channel changes within hop mode: the preset does not.
  <2>1. UNCHANGED <<RADIO_CMD, HOP_MODE>> /\ HOP_MODE
    BY <1>5 DEF TakeTick, Hopping
  <2>2. Preset' = Preset
    BY <2>1 DEF Preset
  <2>3. RADIO_ERRORS = 0
    BY <1>5 DEF TakeTick, Tune, RadioTypeOK, Hopping
  <2>4. NextPreset(Preset') = NextPreset(Preset)
    BY <2>2
  <2> QED
    BY <2>1, <2>2, <2>3, <2>4 DEF Walk, StepsOn
<1>6. CASE (TakeTick /\ ~Hopping) \/ Pass \/ UNCHANGED radioVars
  <2>1. UNCHANGED <<RADIO_CMD, CURRENT_CHANNEL, HOP_MODE, RADIO_ERRORS>>
    BY <1>6 DEF TakeTick, Pass, radioVars
  <2> QED
    BY <1>1, <2>1
<1> QED
  BY <1>2, <1>3, <1>4, <1>5, <1>6 DEF RadioNext, RadioTask

LEMMA WalkAlways == RadioSpec => []Walk
<1>1. RadioTypeOK /\ RadioTypeOK' /\ Walk /\ [RadioNext]_radioVars => Walk'
  BY WalkStep
<1> QED
  BY <1>1, RadioTyped, WalkInit, PTL DEF RadioSpec

\* However presses, commands and ticks interleave, the presets follow one another
\* in the order of the cycle.
THEOREM RadioCycles == RadioSpec => PresetsCycle
<1>1. RadioTypeOK /\ RadioTypeOK' /\ Walk /\ [RadioNext]_radioVars =>
          [RADIO_ERRORS' = 0 /\ Preset' # Preset => Preset' = NextPreset(Preset)]_radioVars
  BY WalkStep DEF StepsOn
<1> QED
  BY <1>1, RadioTyped, WalkAlways, PTL DEF RadioSpec, PresetsCycle
-----------------------------------------------------------------------------
(* The first dwell *)

\* Until a whole period has passed since SetHop, the sequence is at its start and
\* the ticker, which SetHop has reset, has the rest of the period to go.
Dwell == since < Period => hop = 0 /\ left + since = Period

LEMMA DwellInit == RadioInit => Dwell
BY RadioAssumption DEF RadioInit, Dwell

LEMMA DwellStep ==
  RadioTypeOK /\ Dwell /\ [RadioNext]_radioVars =>
      Dwell' /\ (hop = 0 /\ hop' = 1 => since = Period)
<1> SUFFICES ASSUME RadioTypeOK, Dwell, [RadioNext]_radioVars
             PROVE  Dwell' /\ (hop = 0 /\ hop' = 1 => since = Period)
  OBVIOUS
<1>1. Period \in Nat /\ Period > 0 /\ left \in Int /\ since \in Nat /\ since <= Period
  BY RadioAssumption DEF RadioTypeOK
<1>2. CASE UNCHANGED <<hop, left, since>>
  BY <1>2 DEF Dwell
<1>3. CASE TakeHop
  BY <1>1, <1>3 DEF TakeHop, ResetTicker, Dwell
<1>4. CASE TakeTick
  \* The ticker has expired, so the dwell is over.
  <2>1. left <= 0 /\ since' = since
    BY <1>4 DEF TakeTick, Expired
  <2>2. since = Period
    BY <1>1, <2>1 DEF Dwell
  <2> QED
    BY <1>1, <2>1, <2>2 DEF Dwell
<1>5. CASE Pass
  <2>1. left' = left - 1 /\ since' = (IF since < Period THEN since + 1 ELSE since) /\ hop' = hop
    BY <1>5 DEF Pass
  <2> QED
    BY <1>1, <2>1 DEF Dwell
<1>6. CASE Press \/ TakeFixed \/ UNCHANGED radioVars
  BY <1>2, <1>6 DEF Press, TakeFixed, radioVars
<1> QED
  BY <1>3, <1>4, <1>5, <1>6 DEF RadioNext, RadioTask

LEMMA DwellAlways == RadioSpec => []Dwell
<1>1. RadioTypeOK /\ Dwell /\ [RadioNext]_radioVars => Dwell'
  BY DwellStep
<1> QED
  BY <1>1, RadioTyped, DwellInit, PTL DEF RadioSpec

\* The first channel of a hop sequence is listened on for a whole period, however
\* late the ticker's ticks are taken.
THEOREM RadioDwells == RadioSpec => FirstDwell
<1>1. RadioTypeOK /\ Dwell /\ [RadioNext]_radioVars =>
          [hop = 0 /\ hop' = 1 => since = Period]_radioVars
  BY DwellStep
<1> QED
  BY <1>1, RadioTyped, DwellAlways, PTL DEF RadioSpec, FirstDwell
-----------------------------------------------------------------------------
(* The buttons *)

\* A press that is not yet long is shorter than the long-press time.
ShortOfLong(b) == b.pressed /\ ~b.long_sent => b.held < LongPolls

ButtonsInv == ButtonsTypeOK /\ \A b \in Ids : ShortOfLong(buttons[b])

\* The fields of a debouncer after a sample, after its edge and after the poll.
LEMMA SampledFields ==
  ASSUME NEW b \in Buttons, NEW raw \in BOOLEAN
  PROVE  /\ Sampled(b, raw) \in Buttons
         /\ Sampled(b, raw).candidate = raw
         /\ Sampled(b, raw).pressed = b.pressed
         /\ Sampled(b, raw).held = b.held
         /\ Sampled(b, raw).long_sent = b.long_sent
         /\ raw # b.candidate => Sampled(b, raw).same = 1
         /\ raw = b.candidate /\ b.same < SameMax => Sampled(b, raw).same = b.same + 1
<1>1. SameMax \in Nat /\ SameMax >= 3
  BY DebounceAssumption
<1>2. CASE raw = b.candidate
  BY <1>1, <1>2 DEF Sampled, Buttons
<1>3. CASE raw # b.candidate
  <2>1. Sampled(b, raw) = [b EXCEPT !.candidate = raw, !.same = 1]
    BY <1>3 DEF Sampled
  <2>2. Sampled(b, raw) = [pressed |-> b.pressed, candidate |-> raw, same |-> 1,
                           held |-> b.held, long_sent |-> b.long_sent]
    BY <2>1 DEF Buttons
  <2>3. 1 \in 0..SameMax
    BY <1>1
  <2> QED
    BY <1>3, <2>2, <2>3 DEF Buttons
<1> QED
  BY <1>2, <1>3

LEMMA SettledFields ==
  ASSUME NEW b \in Buttons
  PROVE  /\ Settled(b) \in Buttons
         /\ Settled(b).candidate = b.candidate
         /\ Settled(b).same = b.same
         /\ Settled(b).pressed = (IF Edge(b) THEN b.candidate ELSE b.pressed)
         /\ Edge(b) /\ b.candidate => Settled(b).held = 0 /\ Settled(b).long_sent = FALSE
         /\ ~Edge(b) => Settled(b) = b
         /\ ~b.candidate => Settled(b).held = b.held /\ Settled(b).long_sent = b.long_sent
<1>1. LongPolls \in Nat
  BY DebounceAssumption
<1>2. CASE ~Edge(b)
  BY <1>2 DEF Settled
<1>3. CASE Edge(b) /\ b.candidate
  <2>1. Settled(b) = [b EXCEPT !.pressed = TRUE, !.held = 0, !.long_sent = FALSE]
    BY <1>3 DEF Settled
  <2>2. Settled(b) = [pressed |-> TRUE, candidate |-> b.candidate, same |-> b.same,
                      held |-> 0, long_sent |-> FALSE]
    BY <2>1 DEF Buttons
  <2>3. 0 \in 0..LongPolls
    BY <1>1
  <2> QED
    BY <1>3, <2>2, <2>3 DEF Buttons
<1>4. CASE Edge(b) /\ ~b.candidate
  BY <1>1, <1>4 DEF Settled, Buttons
<1> QED
  BY <1>2, <1>3, <1>4

LEMMA HeldFields ==
  ASSUME NEW b \in Buttons, ShortOfLong(b)
  PROVE  /\ Held(b) \in Buttons /\ ShortOfLong(Held(b))
         /\ Held(b).candidate = b.candidate
         /\ Held(b).same = b.same
         /\ Held(b).pressed = b.pressed
         /\ CountsHold(b) => /\ Held(b).held = b.held + 1
                             /\ Held(b).long_sent = (b.held + 1 >= LongPolls)
         /\ ~CountsHold(b) => Held(b) = b
<1>1. LongPolls \in Nat /\ LongPolls > 0
  BY DebounceAssumption
<1>2. CASE ~CountsHold(b)
  BY <1>2 DEF Held
<1>3. CASE CountsHold(b)
  <2>1. b.held \in Nat /\ b.held < LongPolls
    BY <1>1, <1>3 DEF CountsHold, ShortOfLong, Buttons
  <2>2. Held(b) = [b EXCEPT !.held = @ + 1, !.long_sent = b.held + 1 >= LongPolls]
    BY <1>3 DEF Held
  <2>3. Held(b) = [pressed |-> b.pressed, candidate |-> b.candidate, same |-> b.same,
                   held |-> b.held + 1, long_sent |-> b.held + 1 >= LongPolls]
    BY <2>2 DEF Buttons
  <2>4. b.held + 1 \in 0..LongPolls /\ (b.held + 1 >= LongPolls) \in BOOLEAN
    BY <1>1, <2>1
  <2>5. Held(b) \in Buttons
    BY <2>3, <2>4 DEF Buttons
  <2>6. ShortOfLong(Held(b))
    <3>1. Held(b).held = b.held + 1 /\ Held(b).long_sent = (b.held + 1 >= LongPolls)
      BY <2>3
    <3>2. ~Held(b).long_sent => ~(b.held + 1 >= LongPolls)
      BY <3>1, Zenon
    <3>3. ~(b.held + 1 >= LongPolls) => b.held + 1 < LongPolls
      BY <1>1, <2>1
    <3> QED
      BY <3>1, <3>2, <3>3, Zenon DEF ShortOfLong
  <2> QED
    BY <1>3, <2>3, <2>5, <2>6
<1> QED
  BY <1>2, <1>3

\* A poll keeps a debouncer in type and short of a second long answer.
LEMMA PolledTyped ==
  ASSUME NEW b \in Buttons, ShortOfLong(b), NEW raw \in BOOLEAN
  PROVE  /\ Settled(Sampled(b, raw)) \in Buttons /\ ShortOfLong(Settled(Sampled(b, raw)))
         /\ Polled(b, raw) \in Buttons /\ ShortOfLong(Polled(b, raw))
         /\ Answer(b, raw) \in Presses
<1> DEFINE t == Sampled(b, raw)
           s == Settled(t)
<1>1. t \in Buttons /\ ShortOfLong(t)
  BY SampledFields DEF ShortOfLong
<1>2. LongPolls > 0 /\ LongPolls \in Nat
  BY DebounceAssumption
<1>3. s \in Buttons
  BY <1>1, SettledFields
<1>4. ShortOfLong(s)
  <2> HIDE DEF t
  <2>1. CASE ~Edge(t)
    BY <1>1, <2>1, SettledFields
  <2>2. CASE Edge(t) /\ t.candidate
    BY <1>1, <1>2, <2>2, SettledFields DEF ShortOfLong
  <2>3. CASE Edge(t) /\ ~t.candidate
    BY <1>1, <2>3, SettledFields DEF ShortOfLong
  <2> QED
    BY <2>1, <2>2, <2>3
<1>5. Polled(b, raw) \in Buttons /\ ShortOfLong(Polled(b, raw))
  BY <1>3, <1>4, HeldFields DEF Polled
<1>6. Answer(b, raw) \in Presses
  BY Zenon DEF Answer, Presses
<1> QED
  BY <1>3, <1>4, <1>5, <1>6

LEMMA ButtonsInvInit == ButtonsInit => ButtonsInv
<1> SUFFICES ASSUME ButtonsInit PROVE ButtonsInv
  OBVIOUS
<1>1. LongPolls \in Nat /\ LongPolls > 0 /\ SameMax \in Nat /\ MaxBehind \in Nat
  BY DebounceAssumption, ButtonsAssumption
<1>2. Released \in Buttons /\ ShortOfLong(Released)
  BY <1>1 DEF Released, Buttons, ShortOfLong
<1>3. buttons \in [Ids -> Buttons] /\ \A b \in Ids : ShortOfLong(buttons[b])
  BY <1>2 DEF ButtonsInit
<1>4. behind \in 0..MaxBehind /\ answers \in [Ids -> Presses] /\ event \in UiEvts \cup {"none"}
  BY <1>1 DEF ButtonsInit, Presses
<1>5. preset \in BOOLEAN
  BY Zenon DEF ButtonsInit
<1> QED
  BY <1>3, <1>4, <1>5 DEF ButtonsInv, ButtonsTypeOK

LEMMA PollTyped ==
  ASSUME ButtonsInv, NEW raw \in [Ids -> BOOLEAN], Poll(raw)
  PROVE  ButtonsInv'
<1>1. /\ buttons \in [Ids -> Buttons] /\ behind \in 0..MaxBehind /\ behind > 0
      /\ MaxBehind \in Nat
  BY ButtonsAssumption DEF ButtonsInv, ButtonsTypeOK, Poll
<1>2. \A b \in Ids : /\ Polled(buttons[b], raw[b]) \in Buttons
                     /\ ShortOfLong(Polled(buttons[b], raw[b]))
                     /\ Answer(buttons[b], raw[b]) \in Presses
  <2> TAKE b \in Ids
  <2>1. buttons[b] \in Buttons /\ ShortOfLong(buttons[b]) /\ raw[b] \in BOOLEAN
    BY <1>1 DEF ButtonsInv
  <2> QED
    BY <2>1, PolledTyped
<1>3. buttons' \in [Ids -> Buttons] /\ \A b \in Ids : ShortOfLong(buttons'[b])
  BY <1>2 DEF Poll, AllPolled
<1>4. answers' \in [Ids -> Presses]
  BY <1>2 DEF Poll
<1>5. event' \in UiEvts \cup {"none"}
  <2>1. \A b \in Ids, p \in Presses : EventOf(b, p) \in UiEvts \cup {"none"}
    BY DEF Ids, Presses, EventOf, UiEvts
  <2>2. event' = Merged(answers')
    BY DEF Poll
  <2> QED
    BY <1>4, <2>1, <2>2 DEF Merged, Ids
<1>6. behind' \in 0..MaxBehind
  BY <1>1 DEF Poll
<1>7. preset' \in BOOLEAN
  BY Zenon DEF Poll
<1> QED
  BY <1>3, <1>4, <1>5, <1>6, <1>7 DEF ButtonsInv, ButtonsTypeOK

LEMMA ButtonsInvStep == ButtonsInv /\ [Next]_<<buttonVars, histVars>> => ButtonsInv'
<1> SUFFICES ASSUME ButtonsInv, [Next]_<<buttonVars, histVars>> PROVE ButtonsInv'
  OBVIOUS
<1>1. ASSUME Expire PROVE ButtonsInv'
  <2>1. behind' \in 0..MaxBehind
    BY <1>1, ButtonsAssumption DEF ButtonsInv, ButtonsTypeOK, Expire
  <2> QED
    BY <1>1, <2>1 DEF ButtonsInv, ButtonsTypeOK, Expire
<1>2. ASSUME UNCHANGED buttonVars PROVE ButtonsInv'
  BY <1>2 DEF buttonVars, ButtonsInv, ButtonsTypeOK
<1> QED
  BY <1>1, <1>2, PollTyped DEF Next, PeriodEnds, PollBoth, Done

\* The debouncers, the events and the periods keep their types, and held its bound.
THEOREM ButtonsTyped == Spec => []ButtonsTypeOK
<1>1. Init => ButtonsInv
  BY ButtonsInvInit DEF Init
<1>2. ButtonsInv => ButtonsTypeOK
  BY DEF ButtonsInv
<1> QED
  BY <1>1, <1>2, ButtonsInvStep, PTL DEF Spec

\* What is known of the watched contact: its debouncer stands where three equal samples
\* in a row would have left it, and while it is closed held counts the polls since it
\* closed, until the long answer.
HistoryTyped ==
    /\ watched \in Ids
    /\ recent \in BOOLEAN \X BOOLEAN
    /\ contact \in Seq(BOOLEAN) /\ Len(contact) > 0 /\ contact[1] = FALSE
    /\ lowFor \in 0..LongTime

FollowsContact(b) ==
    /\ b.pressed <=> IsClosed
    /\ b.candidate <=> recent[2]
    /\ ~(b.candidate <=> b.pressed) =>
          b.same \in {1, 2} /\ (b.same = 2 <=> (recent[1] <=> recent[2]))

HeldFrom(b, r) ==
    LET polls == Len(contact) - r + 1
    IN  IF b.long_sent THEN polls >= LongPolls ELSE b.held = polls /\ polls < LongPolls

HeldSince(b) ==
    b.pressed => \E r \in 2..Len(contact) : ClosedSince(r, Len(contact)) /\ HeldFrom(b, r)


\* The edge is the change of the contact, and the hold starts from it.
LEMMA EdgeIsChange ==
  ASSUME HistoryTyped, NEW b \in Buttons, FollowsContact(b), NEW raw \in BOOLEAN,
         recent' = <<recent[2], raw>>,
         NEW s, s = Settled(Sampled(b, raw))
  PROVE  /\ s \in Buttons
         /\ (s.candidate <=> raw)
         /\ (s.pressed <=> NowClosed(raw))
         /\ ~(raw <=> s.pressed) => s.same \in {1, 2} /\ (s.same = 2 <=> (recent'[1] <=> recent'[2]))
         /\ (s.pressed <=> b.pressed) => s.held = b.held /\ (s.long_sent <=> b.long_sent)
         /\ ~(s.pressed <=> b.pressed) => (b.candidate <=> raw) /\ b.same = 2 /\ (s.pressed <=> raw)
         /\ ~(raw <=> b.candidate) => s.same = 1
         /\ (raw <=> b.candidate) /\ ~(raw <=> b.pressed) => s.same = b.same + 1
         /\ s.pressed /\ ~b.pressed => s.held = 0 /\ ~s.long_sent
         /\ ~s.pressed => (s.long_sent <=> b.long_sent)
<1> DEFINE t == Sampled(b, raw)
<1>1. /\ t \in Buttons /\ t.candidate = raw /\ t.pressed = b.pressed
      /\ t.held = b.held /\ t.long_sent = b.long_sent
  BY SampledFields
<1>2. /\ s \in Buttons /\ s.candidate = t.candidate /\ s.same = t.same
      /\ ~Edge(t) => s = t
      /\ Edge(t) => s.pressed = t.candidate
      /\ Edge(t) /\ t.candidate => s.held = 0 /\ s.long_sent = FALSE
      /\ ~t.candidate => s.held = t.held /\ s.long_sent = t.long_sent
  BY <1>1, SettledFields
<1>3. recent'[1] = recent[2] /\ recent'[2] = raw
  OBVIOUS
<1>4. /\ b.pressed \in BOOLEAN /\ b.candidate \in BOOLEAN /\ (IsClosed <=> b.pressed)
      /\ recent[1] \in BOOLEAN /\ recent[2] \in BOOLEAN /\ (recent[2] <=> b.candidate)
  BY DEF Buttons, HistoryTyped, FollowsContact
<1>5. NowClosed(raw)
      <=> IF (recent[1] <=> raw) /\ (b.candidate <=> raw) THEN raw ELSE b.pressed
  <2>1. recent = <<raw, raw>> <=> recent[1] = raw /\ recent[2] = raw
    BY DEF HistoryTyped
  <2> QED
    BY <1>4, <2>1 DEF NowClosed
<1> HIDE DEF t
<1>6. CASE raw # b.candidate
  <2>1. t.same = 1
    BY <1>6, SampledFields DEF t
  <2>2. ~Edge(t)
    BY <2>1 DEF Edge
  <2> QED
    BY <1>1, <1>2, <1>3, <1>4, <1>5, <1>6, <2>1, <2>2 DEF t
<1>7. CASE raw = b.candidate /\ raw = b.pressed
  <2>1. ~Edge(t)
    BY <1>1, <1>7 DEF Edge
  <2> QED
    BY <1>1, <1>2, <1>3, <1>4, <1>5, <1>7, <2>1 DEF t
<1>8. CASE raw = b.candidate /\ raw # b.pressed
  <2>1. b.same \in {1, 2} /\ (b.same = 2 <=> (recent[1] <=> recent[2])) /\ b.same < SameMax
    <3>1. ~(b.candidate <=> b.pressed)
      BY <1>4, <1>8
    <3> QED
      BY <3>1, DebounceAssumption DEF FollowsContact
  <2>2. t.same = b.same + 1
    BY <1>8, <2>1, SampledFields DEF t
  <2>3. CASE b.same = 1
    <3>1. ~Edge(t) /\ t.same = 2
      BY <2>2, <2>3 DEF Edge
    <3> QED
      BY <1>1, <1>2, <1>3, <1>4, <1>5, <1>8, <2>1, <2>3, <3>1 DEF t
  <2>4. CASE b.same = 2
    <3>1. Edge(t)
      BY <1>1, <1>8, <2>2, <2>4 DEF Edge
    <3>2. /\ (s.candidate <=> raw) /\ (s.pressed <=> raw) /\ ~(s.pressed <=> b.pressed)
          /\ (b.candidate <=> raw) /\ (NowClosed(raw) <=> raw) /\ s.same = b.same + 1
      BY <1>1, <1>2, <1>4, <1>5, <1>8, <2>1, <2>2, <2>4, <3>1
    <3>3. /\ raw => s.held = 0 /\ ~s.long_sent
          /\ ~raw => (s.long_sent <=> b.long_sent)
      BY <1>1, <1>2, <3>1
    <3> QED
      BY <1>2, <2>4, <3>2, <3>3, Zenon
  <2> QED
    BY <2>1, <2>3, <2>4
<1> QED
  BY <1>4, <1>6, <1>7, <1>8

\* A contact closed at one poll only.
LEMMA ClosedOnce ==
  ASSUME HistoryTyped, NEW i \in Nat, NEW r \in 2..i, NEW q \in 2..i,
         ClosedSince(r, i), ClosedSince(q, i)
  PROVE  r = q
<1>1. r < q => q - 1 \in r..i
  OBVIOUS
<1>2. q < r => r - 1 \in q..i
  OBVIOUS
<1>3. ~(r < q) /\ ~(q < r)
  BY <1>1, <1>2, Zenon DEF ClosedSince
<1> QED
  BY <1>3

\* The history after one more poll.
LEMMA Longer ==
  ASSUME HistoryTyped, NEW c \in BOOLEAN, contact' = Append(contact, c)
  PROVE  /\ contact' \in Seq(BOOLEAN)
         /\ Len(contact) \in Nat /\ Len(contact) > 0 /\ Len(contact') = Len(contact) + 1
         /\ contact'[1] = FALSE
         /\ contact'[Len(contact) + 1] = c
         /\ \A j \in 1..Len(contact) : contact'[j] = contact[j]
         /\ \A r \in 2..Len(contact) :
               ClosedSince(r, Len(contact))
               <=> ~contact'[r - 1] /\ \A j \in r..Len(contact) : contact'[j]
         /\ \A r \in 2..Len(contact) :
               (~contact'[r - 1] /\ \A j \in r..(Len(contact) + 1) : contact'[j])
               <=> ClosedSince(r, Len(contact)) /\ c
<1>1. /\ contact \in Seq(BOOLEAN) /\ Len(contact) > 0 /\ Len(contact) \in Nat
      /\ contact[1] = FALSE
  BY DEF HistoryTyped
<1>2. /\ contact' \in Seq(BOOLEAN) /\ Len(contact') = Len(contact) + 1
      /\ contact'[Len(contact) + 1] = c
      /\ \A j \in 1..Len(contact) : contact'[j] = contact[j]
  BY <1>1
<1>3. contact'[1] = FALSE
  BY <1>1, <1>2
<1>4. ASSUME NEW r \in 2..Len(contact)
      PROVE  /\ contact'[r - 1] = contact[r - 1]
             /\ \A j \in r..Len(contact) : contact'[j] = contact[j]
             /\ \A j \in r..(Len(contact) + 1) : j \in r..Len(contact) \/ j = Len(contact) + 1
             /\ \A j \in r..Len(contact) : j \in r..(Len(contact) + 1)
             /\ Len(contact) + 1 \in r..(Len(contact) + 1)
  BY <1>1, <1>2
<1>5. ASSUME NEW r \in 2..Len(contact)
      PROVE  ClosedSince(r, Len(contact))
             <=> ~contact'[r - 1] /\ \A j \in r..Len(contact) : contact'[j]
  BY <1>4, Zenon DEF ClosedSince
<1>6. ASSUME NEW r \in 2..Len(contact)
      PROVE  (~contact'[r - 1] /\ \A j \in r..(Len(contact) + 1) : contact'[j])
             <=> ClosedSince(r, Len(contact)) /\ c
  BY <1>2, <1>4, <1>5, Zenon
<1> QED
  BY <1>1, <1>2, <1>3, <1>5, <1>6

\* One poll of the watched button: what it answers is what its contact's history says,
\* and held keeps counting from the poll at which the contact closed.
LEMMA PollFollows ==
  ASSUME HistoryTyped, NEW b \in Buttons, ShortOfLong(b), FollowsContact(b), HeldSince(b),
         NEW raw \in BOOLEAN,
         recent' = <<recent[2], raw>>, contact' = Append(contact, NowClosed(raw))
  PROVE  /\ FollowsContact(Polled(b, raw))'
         /\ HeldSince(Polled(b, raw))'
         /\ Answer(b, raw) = PromisedAnswer(Len(contact))'
<1>a. PICK s : s = Settled(Sampled(b, raw))
  OBVIOUS
<1>b. PICK p : p = Polled(b, raw)
  OBVIOUS
<1>c. PICK c : c = NowClosed(raw)
  OBVIOUS
<1> DEFINE L == Len(contact)
           Closed(r, i) == ~contact'[r - 1] /\ \A j \in r..i : contact'[j]
<1>1. /\ s \in Buttons /\ (s.candidate <=> raw) /\ (s.pressed <=> c)
      /\ ~(raw <=> s.pressed) => s.same \in {1, 2} /\ (s.same = 2 <=> (recent'[1] <=> recent'[2]))
      /\ (s.pressed <=> b.pressed) => s.held = b.held /\ (s.long_sent <=> b.long_sent)
      /\ s.pressed /\ ~b.pressed => s.held = 0 /\ ~s.long_sent
      /\ ~s.pressed => (s.long_sent <=> b.long_sent)
  <2>1. /\ s \in Buttons
        /\ (s.candidate <=> raw)
        /\ (s.pressed <=> NowClosed(raw))
        /\ ~(raw <=> s.pressed) => s.same \in {1, 2} /\ (s.same = 2 <=> (recent'[1] <=> recent'[2]))
        /\ (s.pressed <=> b.pressed) => s.held = b.held /\ (s.long_sent <=> b.long_sent)
        /\ ~(s.pressed <=> b.pressed) => (b.candidate <=> raw) /\ b.same = 2
        /\ s.pressed /\ ~b.pressed => s.held = 0 /\ ~s.long_sent
        /\ ~s.pressed => (s.long_sent <=> b.long_sent)
    BY <1>a, EdgeIsChange DEF FollowsContact
  <2> QED
    BY <1>c, <2>1, Zenon
<1>2. /\ p \in Buttons /\ p.candidate = s.candidate /\ p.same = s.same
      /\ p.pressed = s.pressed
      /\ CountsHold(s) => p.held = s.held + 1 /\ p.long_sent = (s.held + 1 >= LongPolls)
      /\ ~CountsHold(s) => p = s
  BY <1>a, <1>b, PolledTyped, HeldFields DEF Polled
<1>3. c \in BOOLEAN
  <2>1. contact \in Seq(BOOLEAN) /\ Len(contact) \in 1..Len(contact)
    BY DEF HistoryTyped
  <2>2. contact[Len(contact)] \in BOOLEAN
    BY <2>1
  <2> QED
    BY <1>c, <2>2, Zenon DEF NowClosed, IsClosed
<1>4. /\ contact' \in Seq(BOOLEAN)
      /\ L \in Nat /\ L > 0 /\ Len(contact') = L + 1
      /\ contact'[1] = FALSE /\ contact'[L + 1] = c
      /\ \A j \in 1..L : contact'[j] = contact[j]
      /\ \A r \in 2..L : ClosedSince(r, L) <=> Closed(r, L)
      /\ \A r \in 2..L : Closed(r, L + 1) <=> ClosedSince(r, L) /\ c
  BY <1>3, <1>c, Longer
<1>5. IsClosed = b.pressed /\ contact[L] = b.pressed /\ contact'[L] = b.pressed
      /\ b.pressed \in BOOLEAN
  BY <1>4 DEF FollowsContact, IsClosed, Buttons
<1>6. LongPolls \in Nat /\ LongPolls > 0
  BY DebounceAssumption
<1>7. recent' = <<recent[2], raw>> /\ recent'[2] = raw
  OBVIOUS
<1>8. FollowsContact(p)'
  <2>1. IsClosed' = c
    BY <1>4 DEF IsClosed
  <2> QED
    BY <1>1, <1>2, <1>7, <2>1, Zenon DEF FollowsContact
<1> DEFINE From(q, r) ==
      IF q.long_sent THEN L + 1 - r + 1 >= LongPolls
      ELSE q.held = L + 1 - r + 1 /\ L + 1 - r + 1 < LongPolls
<1>9. ASSUME p.pressed => \E r \in 2..(L + 1) : Closed(r, L + 1) /\ From(p, r)
      PROVE  HeldSince(p)'
  <2>1. (\E r \in 2..(L + 1) : Closed(r, L + 1) /\ From(p, r))
        => (\E r \in 2..Len(contact) : ClosedSince(r, Len(contact)) /\ HeldFrom(p, r))'
    BY <1>4 DEF HeldFrom, ClosedSince
  <2> QED
    BY <1>9, <2>1, Zenon DEF HeldSince
<1> DEFINE Promise(a) ==
      /\ a = "long" <=> \E r \in 2..(L + 1) : Closed(r, L + 1) /\ L + 1 = r + LongPolls - 1
      /\ a = "short" <=> ~c /\ \E r \in 2..L : Closed(r, L) /\ L + 1 - r < LongPolls
      /\ a \in Presses
<1>10. ASSUME NEW a, Promise(a) PROVE a = PromisedAnswer(Len(contact))'
  <2>2. PromisedAnswer(Len(contact))' =
          CASE \E r \in 2..(L + 1) : Closed(r, L + 1) /\ L + 1 = r + LongPolls - 1 -> "long"
            [] ~c /\ \E r \in 2..L : Closed(r, L) /\ L + 1 - r < LongPolls -> "short"
            [] OTHER -> "none"
    BY <1>4 DEF PromisedAnswer, ClosedSince
  <2>3. "long" # "short" /\ "long" # "none" /\ "short" # "none"
    OBVIOUS
  <2>4. (\E r \in 2..(L + 1) : Closed(r, L + 1) /\ L + 1 = r + LongPolls - 1) => c
    BY <1>4
  <2> QED
    BY <1>10, <2>2, <2>3, <2>4, Zenon DEF Presses
<1>11. /\ \A q \in 2..(L + 1) : Closed(q, L + 1) => c
       /\ \A q \in 2..L : Closed(q, L) => b.pressed
  <2>1. L + 1 \in 2..(L + 1) /\ \A q \in 2..(L + 1) : L + 1 \in q..(L + 1)
    BY <1>4
  <2>2. \A q \in 2..L : L \in q..L
    BY <1>4
  <2> QED
    BY <1>4, <1>5, <2>1, <2>2, Zenon
<1>l. L \in Nat /\ L > 0
  BY <1>4
<1>12. /\ b.pressed /\ ~c /\ ~s.long_sent => Answer(b, raw) = "short"
       /\ ~(b.pressed /\ ~c /\ ~s.long_sent) /\ CountsHold(s) /\ s.held + 1 >= LongPolls
          => Answer(b, raw) = "long"
       /\ ~(b.pressed /\ ~c /\ ~s.long_sent) /\ ~(CountsHold(s) /\ s.held + 1 >= LongPolls)
          => Answer(b, raw) = "none"
  <2>1. Answer(b, raw) =
          CASE (b.pressed /\ ~s.pressed) /\ ~s.long_sent     -> "short"
            [] CountsHold(s) /\ s.held + 1 >= LongPolls      -> "long"
            [] OTHER                                         -> "none"
    BY <1>a DEF Answer
  <2>2. CountsHold(s) => s.pressed
    BY DEF CountsHold
  <2> QED
    BY <1>1, <2>1, <2>2, Zenon
<1> DEFINE Goal == /\ p.pressed => \E r \in 2..(L + 1) : Closed(r, L + 1) /\ From(p, r)
                   /\ Promise(Answer(b, raw))
<1>13. ASSUME ~b.pressed, ~c PROVE Goal
  <2>1. Answer(b, raw) = "none" /\ ~p.pressed
    BY <1>1, <1>2, <1>12, <1>13 DEF CountsHold
  <2>2. Promise("none")
    BY <1>11, <1>13, Zenon DEF Presses
  <2> QED
    BY <2>1, <2>2
<1>14. ASSUME ~b.pressed, c PROVE Goal
  <2>1. CountsHold(s) /\ s.held = 0
    BY <1>1, <1>14 DEF CountsHold
  <2>2. p.held = 1 /\ (p.long_sent <=> 1 >= LongPolls)
    <3>1. s.held + 1 = 1
      BY <2>1
    <3> QED
      BY <1>2, <2>1, <3>1, Zenon
  <2>3. L + 1 \in 2..(L + 1) /\ Closed(L + 1, L + 1)
    <3>1. /\ L + 1 \in 2..(L + 1) /\ (L + 1) - 1 = L
          /\ \A j \in (L + 1)..(L + 1) : j = L + 1
      BY <1>l
    <3>2. contact'[L + 1] /\ ~contact'[L]
      BY <1>4, <1>5, <1>14, Zenon
    <3> QED
      BY <3>1, <3>2, Zenon
  <2>4. From(p, L + 1)
    BY <1>4, <1>6, <2>2
  <2>5. ASSUME NEW q \in 2..(L + 1), Closed(q, L + 1) PROVE q = L + 1
    <3>1. q \in 2..L => Closed(q, L)
      BY <1>4, <2>5
    <3>2. q \in 2..L \/ q = L + 1
      BY <1>4
    <3> QED
      BY <1>11, <1>14, <3>1, <3>2, Zenon
  <2>6. CASE LongPolls = 1
    <3>1. Answer(b, raw) = "long"
      BY <1>12, <1>14, <2>1, <2>6
    <3>2. L + 1 = (L + 1) + LongPolls - 1
      BY <1>4, <2>6
    <3>3. Promise("long")
      BY <1>14, <2>3, <3>2, Zenon DEF Presses
    <3> QED
      BY <2>3, <2>4, <3>1, <3>3
  <2>7. CASE LongPolls # 1
    <3>1. Answer(b, raw) = "none"
      BY <1>6, <1>12, <1>14, <2>1, <2>7
    <3>2. L + 1 # (L + 1) + LongPolls - 1
      BY <1>4, <1>6, <2>7
    <3>3. Promise("none")
      BY <1>14, <2>5, <3>2, Zenon DEF Presses
    <3> QED
      BY <2>3, <2>4, <3>1, <3>3
  <2> QED
    BY <2>6, <2>7
<1>15. ASSUME b.pressed PROVE \E r \in 2..L : ClosedSince(r, L) /\ HeldFrom(b, r)
  BY <1>15, Zenon DEF HeldSince
<1>16. ASSUME b.pressed, c PROVE Goal
  <2>1. PICK r \in 2..L : ClosedSince(r, L) /\ HeldFrom(b, r)
    BY <1>15, <1>16
  <2>2. r \in 2..(L + 1) /\ Closed(r, L + 1)
    <3>1. r \in 2..(L + 1)
      BY <1>l
    <3> QED
      BY <1>4, <1>16, <2>1, <3>1, Zenon
  <2>3. ASSUME NEW q \in 2..(L + 1), Closed(q, L + 1) PROVE q = r
    <3>1. q # L + 1
      <4>1. ~contact'[q - 1]
        BY <2>3
      <4>2. (L + 1) - 1 = L
        BY <1>4
      <4> QED
        BY <1>5, <1>16, <4>1, <4>2, Zenon
    <3>2. q \in 2..L
      BY <1>l, <3>1
    <3>3. ClosedSince(q, L)
      BY <1>4, <2>3, <3>2
    <3> QED
      BY <1>4, <2>1, <3>2, <3>3, ClosedOnce
  <2>4. s.pressed /\ s.held = b.held /\ (s.long_sent <=> b.long_sent)
    BY <1>1, <1>16
  <2>5. CASE b.long_sent
    <3>1. ~CountsHold(s)
      BY <2>4, <2>5 DEF CountsHold
    <3>2. p = s /\ Answer(b, raw) = "none"
      BY <1>2, <1>12, <1>16, <3>1
    <3>3. L - r + 1 >= LongPolls
      BY <2>1, <2>5 DEF HeldFrom
    <3>4. L + 1 # r + LongPolls - 1 /\ L + 1 - r + 1 >= LongPolls
      BY <1>4, <1>6, <3>3
    <3>5. From(p, r)
      BY <2>4, <2>5, <3>2, <3>4
    <3>6. Promise("none")
      BY <1>16, <2>3, <3>4, Zenon DEF Presses
    <3> QED
      BY <2>2, <3>2, <3>5, <3>6
  <2>6. CASE ~b.long_sent
    <3>1. CountsHold(s)
      BY <2>4, <2>6 DEF CountsHold
    <3>2. b.held = L - r + 1 /\ L - r + 1 < LongPolls
      BY <2>1, <2>6 DEF HeldFrom
    <3>3. s.held + 1 = L + 1 - r + 1
      BY <1>4, <2>4, <3>2
    <3>4. p.held = L + 1 - r + 1 /\ (p.long_sent <=> L + 1 - r + 1 >= LongPolls)
      BY <1>2, <3>1, <3>3
    <3>5. From(p, r)
      BY <1>4, <1>6, <3>2, <3>4
    <3>6. CASE L + 1 - r + 1 >= LongPolls
      <4>1. Answer(b, raw) = "long"
        BY <1>12, <1>16, <3>1, <3>3, <3>6
      <4>2. L + 1 = r + LongPolls - 1
        <5>1. L - r + 1 < LongPolls
          BY <3>2
        <5>2. L \in Int /\ r \in Int /\ LongPolls \in Int
          BY <1>l, <1>6
        <5> HIDE DEF L
        <5> QED
          BY <5>1, <5>2, <3>6
      <4>3. Promise("long")
        BY <1>16, <2>2, <4>2, Zenon DEF Presses
      <4> QED
        BY <2>2, <3>5, <4>1, <4>3
    <3>7. CASE ~(L + 1 - r + 1 >= LongPolls)
      <4>1. Answer(b, raw) = "none"
        BY <1>12, <1>16, <3>3, <3>7
      <4>2. L + 1 # r + LongPolls - 1
        BY <1>4, <1>6, <3>7
      <4>3. Promise("none")
        BY <1>16, <2>3, <4>2, Zenon DEF Presses
      <4> QED
        BY <2>2, <3>5, <4>1, <4>3
    <3> QED
      BY <3>6, <3>7
  <2> QED
    BY <2>5, <2>6
<1>17. ASSUME b.pressed, ~c PROVE Goal
  <2>1. PICK r \in 2..L : ClosedSince(r, L) /\ HeldFrom(b, r)
    BY <1>15, <1>17
  <2>2. Closed(r, L)
    BY <1>4, <2>1
  <2>3. ASSUME NEW q \in 2..L, Closed(q, L) PROVE q = r
    BY <1>4, <2>1, <2>3, ClosedOnce
  <2>4. ~s.pressed /\ ~p.pressed /\ (s.long_sent <=> b.long_sent) /\ ~CountsHold(s)
    BY <1>1, <1>2, <1>17 DEF CountsHold
  <2>5. CASE b.long_sent
    <3>1. Answer(b, raw) = "none"
      BY <1>12, <2>4, <2>5
    <3>2. ~(L + 1 - r < LongPolls)
      BY <1>4, <1>6, <2>1, <2>5 DEF HeldFrom
    <3>3. Promise("none")
      BY <1>11, <1>17, <2>3, <3>2, Zenon DEF Presses
    <3> QED
      BY <2>4, <3>1, <3>3
  <2>6. CASE ~b.long_sent
    <3>1. Answer(b, raw) = "short"
      BY <1>12, <1>17, <2>4, <2>6
    <3>2. L + 1 - r < LongPolls
      BY <1>4, <1>6, <2>1, <2>6 DEF HeldFrom
    <3>3. Promise("short")
      BY <1>11, <1>17, <2>2, <3>2, Zenon DEF Presses
    <3> QED
      BY <2>4, <3>1, <3>3
  <2> QED
    BY <2>5, <2>6
<1>18. Goal
  BY <1>13, <1>14, <1>16, <1>17
<1>19. HeldSince(p)'
  BY <1>9, <1>18
<1>20. Answer(b, raw) = PromisedAnswer(Len(contact))'
  BY <1>10, <1>18
<1> QED
  BY <1>b, <1>8, <1>19, <1>20

\* The time a press has lasted against its polls: each poll made up one of the periods
\* that expired, so the time is behind the polls by what was left over when it began.
Enough(polls) == lowFor = LongTime \/ lowFor + (MaxBehind - 1) >= polls + behind

Timed(b) ==
    /\ b.candidate /\ ~b.pressed => Enough(b.same - 1)
    /\ b.pressed /\ ~b.long_sent => Enough(b.held + 1)

LEMMA PollTimed ==
  ASSUME HistoryTyped, NEW b \in Buttons, ShortOfLong(b), FollowsContact(b), Timed(b),
         NEW raw \in BOOLEAN, recent' = <<recent[2], raw>>,
         behind \in 1..MaxBehind, behind' = behind - 1,
         lowFor' = IF PressBegins(raw) THEN 0 ELSE lowFor
  PROVE  /\ Timed(Polled(b, raw))'
         /\ Answer(b, raw) = "long" => lowFor' + (MaxBehind - 1) >= LongTime
<1>a. PICK s : s = Settled(Sampled(b, raw))
  OBVIOUS
<1>b. PICK p : p = Polled(b, raw)
  OBVIOUS
<1>1. /\ s \in Buttons /\ (s.candidate <=> raw)
      /\ (s.pressed <=> b.pressed) => s.held = b.held /\ (s.long_sent <=> b.long_sent)
      /\ ~(s.pressed <=> b.pressed) => (b.candidate <=> raw) /\ b.same = 2 /\ (s.pressed <=> raw)
      /\ ~(raw <=> b.candidate) => s.same = 1
      /\ (raw <=> b.candidate) /\ ~(raw <=> b.pressed) => s.same = b.same + 1
      /\ s.pressed /\ ~b.pressed => s.held = 0 /\ ~s.long_sent
  BY <1>a, EdgeIsChange
<1>2. /\ p \in Buttons /\ p.candidate = s.candidate /\ p.same = s.same
      /\ p.pressed = s.pressed
      /\ CountsHold(s) => p.held = s.held + 1
      /\ ~CountsHold(s) => p = s
  BY <1>a, <1>b, PolledTyped, HeldFields DEF Polled
<1>3. /\ LongPolls \in Nat /\ LongPolls > 0 /\ MaxBehind \in Nat /\ behind \in Nat
      /\ behind' = behind - 1 /\ behind' \in Nat /\ behind' <= MaxBehind - 1
      /\ lowFor \in Nat /\ LongTime = LongPolls + 1
  BY DebounceAssumption, ButtonsAssumption DEF HistoryTyped, LongTime
<1>4. b.same \in Nat /\ b.held \in Nat /\ s.held \in Nat /\ s.same \in Nat
  BY <1>1, <1>3, DebounceAssumption DEF Buttons
<1>5. PressBegins(raw) <=> raw /\ ~b.candidate /\ ~b.pressed
  BY DEF PressBegins, FollowsContact
<1>6. ASSUME NEW k \in Int, Enough(k), lowFor' = lowFor PROVE Enough(k + 1)'
  BY <1>3, <1>6 DEF Enough
<1>7. ASSUME raw, ~s.pressed PROVE Enough(s.same - 1)'
  <2>1. ~b.pressed
    BY <1>1, <1>7
  <2>2. CASE b.candidate
    <3>1. Enough(b.same - 1) /\ lowFor' = lowFor
      BY <1>5, <2>1, <2>2 DEF Timed
    <3>2. Enough((b.same - 1) + 1)'
      BY <1>4, <1>6, <3>1
    <3>3. (b.same - 1) + 1 = s.same - 1
      BY <1>1, <1>4, <1>7, <2>1, <2>2
    <3> QED
      BY <3>2, <3>3, Zenon
  <2>3. CASE ~b.candidate
    <3>1. lowFor' = 0 /\ s.same = 1
      BY <1>1, <1>5, <1>7, <2>1, <2>3
    <3> QED
      BY <1>3, <3>1 DEF Enough
  <2> QED
    BY <2>2, <2>3
<1>8. ASSUME s.pressed, ~s.long_sent PROVE Enough(s.held + 2)'
  <2>1. CASE b.pressed
    <3>1. Enough(b.held + 1) /\ lowFor' = lowFor /\ s.held = b.held
      BY <1>1, <1>5, <1>8, <2>1 DEF Timed
    <3>2. Enough((b.held + 1) + 1)'
      BY <1>4, <1>6, <3>1
    <3>3. (b.held + 1) + 1 = s.held + 2
      BY <1>4, <3>1
    <3> QED
      BY <3>2, <3>3, Zenon
  <2>2. CASE ~b.pressed
    <3>1. b.candidate /\ b.same = 2 /\ s.held = 0
      BY <1>1, <1>8, <2>2
    <3>2. Enough(b.same - 1) /\ lowFor' = lowFor
      BY <1>5, <2>2, <3>1 DEF Timed
    <3>3. Enough((b.same - 1) + 1)'
      BY <1>4, <1>6, <3>2
    <3>4. (b.same - 1) + 1 = s.held + 2
      BY <3>1
    <3> QED
      BY <3>3, <3>4, Zenon
  <2> QED
    BY <2>1, <2>2
<1>9. Timed(p)'
  <2>1. (s.held + 1) + 1 = s.held + 2
    BY <1>4
  <2>2. p.pressed /\ ~p.long_sent => s.pressed /\ ~s.long_sent /\ p.held = s.held + 1
    BY <1>2, Zenon DEF CountsHold
  <2>3. p.pressed /\ ~p.long_sent => Enough(p.held + 1)'
    BY <1>8, <2>1, <2>2, Zenon
  <2>4. p.candidate /\ ~p.pressed => Enough(p.same - 1)'
    BY <1>1, <1>2, <1>7, Zenon
  <2> QED
    BY <2>3, <2>4 DEF Timed
<1>10. ASSUME Answer(b, raw) = "long" PROVE lowFor' + (MaxBehind - 1) >= LongTime
  <2>1. CountsHold(s) /\ s.held + 1 >= LongPolls
    BY <1>a, <1>10 DEF Answer
  <2>2. s.pressed /\ ~s.long_sent
    BY <2>1 DEF CountsHold
  <2>3. Enough(s.held + 2)'
    BY <1>8, <2>2
  <2>4. s.held + 2 >= LongTime
    BY <1>3, <1>4, <2>1
  <2>5. lowFor' \in Nat
    BY <1>3
  <2>6. lowFor' = LongTime \/ lowFor' + (MaxBehind - 1) >= (s.held + 2) + behind'
    BY <2>3 DEF Enough, LongTime
  <2> QED
    BY <1>3, <1>4, <2>4, <2>5, <2>6
<1> QED
  BY <1>b, <1>9, <1>10

PressInv ==
    /\ ButtonsInv /\ HistoryTyped
    /\ FollowsContact(buttons[watched]) /\ HeldSince(buttons[watched])
    /\ Timed(buttons[watched])
    /\ AnswersAsPromised

LEMMA PressInit == Init => PressInv
<1> SUFFICES ASSUME Init PROVE PressInv
  OBVIOUS
<1> DEFINE b == buttons[watched]
<1>1. ButtonsInv
  BY ButtonsInvInit DEF Init
<1>2. /\ LongPolls \in Nat /\ LongPolls > 0
  BY DebounceAssumption
<1>3. b = Released /\ answers[watched] = "none" /\ watched \in Ids
  BY DEF Init, ButtonsInit
<1>4. recent = <<FALSE, FALSE>> /\ contact = <<FALSE>> /\ lowFor = 0
  BY DEF Init
<1>5. Len(contact) = 1 /\ contact[1] = FALSE /\ contact \in Seq(BOOLEAN)
  BY <1>4
<1>6. HistoryTyped
  <2>1. lowFor \in 0..LongTime
    BY <1>2, <1>4 DEF LongTime
  <2>2. recent \in BOOLEAN \X BOOLEAN
    BY <1>4
  <2> QED
    BY <1>3, <1>5, <2>1, <2>2 DEF HistoryTyped
<1>7. ~b.pressed /\ ~b.candidate
  BY <1>3 DEF Released
<1>8. FollowsContact(b)
  BY <1>4, <1>5, <1>7 DEF FollowsContact, IsClosed
<1>9. HeldSince(b) /\ Timed(b)
  BY <1>7 DEF HeldSince, Timed
<1>10. PromisedAnswer(1) = "none"
  <2>1. ~(\E r \in 2..1 : TRUE) /\ ~(\E r \in 2..(1 - 1) : TRUE)
    OBVIOUS
  <2> QED
    BY <2>1 DEF PromisedAnswer
<1> QED
  BY <1>1, <1>3, <1>5, <1>6, <1>8, <1>9, <1>10 DEF PressInv, AnswersAsPromised

\* A poll, for the watched button.
LEMMA PollKeeps ==
  ASSUME PressInv, NEW raw \in [Ids -> BOOLEAN], PollBoth(raw)
  PROVE  /\ PressInv'
         /\ answers'[watched] = "long" => lowFor' + (MaxBehind - 1) >= LongTime
<1>a. PICK b : b = buttons[watched]
  OBVIOUS
<1>b. PICK w : w = raw[watched]
  OBVIOUS
<1>1. /\ HistoryTyped /\ b \in Buttons /\ ShortOfLong(b) /\ FollowsContact(b) /\ HeldSince(b)
      /\ Timed(b) /\ w \in BOOLEAN /\ watched \in Ids
  BY <1>a, <1>b DEF PressInv, ButtonsInv, ButtonsTypeOK, HistoryTyped
<1>2. /\ Poll(raw) /\ watched' = watched
      /\ recent' = <<recent[2], w>> /\ contact' = Append(contact, NowClosed(w))
      /\ lowFor' = IF PressBegins(w) THEN 0 ELSE lowFor
  BY <1>b DEF PollBoth
<1>3. /\ behind \in 1..MaxBehind /\ behind' = behind - 1
      /\ buttons'[watched'] = Polled(b, w) /\ answers'[watched'] = Answer(b, w)
  BY <1>a, <1>b, <1>1, <1>2, ButtonsAssumption DEF PressInv, ButtonsInv, ButtonsTypeOK, Poll, AllPolled
<1>4. ButtonsInv'
  BY <1>2, PollTyped DEF PressInv
<1>5. NowClosed(w) \in BOOLEAN
  <2>1. contact \in Seq(BOOLEAN) /\ Len(contact) \in 1..Len(contact)
    BY <1>1 DEF HistoryTyped
  <2>2. contact[Len(contact)] \in BOOLEAN
    BY <2>1
  <2> QED
    BY <1>1, <2>2, Zenon DEF NowClosed, IsClosed
<1>6. HistoryTyped'
  <2>1. contact' \in Seq(BOOLEAN) /\ Len(contact') > 0 /\ contact'[1] = FALSE
    <3>1. PICK c : c = NowClosed(w)
      OBVIOUS
    <3>2. c \in BOOLEAN /\ contact' = Append(contact, c)
      BY <1>2, <1>5, <3>1
    <3> QED
      BY <1>1, <3>2 DEF HistoryTyped
  <2>2. lowFor' \in 0..LongTime
    BY <1>1, <1>2, DebounceAssumption DEF HistoryTyped, LongTime
  <2>3. recent' \in BOOLEAN \X BOOLEAN
    BY <1>1, <1>2 DEF HistoryTyped
  <2> QED
    BY <1>1, <1>2, <2>1, <2>2, <2>3 DEF HistoryTyped, LongTime
<1>7. /\ FollowsContact(Polled(b, w))' /\ HeldSince(Polled(b, w))'
      /\ Answer(b, w) = PromisedAnswer(Len(contact))'
  BY <1>1, <1>2, PollFollows
<1>8. /\ Timed(Polled(b, w))'
      /\ Answer(b, w) = "long" => lowFor' + (MaxBehind - 1) >= LongTime
  BY <1>1, <1>2, <1>3, PollTimed
<1>9. /\ FollowsContact(buttons[watched])' /\ HeldSince(buttons[watched])'
      /\ Timed(buttons[watched])'
  BY <1>3, <1>7, <1>8
<1>10. AnswersAsPromised'
  BY <1>3, <1>7 DEF AnswersAsPromised
<1> QED
  BY <1>2, <1>3, <1>4, <1>6, <1>8, <1>9, <1>10 DEF PressInv

\* A period that expires gives the press time, and the task a poll to make up.
LEMMA ExpireKeeps ==
  ASSUME PressInv, PeriodEnds
  PROVE  PressInv'
<1>1. /\ HistoryTyped /\ buttons[watched] \in Buttons
  BY DEF PressInv, ButtonsInv, ButtonsTypeOK, HistoryTyped
<1>2. /\ behind' = behind + 1 /\ behind \in Nat
      /\ lowFor' = (IF lowFor < LongTime THEN lowFor + 1 ELSE lowFor)
      /\ lowFor \in 0..LongTime /\ LongTime \in Nat /\ MaxBehind \in Nat
      /\ UNCHANGED <<buttons, answers, event, preset, watched, recent, contact>>
  BY <1>1, DebounceAssumption, ButtonsAssumption
  DEF PressInv, ButtonsInv, ButtonsTypeOK, HistoryTyped, LongTime, PeriodEnds, Expire
<1>3. ButtonsInv'
  BY ButtonsInvStep DEF PressInv, Next
<1>4. HistoryTyped'
  <2>1. lowFor' \in 0..LongTime
    BY <1>2
  <2> QED
    BY <1>1, <1>2, <2>1 DEF HistoryTyped, LongTime
<1>5. ASSUME NEW k \in Int, Enough(k) PROVE Enough(k)'
  <2>1. lowFor = LongTime => lowFor' = LongTime
    BY <1>2
  <2>2. lowFor # LongTime => lowFor' = lowFor + 1
    BY <1>2
  <2> QED
    BY <1>2, <1>5, <2>1, <2>2 DEF Enough, LongTime
<1>6. Timed(buttons[watched])'
  <2>1. buttons[watched].same - 1 \in Int /\ buttons[watched].held + 1 \in Int
    BY <1>1, DebounceAssumption DEF Buttons
  <2> QED
    BY <1>2, <1>5, <2>1, Zenon DEF PressInv, Timed
<1>7. /\ FollowsContact(buttons[watched])' /\ HeldSince(buttons[watched])'
      /\ AnswersAsPromised'
  BY <1>2 DEF PressInv, FollowsContact, HeldSince, AnswersAsPromised, IsClosed, HeldFrom,
              ClosedSince, PromisedAnswer
<1> QED
  BY <1>3, <1>4, <1>6, <1>7 DEF PressInv

LEMMA PressStep == PressInv /\ [Next]_<<buttonVars, histVars>> => PressInv'
<1> SUFFICES ASSUME PressInv, [Next]_<<buttonVars, histVars>> PROVE PressInv'
  OBVIOUS
<1>1. ASSUME UNCHANGED <<buttonVars, histVars>> PROVE PressInv'
  <2>1. ButtonsInv'
    BY <1>1, ButtonsInvStep DEF PressInv
  <2>2. UNCHANGED <<buttons, answers, behind, watched, recent, contact, lowFor>>
    BY <1>1 DEF buttonVars, histVars
  <2>3. HistoryTyped' /\ FollowsContact(buttons[watched])' /\ HeldSince(buttons[watched])'
    BY <2>2 DEF PressInv, HistoryTyped, FollowsContact, HeldSince, IsClosed, HeldFrom,
                ClosedSince, LongTime
  <2>4. Timed(buttons[watched])' /\ AnswersAsPromised'
    BY <2>2 DEF PressInv, Timed, Enough, LongTime, AnswersAsPromised, ClosedSince, PromisedAnswer
  <2> QED
    BY <2>1, <2>3, <2>4 DEF PressInv
<1> QED
  BY <1>1, PollKeeps, ExpireKeeps DEF Next, Done

\* For any number of polls, any stall of the ticker and any bounces of the contact, a
\* button answers what DESIGN.md 8.7 promises of its contact's history.
THEOREM ButtonsAnswer == Spec => []AnswersAsPromised
<1>1. PressInv => AnswersAsPromised
  BY DEF PressInv
<1> QED
  BY <1>1, PressInit, PressStep, PTL DEF Spec

\* A press counts as long only after the long-press time, less the stall.
THEOREM ButtonsLong == Spec => LongTakesTime
<1> DEFINE Late == answers'[watched] = "long" /\ contact' # contact
                     => lowFor' + (MaxBehind - 1) >= LongTime
<1>1. PressInv /\ [Next]_<<buttonVars, histVars>> => [Late]_<<buttonVars, histVars>>
  BY PollKeeps DEF Next, PeriodEnds, Done, histVars
<1> QED
  BY <1>1, PressInit, PressStep, PTL DEF Spec, LongTakesTime
-----------------------------------------------------------------------------
(* The display *)

LEMMA SnapshotRowsTyped ==
  ASSUME NEW s \in Snapshots
  PROVE  /\ s \in Seq(Macs) /\ Len(s) \in Nat
         /\ \A i \in 1..Len(s) : s[i] \in Macs
         /\ \A m : m \in ToSet(s) <=> \E i \in 1..Len(s) : s[i] = m
         /\ s # <<>> => Len(s) > 0 /\ s[1] \in ToSet(s)
<1>1. PICK m \in 0..SnapshotRows : s \in [1..m -> Macs]
  BY DEF Snapshots, BoundedSeq, SeqOf
<1>2. s \in Seq(Macs) /\ Len(s) = m /\ DOMAIN s = 1..m
  BY <1>1, UiAssumption
<1> QED
  BY <1>1, <1>2 DEF ToSet

LEMMA ReselectedShown ==
  ASSUME NEW s \in Snapshots, NEW sel \in Macs \cup {NoMac}
  PROVE  /\ Reselected(s, sel) \in Macs \cup {NoMac}
         /\ s # <<>> => Reselected(s, sel) \in ToSet(s)
         /\ s = <<>> => ToSet(s) = {}
BY SnapshotRowsTyped DEF Reselected, First, ToSet

LEMMA AfterTyped ==
  ASSUME NEW s \in Snapshots, NEW sel \in Macs \cup {NoMac}
  PROVE  After(s, sel) \in Macs \cup {NoMac}
<1>1. /\ Len(s) \in Nat
      /\ \A i \in 1..Len(s) : s[i] \in Macs
      /\ \A m : m \in ToSet(s) <=> \E i \in 1..Len(s) : s[i] = m
      /\ s # <<>> => Len(s) > 0
  BY SnapshotRowsTyped
<1>2. First(s) \in Macs \cup {NoMac}
  BY <1>1 DEF First
<1>3. CASE sel \in ToSet(s) /\ Position(s, sel) < Len(s)
  <2>1. \E i \in 1..Len(s) : s[i] = sel
    BY <1>1, <1>3
  <2>2. Position(s, sel) \in 1..Len(s)
    BY <2>1, Zenon DEF Position
  <2>3. Position(s, sel) + 1 \in 1..Len(s)
    BY <1>1, <1>3, <2>2
  <2> QED
    BY <1>1, <1>3, <2>3 DEF After
<1>4. CASE ~(sel \in ToSet(s) /\ Position(s, sel) < Len(s))
  BY <1>2, <1>4 DEF After
<1> QED
  BY <1>3, <1>4

LEMMA UiTypeInit == UiInit => UiTypeOK
<1> SUFFICES ASSUME UiInit PROVE UiTypeOK
  OBVIOUS
<1>1. <<>> \in Snapshots
  <2>1. <<>> \in [1..0 -> Macs] /\ 0 \in 0..SnapshotRows
    BY UiAssumption
  <2> QED
    BY <2>1 DEF Snapshots, BoundedSeq, SeqOf, IsInjective
<1>2. UI_EVT \in Seq(UiEvts) /\ Len(UI_EVT) <= EvtCap
  BY UiAssumption DEF UiInit
<1>3. detail \in BOOLEAN /\ was_empty \in BOOLEAN /\ dirty \in BOOLEAN
  BY Zenon DEF UiInit
<1>4. DOMAIN cache = 0..(LINES - 1) /\ DOMAIN screen = Bands
  BY DEF UiInit
<1> QED
  BY <1>1, <1>2, <1>3, <1>4 DEF UiInit, UiTypeOK

LEMMA TakeTyped ==
  ASSUME UiTypeOK, UI_EVT # <<>>, UI_EVT' = Tail(UI_EVT)
  PROVE  UI_EVT' \in Seq(UiEvts) /\ Len(UI_EVT') <= EvtCap
<1>1. UI_EVT \in Seq(UiEvts) /\ Len(UI_EVT) <= EvtCap /\ EvtCap \in Nat
  BY UiAssumption DEF UiTypeOK
<1>2. Tail(UI_EVT) \in Seq(UiEvts) /\ Len(Tail(UI_EVT)) = Len(UI_EVT) - 1
      /\ Len(UI_EVT) \in Nat
  BY <1>1
<1> QED
  BY <1>1, <1>2

LEMMA UiTypeStep == UiTypeOK /\ [UiNext]_uiVars => UiTypeOK'
<1> SUFFICES ASSUME UiTypeOK, [UiNext]_uiVars PROVE UiTypeOK'
  OBVIOUS
<1>1. ASSUME RenderPass PROVE UiTypeOK'
  <2>1. PICK s \in Snapshots, h \in Headers :
           /\ rows' = s /\ header' = h
           /\ selected' = Reselected(s, selected)
           /\ was_empty' = (s = <<>>)
           /\ DOMAIN cache' = 0..(LINES - 1)
           /\ DOMAIN screen' = Bands
    BY <1>1 DEF RenderPass, CacheAfter, ScreenAfter
  <2>2. selected' \in Macs \cup {NoMac}
    BY <2>1, ReselectedShown DEF UiTypeOK
  <2>3. was_empty' \in BOOLEAN /\ dirty' \in BOOLEAN
    BY <1>1, <2>1, Zenon DEF RenderPass
  <2> QED
    BY <1>1, <2>1, <2>2, <2>3 DEF UiTypeOK, RenderPass
<1>2. ASSUME NEW e, TakeEvent(e)
      PROVE  /\ UI_EVT' \in Seq(UiEvts) /\ Len(UI_EVT') <= EvtCap
             /\ at' \in {"pass", "wait"}
             /\ rows' \in Snapshots /\ was_empty' \in BOOLEAN
             /\ DOMAIN cache' = 0..(LINES - 1) /\ DOMAIN screen' = Bands /\ header' \in Headers
  BY <1>2, TakeTyped DEF TakeEvent, UiTypeOK
<1>3. ASSUME NextTrack PROVE UiTypeOK'
  BY <1>2, <1>3, AfterTyped DEF NextTrack, UiTypeOK
<1>4. ASSUME ToggleView PROVE UiTypeOK'
  <2>1. detail' \in BOOLEAN /\ dirty' \in BOOLEAN
    BY <1>4, Zenon DEF ToggleView
  <2> QED
    BY <1>2, <1>4, <2>1 DEF ToggleView, UiTypeOK
<1>5. ASSUME ClearTracks PROVE UiTypeOK'
  <2>1. dirty' \in BOOLEAN
    BY <1>5, Zenon DEF ClearTracks
  <2> QED
    BY <1>2, <1>5, <2>1 DEF ClearTracks, UiTypeOK
<1>6. ASSUME Redraw PROVE UiTypeOK'
  BY <1>2, <1>6 DEF Redraw, UiTypeOK
<1>7. ASSUME Timeout PROVE UiTypeOK'
  BY <1>7 DEF Timeout, UiTypeOK
<1>8. ASSUME NEW e \in UiEvts, QueueEvent(e) PROVE UiTypeOK'
  <2>1. UI_EVT' \in Seq(UiEvts) /\ Len(UI_EVT') <= EvtCap
    <3>1. UI_EVT \in Seq(UiEvts) /\ Len(UI_EVT) <= EvtCap /\ EvtCap \in Nat
      BY UiAssumption DEF UiTypeOK
    <3>2. CASE EvtFits
      <4>1. UI_EVT' = Append(UI_EVT, e)
        BY <1>8, <3>2 DEF QueueEvent
      <4>2. Append(UI_EVT, e) \in Seq(UiEvts) /\ Len(Append(UI_EVT, e)) = Len(UI_EVT) + 1
        BY <3>1
      <4> QED
        BY <3>1, <3>2, <4>1, <4>2 DEF EvtFits
    <3>3. CASE ~EvtFits
      BY <1>8, <3>1, <3>3 DEF QueueEvent
    <3> QED
      BY <3>2, <3>3
  <2> QED
    BY <1>8, <2>1 DEF QueueEvent, UiTypeOK
<1>9. ASSUME UNCHANGED uiVars PROVE UiTypeOK'
  BY <1>9 DEF uiVars, UiTypeOK
<1> QED
  BY <1>1, <1>3, <1>4, <1>5, <1>6, <1>7, <1>8, <1>9 DEF UiNext, UiTask

\* The display keeps its types and the bound of UI_EVT.
THEOREM UiTyped == UiSpec => []UiTypeOK
BY UiTypeInit, UiTypeStep, PTL DEF UiSpec

-----------------------------------------------------------------------------
(* The panel and the line cache *)

\* The cache indices and the bands a pass may draw, by what it shows.
ListPlaces == {<<1 + 2 * i, List1(i)>> : i \in 0..(ListRows - 1)}
              \cup {<<2 + 2 * i, List2(i)>> : i \in 0..(ListRows - 1)}
DetailPlaces == {<<n, DetailBand(n - 1)>> : n \in 1..15}
HeaderPlace == <<0, HeaderBand>>
EmptyPlace == <<LINES - 1, EmptyBand>>
Places(empty, det) ==
    {HeaderPlace} \cup (IF empty THEN {EmptyPlace} ELSE IF det THEN DetailPlaces ELSE ListPlaces)

Overlap(a, b) == a.y < b.y + b.h /\ b.y < a.y + a.h

LEMMA OverlapMeans ==
  ASSUME NEW a \in Bands, NEW b \in Bands
  PROVE  <<a, b>> \in Overlapping <=> Overlap(a, b)
BY DEF Overlapping, Overlap

\* Two places of one pass share neither their index nor a line of pixels.
LEMMA PlacesApart ==
  ASSUME NEW empty \in BOOLEAN, NEW det \in BOOLEAN,
         NEW p \in Places(empty, det), NEW q \in Places(empty, det)
  PROVE  /\ p[1] \in 0..(LINES - 1) /\ p[2] \in Bands
         /\ <<p[2], p[2]>> \in Overlapping
         /\ p # q => p[1] # q[1] /\ <<p[2], q[2]>> \notin Overlapping
<1> DEFINE Rows == 0..(ListRows - 1)
<1>1. ListRows \in 1..6
  BY UiAssumption
<1>2. \A r \in Places(empty, det) :
          /\ r[1] \in 0..(LINES - 1) /\ r[2] \in Bands /\ r = <<r[1], r[2]>>
          /\ Overlap(r[2], r[2])
  <2>1. HeaderBand \in Bands /\ EmptyBand \in Bands
    BY DEF Bands
  <2>2. \A i \in Rows : List1(i) \in Bands /\ List2(i) \in Bands
    BY DEF Bands
  <2>3. \A n \in 1..15 : DetailBand(n - 1) \in Bands
    BY DEF Bands
  <2>4. \A i \in Rows : 1 + 2 * i \in 0..(LINES - 1) /\ 2 + 2 * i \in 0..(LINES - 1)
    BY <1>1 DEF LINES
  <2>5. Overlap(HeaderBand, HeaderBand) /\ Overlap(EmptyBand, EmptyBand)
    BY DEF Overlap, HeaderBand, EmptyBand, Band
  <2>6. \A i \in Rows : Overlap(List1(i), List1(i)) /\ Overlap(List2(i), List2(i))
    BY <1>1 DEF Overlap, List1, List2, Band
  <2>7. \A n \in 1..15 : Overlap(DetailBand(n - 1), DetailBand(n - 1))
    BY DEF Overlap, DetailBand, Band
  <2> QED
    BY <2>1, <2>2, <2>3, <2>4, <2>5, <2>6, <2>7
    DEF Places, HeaderPlace, EmptyPlace, ListPlaces, DetailPlaces, LINES
<1>3. p # q => p[1] # q[1] /\ ~Overlap(p[2], q[2])
  <2>1. \A r \in DetailPlaces \cup ListPlaces \cup {EmptyPlace} :
            /\ r[1] # 0 /\ ~Overlap(HeaderBand, r[2]) /\ ~Overlap(r[2], HeaderBand)
    <3>1. ASSUME NEW r \in DetailPlaces
          PROVE  r[1] # 0 /\ ~Overlap(HeaderBand, r[2]) /\ ~Overlap(r[2], HeaderBand)
      BY DEF DetailPlaces, DetailBand, HeaderBand, Band, Overlap
    <3>2. ASSUME NEW i \in Rows
          PROVE  /\ 1 + 2 * i # 0 /\ 2 + 2 * i # 0
                 /\ ~Overlap(HeaderBand, List1(i)) /\ ~Overlap(List1(i), HeaderBand)
                 /\ ~Overlap(HeaderBand, List2(i)) /\ ~Overlap(List2(i), HeaderBand)
      BY <1>1 DEF List1, List2, HeaderBand, Band, Overlap
    <3>3. /\ EmptyPlace[1] # 0
          /\ ~Overlap(HeaderBand, EmptyPlace[2]) /\ ~Overlap(EmptyPlace[2], HeaderBand)
      BY DEF EmptyPlace, EmptyBand, HeaderBand, Band, Overlap, LINES
    <3> QED
      BY <3>1, <3>2, <3>3 DEF ListPlaces
  <2>2. \A a, b \in DetailPlaces : a # b => a[1] # b[1] /\ ~Overlap(a[2], b[2])
    BY DEF DetailPlaces, DetailBand, Band, Overlap
  <2>3. \A a, b \in ListPlaces : a # b => a[1] # b[1] /\ ~Overlap(a[2], b[2])
    <3>1. ASSUME NEW i \in Rows, NEW j \in Rows
          PROVE  /\ i # j => /\ 1 + 2 * i # 1 + 2 * j /\ ~Overlap(List1(i), List1(j))
                             /\ 2 + 2 * i # 2 + 2 * j /\ ~Overlap(List2(i), List2(j))
                 /\ 1 + 2 * i # 2 + 2 * j
                 /\ ~Overlap(List1(i), List2(j)) /\ ~Overlap(List2(i), List1(j))
      <4>1. i \in Int /\ j \in Int
        BY <1>1
      <4> QED
        BY <4>1 DEF List1, List2, Band, Overlap
    <3> QED
      BY <3>1 DEF ListPlaces
  <2> QED
    BY <2>1, <2>2, <2>3 DEF Places, HeaderPlace
<1> QED
  BY <1>2, <1>3, OverlapMeans

LEMMA LineFields == \A i, b, t : Line(i, b, t).index = i /\ Line(i, b, t).band = b
BY DEF Line

\* Lines drawn at places, one line each.
PlacedAt(lines, places) ==
    /\ Len(lines) \in Nat
    /\ \A n \in 1..Len(lines) : <<lines[n].index, lines[n].band>> \in places
    /\ \A p \in places : \E n \in 1..Len(lines) : p = <<lines[n].index, lines[n].band>>
    /\ \A m, n \in 1..Len(lines) : m # n => lines[m].index # lines[n].index

\* So are the lines of a pass.
LEMMA LinesPlaced ==
  ASSUME NEW h, NEW s \in Snapshots, NEW sel, s # <<>> => sel \in ToSet(s),
         NEW det \in BOOLEAN, NEW empty \in BOOLEAN, empty <=> s = <<>>,
         NEW lines, lines = Lines(h, s, sel, det)
  PROVE  PlacedAt(lines, Places(empty, det))
<1> DEFINE Body == IF s = <<>> THEN <<EmptyLine>>
                   ELSE IF det THEN DetailLines(sel) ELSE ListLines(s, sel)
           Rest == Places(empty, det) \ {HeaderPlace}
<1>1. lines = <<HeaderLine(h)>> \o Body
  <2>1. s = <<>> => sel \notin ToSet(s)
    BY DEF ToSet
  <2> QED
    BY <2>1 DEF Lines
<1>2. ListRows \in 1..6
  BY UiAssumption
<1>3. \E k \in Nat :
        /\ Body = [n \in 1..k |-> Body[n]]
        /\ \A n \in 1..k : <<Body[n].index, Body[n].band>> \in Rest /\ Body[n].index # 0
        /\ \A p \in Rest : \E n \in 1..k : p = <<Body[n].index, Body[n].band>>
        /\ \A m, n \in 1..k : m # n => Body[m].index # Body[n].index
  <2>1. CASE s = <<>>
    <3>1. Body = [n \in 1..1 |-> EmptyLine]
      BY <2>1
    <3>2. <<EmptyLine.index, EmptyLine.band>> = EmptyPlace /\ EmptyLine.index # 0
      BY LineFields DEF EmptyLine, EmptyPlace, LINES
    <3>3. Rest = {EmptyPlace}
      BY <2>1 DEF Places, EmptyPlace, HeaderPlace, LINES
    <3> HIDE DEF Body, Rest
    <3>4. Body = [n \in 1..1 |-> Body[n]] /\ \A n \in 1..1 : Body[n] = EmptyLine
      BY <3>1
    <3>5. 1 \in 1..1 /\ 1 \in Nat /\ \A m, n \in 1..1 : m = n
      OBVIOUS
    <3>6. \A n \in 1..1 : <<Body[n].index, Body[n].band>> \in Rest /\ Body[n].index # 0
      BY <3>2, <3>3, <3>4, Zenon
    <3>7. \A p \in Rest : \E n \in 1..1 : p = <<Body[n].index, Body[n].band>>
      BY <3>2, <3>3, <3>4, <3>5, Zenon
    <3> QED
      BY <3>4, <3>5, <3>6, <3>7, Zenon
  <2>2. CASE s # <<>> /\ det
    <3>1. Body = [n \in 1..15 |-> Line(n, DetailBand(n - 1), <<"detail", n, sel>>)]
      BY <2>2 DEF DetailLines
    <3>2. Rest = DetailPlaces
      BY <2>2 DEF Places, HeaderPlace, DetailPlaces
    <3> HIDE DEF Body, Rest
    <3>3. \A n \in 1..15 : Body[n] = Line(n, DetailBand(n - 1), <<"detail", n, sel>>)
      BY <3>1, Zenon
    <3>4. \A n \in 1..15 : Body[n].index = n /\ Body[n].band = DetailBand(n - 1)
      <4> TAKE n \in 1..15
      <4>1. PICK t : t = <<"detail", n, sel>>
        OBVIOUS
      <4>2. Body[n] = Line(n, DetailBand(n - 1), t)
        BY <3>3, <4>1, Zenon
      <4> QED
        BY <4>2, LineFields
    <3>5. Body = [n \in 1..15 |-> Body[n]]
      BY <3>1
    <3>6. 15 \in Nat /\ \A n \in 1..15 : n # 0
      OBVIOUS
    <3>7. \A n \in 1..15 : <<Body[n].index, Body[n].band>> \in Rest
      BY <3>2, <3>4, Zenon DEF DetailPlaces
    <3>8. \A p \in Rest : \E n \in 1..15 : p = <<Body[n].index, Body[n].band>>
      BY <3>2, <3>4, Zenon DEF DetailPlaces
    <3>9. \A n \in 1..15 : <<Body[n].index, Body[n].band>> \in Rest /\ Body[n].index # 0
      BY <3>4, <3>6, <3>7, Zenon
    <3>10. \A m, n \in 1..15 : m # n => Body[m].index # Body[n].index
      BY <3>4, Zenon
    <3> QED
      BY <3>5, <3>6, <3>8, <3>9, <3>10, Zenon
  <2>3. CASE s # <<>> /\ ~det
    <3>1. Body = ListLines(s, sel)
      BY <2>3
    <3>2. \A n \in 1..(2 * ListRows) :
             LET i == (n - 1) \div 2
             IN  /\ i \in 0..(ListRows - 1)
                 /\ n % 2 = 1 => n = 1 + 2 * i
                 /\ n % 2 # 1 => n = 2 + 2 * i
      BY <1>2
    <3>3. \A i \in 0..(ListRows - 1) :
             /\ 1 + 2 * i \in 1..(2 * ListRows) /\ (1 + 2 * i) % 2 = 1
             /\ ((1 + 2 * i) - 1) \div 2 = i
             /\ 2 + 2 * i \in 1..(2 * ListRows) /\ (2 + 2 * i) % 2 # 1
             /\ ((2 + 2 * i) - 1) \div 2 = i
      BY <1>2
    <3>4. \A n \in 1..(2 * ListRows) :
             LET i == (n - 1) \div 2
             IN  /\ n % 2 = 1 => Body[n].index = 1 + 2 * i /\ Body[n].band = List1(i)
                 /\ n % 2 # 1 => Body[n].index = 2 + 2 * i /\ Body[n].band = List2(i)
      <4> TAKE n \in 1..(2 * ListRows)
      <4> DEFINE i == (n - 1) \div 2
      <4>1. /\ n % 2 = 1 => \E t : Body[n] = Line(1 + 2 * i, List1(i), t)
            /\ n % 2 # 1 => \E t : Body[n] = Line(2 + 2 * i, List2(i), t)
        <5>1. PICK t, u : Body[n] = IF n % 2 = 1 THEN Line(1 + 2 * i, List1(i), t)
                                    ELSE Line(2 + 2 * i, List2(i), u)
          BY <3>1, Zenon DEF ListLines
        <5> QED
          BY <5>1, Zenon
      <4> HIDE DEF Body, i
      <4>2. /\ n % 2 = 1 => Body[n].index = 1 + 2 * i /\ Body[n].band = List1(i)
            /\ n % 2 # 1 => Body[n].index = 2 + 2 * i /\ Body[n].band = List2(i)
        BY <4>1, LineFields
      <4> QED
        BY <4>2 DEF i
    <3>5. Rest = ListPlaces
      <4>1. \A p \in ListPlaces : p[1] # 0
        BY <1>2 DEF ListPlaces
      <4>2. HeaderPlace \notin ListPlaces
        BY <4>1 DEF HeaderPlace
      <4> QED
        BY <2>3, <4>2 DEF Places
    <3>6. Body = [n \in 1..(2 * ListRows) |-> Body[n]]
      BY <3>1 DEF ListLines
    <3> HIDE DEF Body, Rest
    <3>7. \A n \in 1..(2 * ListRows) :
             <<Body[n].index, Body[n].band>> \in ListPlaces /\ Body[n].index = n
      BY <3>2, <3>4 DEF ListPlaces
    <3>8. \A p \in ListPlaces : \E n \in 1..(2 * ListRows) : p = <<Body[n].index, Body[n].band>>
      <4>1. ASSUME NEW i \in 0..(ListRows - 1)
            PROVE  /\ <<1 + 2 * i, List1(i)>> = <<Body[1 + 2 * i].index, Body[1 + 2 * i].band>>
                   /\ <<2 + 2 * i, List2(i)>> = <<Body[2 + 2 * i].index, Body[2 + 2 * i].band>>
        BY <3>3, <3>4, Zenon
      <4> QED
        BY <3>3, <4>1, Zenon DEF ListPlaces
    <3>9. 2 * ListRows \in Nat /\ \A n \in 1..(2 * ListRows) : n # 0
      BY <1>2
    <3>10. /\ \A n \in 1..(2 * ListRows) :
                 <<Body[n].index, Body[n].band>> \in Rest /\ Body[n].index # 0
           /\ \A m, n \in 1..(2 * ListRows) : m # n => Body[m].index # Body[n].index
      BY <3>5, <3>7, <3>9, Zenon
    <3> QED
      BY <3>5, <3>6, <3>8, <3>9, <3>10, Zenon
  <2> QED
    BY <2>1, <2>2, <2>3
<1>4. PICK k \in Nat :
        /\ Body = [n \in 1..k |-> Body[n]]
        /\ \A n \in 1..k : <<Body[n].index, Body[n].band>> \in Rest /\ Body[n].index # 0
        /\ \A p \in Rest : \E n \in 1..k : p = <<Body[n].index, Body[n].band>>
        /\ \A m, n \in 1..k : m # n => Body[m].index # Body[n].index
  BY <1>3
<1> HIDE DEF Body
<1>5. /\ Len(lines) = k + 1 /\ lines[1] = HeaderLine(h)
      /\ \A n \in 2..(k + 1) : lines[n] = Body[n - 1]
  <2> DEFINE U == {Body[n] : n \in 1..k} \cup {HeaderLine(h)}
  <2>1. Body \in [1..k -> U]
    BY <1>4
  <2>2. Body \in Seq(U) /\ Len(Body) = k
    BY <1>4, <2>1
  <2>3. <<HeaderLine(h)>> \in Seq(U) /\ Len(<<HeaderLine(h)>>) = 1
    OBVIOUS
  <2> HIDE DEF U
  <2> QED
    BY <1>1, <2>2, <2>3
<1>6. HeaderLine(h).index = 0 /\ <<HeaderLine(h).index, HeaderLine(h).band>> = HeaderPlace
  BY DEF HeaderLine, Line, HeaderPlace
<1>7. HeaderPlace \in Places(empty, det)
  BY DEF Places
<1>8. \A n \in 1..(k + 1) : n = 1 \/ (n \in 2..(k + 1) /\ n - 1 \in 1..k)
  OBVIOUS
<1>9. \A n \in 1..k : n + 1 \in 2..(k + 1) /\ (n + 1) - 1 = n /\ n + 1 \in 1..(k + 1)
  OBVIOUS
<1>10. \A m, n \in 2..(k + 1) : m # n => m - 1 # n - 1
  OBVIOUS
<1>11. 1 \in 1..(k + 1) /\ Len(lines) \in Nat
  BY <1>5
<1> HIDE DEF Rest
<1>12. \A n \in 1..Len(lines) : <<lines[n].index, lines[n].band>> \in Places(empty, det)
  <2>1. ASSUME NEW n \in 1..(k + 1)
        PROVE  <<lines[n].index, lines[n].band>> \in Places(empty, det)
    <3>1. CASE n = 1
      BY <1>5, <1>6, <1>7, <3>1
    <3>2. CASE n \in 2..(k + 1) /\ n - 1 \in 1..k
      <4>1. lines[n] = Body[n - 1]
        BY <1>5, <3>2
      <4>2. <<Body[n - 1].index, Body[n - 1].band>> \in Rest
        BY <1>4, <3>2
      <4> QED
        BY <4>1, <4>2, Zenon DEF Rest
    <3> QED
      BY <1>8, <3>1, <3>2
  <2> QED
    BY <1>5, <2>1
<1>13. \A p \in Places(empty, det) :
          \E n \in 1..Len(lines) : p = <<lines[n].index, lines[n].band>>
  <2> SUFFICES ASSUME NEW p \in Places(empty, det)
               PROVE  \E n \in 1..(k + 1) : p = <<lines[n].index, lines[n].band>>
    BY <1>5
  <2>1. CASE p = HeaderPlace
    BY <1>5, <1>6, <1>11, <2>1
  <2>2. CASE p # HeaderPlace
    <3>1. PICK n \in 1..k : p = <<Body[n].index, Body[n].band>>
      BY <1>4, <2>2 DEF Rest
    <3>2. lines[n + 1] = Body[n] /\ n + 1 \in 1..(k + 1)
      BY <1>5, <1>9
    <3> QED
      BY <3>1, <3>2, Zenon
  <2> QED
    BY <2>1, <2>2
<1>14. \A m, n \in 1..Len(lines) : m # n => lines[m].index # lines[n].index
  <2> SUFFICES ASSUME NEW m \in 1..(k + 1), NEW n \in 1..(k + 1), m # n
               PROVE  lines[m].index # lines[n].index
    BY <1>5
  <2>1. CASE m = 1 \/ n = 1
    <3>0. \A i \in 2..(k + 1) : i - 1 \in 1..k
      OBVIOUS
    <3>1. \A i \in 2..(k + 1) : lines[i].index # 0
      BY <1>4, <1>5, <3>0, Zenon
    <3>2. lines[1].index = 0
      BY <1>5, <1>6
    <3>3. m \in 2..(k + 1) \/ n \in 2..(k + 1)
      BY <1>8
    <3> QED
      BY <1>8, <2>1, <3>1, <3>2, Zenon
  <2>2. CASE m # 1 /\ n # 1
    <3>1. m \in 2..(k + 1) /\ m - 1 \in 1..k /\ n \in 2..(k + 1) /\ n - 1 \in 1..k
      BY <1>8, <2>2
    <3>2. Body[m - 1].index # Body[n - 1].index
      BY <1>4, <1>10, <3>1, Zenon
    <3> QED
      BY <1>5, <3>1, <3>2, Zenon
  <2> QED
    BY <2>1, <2>2
<1> QED
  BY <1>11, <1>12, <1>13, <1>14 DEF PlacedAt

\* A set of line numbers has a last one: the numbers after it are fewest.
LEMMA LastOne ==
  ASSUME NEW k \in Nat, NEW T, T \subseteq 1..k, T # {}
  PROVE  \E n \in T : \A m \in T : m <= n
<1> DEFINE Above(n) == {m \in T : n < m}
           All == {Above(n) : n \in T}
<1>1. IsFiniteSet(1..k)
  <2>1. 1 \in Int /\ k \in Int
    OBVIOUS
  <2> QED
    BY <2>1, FS_Interval, Zenon
<1>2. \A n \in T : IsFiniteSet(Above(n)) /\ Above(n) \in SUBSET (1..k)
  <2> TAKE n \in T
  <2>1. Above(n) \in SUBSET (1..k)
    OBVIOUS
  <2> QED
    BY <1>1, <2>1, FS_Subset, Zenon
<1>3. All \subseteq FiniteSubsetsOf(1..k) /\ All # {}
  BY <1>2 DEF FiniteSubsetsOf
<1>4. IsWellFoundedOn(StrictSubsetOrdering(1..k), FiniteSubsetsOf(1..k))
  BY FS_StrictSubsetOrderingWellFounded, Zenon
<1>5. PICK A \in All : \A B \in All : <<B, A>> \notin StrictSubsetOrdering(1..k)
  <2> HIDE DEF All
  <2> QED
    BY <1>3, <1>4, WFMin, Zenon
<1>6. PICK n \in T : A = Above(n)
  BY <1>5
<1>7. ASSUME NEW m \in T, n < m PROVE FALSE
  <2>1. n \in Int /\ m \in Int /\ T \subseteq Int
    OBVIOUS
  <2>2. Above(m) \subseteq A /\ m \in A /\ m \notin Above(m)
    <3>1. \A i \in T : i \in Int /\ (m < i => n < i) /\ ~(m < m)
      BY <1>7, <2>1
    <3> QED
      BY <1>6, <1>7, <3>1
  <2>3. Above(m) \in SUBSET (1..k) /\ A \in SUBSET (1..k)
    BY <1>2, <1>6
  <2>4. <<Above(m), A>> \in StrictSubsetOrdering(1..k)
    BY <2>2, <2>3 DEF StrictSubsetOrdering
  <2> QED
    BY <1>5, <2>4
<1>8. \A m \in T : m \in Int /\ n \in Int
  OBVIOUS
<1> QED
  BY <1>7, <1>8

\* The lines that have a place show what the cache says, and the rest is dark.
Matches(c, scr, places) ==
    /\ \A p \in places : scr[p[2]] = c[p[1]]
    /\ \A b \in Bands : (\A p \in places : p[2] # b) => scr[b] \in Dark

Shows(scr, lines) == \A n \in 1..Len(lines) : scr[lines[n].band] = lines[n].text

\* Drawing the lines that differ from the cache leaves the panel with all lines of the
\* pass, though only some are drawn and each fills no more than its band.
LEMMA Repainted ==
  ASSUME NEW h, NEW s \in Snapshots, NEW sel, s # <<>> => sel \in ToSet(s),
         NEW det \in BOOLEAN, NEW empty \in BOOLEAN, empty <=> s = <<>>,
         NEW lines, lines = Lines(h, s, sel, det),
         NEW c, NEW scr, Matches(c, scr, Places(empty, det))
  PROVE  /\ Matches(CacheAfter(c, lines), ScreenAfter(scr, c, lines), Places(empty, det))
         /\ Shows(ScreenAfter(scr, c, lines), lines)
<1> DEFINE K == 1..Len(lines)
           P == Places(empty, det)
           pos(n) == <<lines[n].index, lines[n].band>>
           over == [b \in Bands |-> {n \in Drawn(c, lines) : <<b, lines[n].band>> \in Overlapping}]
           after == ScreenAfter(scr, c, lines)
           cached == CacheAfter(c, lines)
<1>1. /\ Len(lines) \in Nat
      /\ \A n \in K : pos(n) \in P
      /\ \A p \in P : \E n \in K : p = pos(n)
      /\ \A m, n \in K : m # n => lines[m].index # lines[n].index
  <2>1. PlacedAt(lines, P)
    BY LinesPlaced
  <2> HIDE DEF P
  <2> QED
    BY <2>1 DEF PlacedAt
<1>3. ASSUME NEW n \in K
      PROVE  /\ lines[n].index \in 0..(LINES - 1) /\ lines[n].band \in Bands
             /\ <<lines[n].band, lines[n].band>> \in Overlapping
             /\ scr[lines[n].band] = c[lines[n].index]
  <2>1. pos(n) \in P
    BY <1>1
  <2> DEFINE p == pos(n)
  <2>2. p[1] = lines[n].index /\ p[2] = lines[n].band
    OBVIOUS
  <2> HIDE DEF p, P
  <2>3. p \in P
    BY <2>1 DEF p
  <2>4. scr[p[2]] = c[p[1]]
    BY <2>3 DEF Matches, P
  <2>5. p[1] \in 0..(LINES - 1) /\ p[2] \in Bands /\ <<p[2], p[2]>> \in Overlapping
    BY <2>3, PlacesApart, Zenon DEF P
  <2> QED
    BY <2>2, <2>4, <2>5, Zenon
<1>4. ASSUME NEW m \in K, NEW n \in K, m # n
      PROVE  <<lines[n].band, lines[m].band>> \notin Overlapping
  <2>1. PICK p, q : p = pos(m) /\ q = pos(n)
    OBVIOUS
  <2>2. p \in P /\ q \in P /\ p[2] = lines[m].band /\ q[2] = lines[n].band /\ p # q
    BY <1>1, <1>4, <2>1
  <2> HIDE DEF P
  <2>3. <<q[2], p[2]>> \notin Overlapping
    BY <2>2, PlacesApart, ZenonT(30) DEF P
  <2> QED
    BY <2>2, <2>3, Zenon
<1> HIDE DEF P
<1>5. /\ Drawn(c, lines) = {n \in K : c[lines[n].index] # lines[n].text}
      /\ \A b \in Bands :
            over[b] = {n \in Drawn(c, lines) : <<b, lines[n].band>> \in Overlapping}
  BY Zenon DEF Drawn
<1>6. \A b \in Bands : over[b] # {} =>
          \E n \in over[b] : \A m \in over[b] : m <= n
  <2> TAKE b \in Bands
  <2> HIDE DEF over
  <2>1. over[b] \subseteq 1..Len(lines)
    BY <1>5
  <2> QED
    BY <1>1, <2>1, LastOne
<1>7. ASSUME NEW b \in Bands
      PROVE  /\ over[b] = {} => after[b] = scr[b]
             /\ over[b] # {} => \E top \in over[b] :
                   after[b] = IF lines[top].band = b THEN lines[top].text
                              ELSE IF scr[b] \in Dark THEN scr[b] ELSE Damaged
  <2> DEFINE Top == CHOOSE n \in over[b] : \A m \in over[b] : m <= n
  <2>1. after[b] = IF over[b] = {} THEN scr[b]
                   ELSE IF lines[Top].band = b THEN lines[Top].text
                   ELSE IF scr[b] \in Dark THEN scr[b] ELSE Damaged
    BY Zenon DEF ScreenAfter
  <2> HIDE DEF over, after
  <2>2. over[b] # {} => Top \in over[b]
    BY <1>6, Zenon
  <2> HIDE DEF Top
  <2> QED
    BY <2>1, <2>2, Zenon
<1> HIDE DEF after
<1>8. ASSUME NEW n \in K PROVE after[lines[n].band] = lines[n].text
  <2>1. PICK b \in Bands : b = lines[n].band
    BY <1>3
  <2> HIDE DEF over
  <2>2. over[b] \subseteq {n}
    BY <1>4, <1>5, <2>1, ZenonT(30)
  <2>3. CASE n \in Drawn(c, lines)
    <3>1. over[b] # {}
      BY <1>3, <1>5, <2>1, <2>3
    <3>2. PICK top \in over[b] :
             after[b] = IF lines[top].band = b THEN lines[top].text
                        ELSE IF scr[b] \in Dark THEN scr[b] ELSE Damaged
      BY <1>7, <3>1
    <3>3. top = n
      BY <2>2
    <3> QED
      BY <2>1, <3>2, <3>3
  <2>4. CASE n \notin Drawn(c, lines)
    <3>1. over[b] = {} /\ c[lines[n].index] = lines[n].text
      BY <1>5, <2>1, <2>2, <2>4
    <3> QED
      BY <1>3, <1>7, <2>1, <3>1
  <2> QED
    BY <2>3, <2>4
<1>9. ASSUME NEW n \in K PROVE cached[lines[n].index] = lines[n].text
  <2>1. PICK k \in 0..(LINES - 1) : k = lines[n].index
    BY <1>3
  <2>2. cached[k] = IF \E m \in K : lines[m].index = k
                    THEN lines[CHOOSE m \in K : lines[m].index = k].text ELSE c[k]
    BY Zenon DEF CacheAfter
  <2> DEFINE drawn == CHOOSE m \in K : lines[m].index = k
  <2>3. drawn \in K /\ lines[drawn].index = k
    BY <2>1, Zenon
  <2>4. drawn = n
    BY <1>1, <2>1, <2>3, Zenon
  <2> HIDE DEF cached
  <2> QED
    BY <2>1, <2>2, <2>4, Zenon
<1> HIDE DEF cached, over
<1>10. ASSUME NEW p \in P PROVE after[p[2]] = cached[p[1]]
  <2>1. PICK n \in K : p = pos(n)
    BY <1>1
  <2>2. p[1] = lines[n].index /\ p[2] = lines[n].band
    BY <2>1
  <2> QED
    BY <1>8, <1>9, <2>2, Zenon
<1>11. ASSUME NEW b \in Bands, \A p \in P : p[2] # b PROVE after[b] \in Dark
  <2>1. scr[b] \in Dark
    BY <1>11, Zenon DEF Matches, P
  <2>2. ASSUME NEW n \in K PROVE lines[n].band # b
    <3>1. pos(n) \in P /\ pos(n)[2] = lines[n].band
      BY <1>1
    <3> QED
      BY <1>11, <3>1, Zenon
  <2>3. CASE over[b] = {}
    BY <1>7, <2>1, <2>3
  <2>4. CASE over[b] # {}
    <3>1. PICK top \in over[b] :
             after[b] = IF lines[top].band = b THEN lines[top].text
                        ELSE IF scr[b] \in Dark THEN scr[b] ELSE Damaged
      BY <1>7, <2>4
    <3>2. top \in K
      BY <1>5
    <3> QED
      BY <2>1, <2>2, <3>1, <3>2
  <2> QED
    BY <2>3, <2>4
<1> QED
  BY <1>8, <1>10, <1>11 DEF Matches, Shows, P, after, cached

\* Between the passes the cache and the panel agree wherever the next pass may rely on
\* them: unless it is to repaint all, for the layout that was drawn last.
Painted == ~dirty => Matches(cache, screen, Places(was_empty, detail))

UiInv == UiTypeOK /\ Painted /\ ScreenIsCurrent

LEMMA UiInvInit == UiInit => UiInv
BY UiTypeInit DEF UiInit, UiInv, Painted, ScreenIsCurrent

\* A pass that is to clear starts from a cache and a panel that agree on anything.
LEMMA ClearMatches ==
  ASSUME NEW empty \in BOOLEAN, NEW det \in BOOLEAN
  PROVE  Matches(NoCache(cache), ClearScreen, Places(empty, det))
<1>1. /\ \A k \in 0..(LINES - 1) : NoCache(cache)[k] = Undrawn
      /\ \A b \in Bands : ClearScreen[b] = Undrawn
  BY Zenon DEF NoCache, ClearScreen
<1>2. \A p \in Places(empty, det) : p[1] \in 0..(LINES - 1) /\ p[2] \in Bands
  BY PlacesApart
<1>3. Undrawn \in Dark
  BY DEF Dark
<1> QED
  BY <1>1, <1>2, <1>3, Zenon DEF Matches

LEMMA PassPaints ==
  ASSUME UiInv, RenderPass
  PROVE  Painted' /\ ScreenIsCurrent'
<1>1. PICK s \in Snapshots, h \in Headers :
        LET sel == Reselected(s, selected)
            lines == Lines(h, s, sel, detail)
            cached == IF MustClear(s) THEN NoCache(cache) ELSE cache
            cleared == IF MustClear(s) THEN ClearScreen ELSE screen
        IN  /\ rows' = s
            /\ selected' = sel
            /\ cache' = CacheAfter(cached, lines)
            /\ screen' = ScreenAfter(cleared, cached, lines)
            /\ was_empty' = (s = <<>>)
            /\ header' = h
  BY DEF RenderPass
<1>2. PICK sel : sel = Reselected(s, selected)
  OBVIOUS
<1>3. PICK lines : lines = Lines(h, s, sel, detail)
  OBVIOUS
<1>4. PICK c : c = IF MustClear(s) THEN NoCache(cache) ELSE cache
  OBVIOUS
<1>5. PICK scr : scr = IF MustClear(s) THEN ClearScreen ELSE screen
  OBVIOUS
<1>6. /\ rows' = s /\ selected' = sel /\ header' = h
      /\ cache' = CacheAfter(c, lines) /\ screen' = ScreenAfter(scr, c, lines)
      /\ (was_empty' <=> s = <<>>) /\ was_empty' \in BOOLEAN
      /\ detail' = detail /\ dirty' = FALSE
  BY <1>1, <1>2, <1>3, <1>4, <1>5, Zenon DEF RenderPass
<1>7. PICK empty \in BOOLEAN : empty <=> s = <<>>
  BY Zenon
<1>8. was_empty' = empty /\ detail \in BOOLEAN /\ was_empty \in BOOLEAN
  BY <1>6, <1>7 DEF UiInv, UiTypeOK
<1>9. Matches(c, scr, Places(empty, detail))
  <2>1. CASE MustClear(s)
    BY <1>4, <1>5, <1>8, <2>1, ClearMatches
  <2>2. CASE ~MustClear(s)
    <3>1. ~dirty /\ was_empty = empty
      BY <1>7, <1>8, <2>2 DEF MustClear
    <3> QED
      BY <1>4, <1>5, <2>2, <3>1 DEF UiInv, Painted
  <2> QED
    BY <2>1, <2>2
<1>10. s # <<>> => sel \in ToSet(s)
  BY <1>2, ReselectedShown DEF UiInv, UiTypeOK
<1>11. /\ Matches(cache', screen', Places(empty, detail))
       /\ Shows(screen', lines)
  BY <1>3, <1>6, <1>7, <1>8, <1>9, <1>10, Repainted
<1>12. PlacedAt(lines, Places(empty, detail))
  BY <1>3, <1>7, <1>8, <1>10, LinesPlaced
<1>13. Painted'
  <2>1. Matches(cache', screen', Places(was_empty', detail'))
    BY <1>6, <1>8, <1>11, Zenon
  <2> QED
    BY <2>1 DEF Painted, Matches
<1>14. Promised' = lines
  <2>1. s = <<>> => sel \notin ToSet(s)
    BY DEF ToSet
  <2>2. Promised' = <<HeaderLine(h)>> \o
                    CASE s = <<>>             -> <<EmptyLine>>
                      [] s # <<>> /\ detail   -> DetailLines(sel)
                      [] s # <<>> /\ ~detail  -> ListLines(s, sel)
    BY <1>6 DEF Promised
  <2>3. lines = <<HeaderLine(h)>> \o
                CASE detail /\ sel \in ToSet(s) -> DetailLines(sel)
                  [] ~detail /\ s # <<>>        -> ListLines(s, sel)
                  [] OTHER                      -> <<EmptyLine>>
    BY <1>3 DEF Lines
  <2>4. CASE s = <<>>
    BY <2>1, <2>2, <2>3, <2>4
  <2>5. CASE s # <<>> /\ detail
    BY <1>10, <2>2, <2>3, <2>5
  <2>6. CASE s # <<>> /\ ~detail
    BY <2>2, <2>3, <2>6
  <2> QED
    BY <2>4, <2>5, <2>6
<1>15. ASSUME NEW b \in Bands, \A n \in 1..Len(lines) : lines[n].band # b
       PROVE  screen'[b] \in Dark
  <2>1. ASSUME NEW p \in Places(empty, detail) PROVE p[2] # b
    <3>1. PICK n \in 1..Len(lines) : p = <<lines[n].index, lines[n].band>>
      BY <1>12 DEF PlacedAt
    <3> QED
      BY <1>15, <3>1
  <2> QED
    BY <1>11, <2>1, Zenon DEF Matches
<1>16. ScreenIsCurrent'
  <2>1. \A b \in Bands \ {lines[n].band : n \in 1..Len(lines)} : screen'[b] \in Dark
    BY <1>15, Zenon
  <2>2. rows' # <<>> => selected' \in ToSet(rows')
    BY <1>6, <1>10
  <2> QED
    BY <1>11, <1>14, <2>1, <2>2, Zenon DEF ScreenIsCurrent, Shows
<1> QED
  BY <1>13, <1>16

LEMMA UiInvStep == UiInv /\ [UiNext]_uiVars => UiInv'
<1> SUFFICES ASSUME UiInv, [UiNext]_uiVars PROVE UiInv'
  OBVIOUS
<1>1. UiTypeOK'
  BY UiTypeStep DEF UiInv
<1>2. ASSUME RenderPass PROVE Painted' /\ ScreenIsCurrent'
  BY <1>2, PassPaints
<1>3. ASSUME UNCHANGED <<rows, was_empty, cache, screen, header>>, at' = "pass",
             dirty' \/ (dirty' = dirty /\ detail' = detail)
      PROVE  Painted' /\ ScreenIsCurrent'
  BY <1>3 DEF UiInv, Painted, ScreenIsCurrent, Matches
<1>4. ASSUME NextTrack \/ ToggleView \/ ClearTracks \/ Redraw \/ Timeout
      PROVE  Painted' /\ ScreenIsCurrent'
  BY <1>3, <1>4, Zenon DEF NextTrack, ToggleView, ClearTracks, Redraw, Timeout, TakeEvent
<1>5. ASSUME UNCHANGED <<at, rows, selected, detail, was_empty, dirty, cache, screen, header>>
      PROVE  Painted' /\ ScreenIsCurrent'
  BY <1>5 DEF UiInv, Painted, ScreenIsCurrent, Matches, Promised
<1> QED
  BY <1>1, <1>2, <1>4, <1>5 DEF UiInv, UiNext, UiTask, QueueEvent, uiVars

\* For any snapshots, any table sizes and any order of events, whatever ui_task waits
\* with on the panel is what the last pass had to show, and nothing else.
THEOREM UiShows == UiSpec => []ScreenIsCurrent
<1>1. UiInv => ScreenIsCurrent
  BY DEF UiInv
<1> QED
  BY <1>1, UiInvInit, UiInvStep, PTL DEF UiSpec
====
