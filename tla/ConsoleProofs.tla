---------------------------- MODULE ConsoleProofs ----------------------------
(***************************************************************************)
(* Proofs about keyboard input, for every INPUT_MAXLEN, every alphabet and *)
(* every interleaving of handlers and thread.                              *)
(*                                                                         *)
(* The invariant is built in layers, each inductive relative to the ones   *)
(* before: types, Control (where the thread may be, and with which         *)
(* request, gates and masks), SleepInv (how sleep_amt is counted down),    *)
(* BufferInv and LineInv (what con_input, bufpos and the returned line are *)
(* when keys come only while the thread waits).                            *)
(***************************************************************************)
EXTENDS Console, SequenceTheorems, TLAPS

\* Where the thread is says which call it is in, which handlers are mapped and
\* whether a request may be open.
Control ==
    /\ GatesFirst
    /\ RequestHasWaiter
    /\ pc = "dead" => enabled = {}
    /\ pc \in {"kbd_mask", "pit_gate", "pit_mask"} => "kbd" \in gates
    /\ pc = "pit_mask" => "timer" \in gates
    /\ pc \in {"copy", "strlen", "memset"} => call = "string"
    /\ pc \in {"kbd_gate", "kbd_mask", "pit_gate", "pit_mask", "run"} => call = None
    /\ pc \in Waiting \cup {"ret"} => call \in {"string", "char", "sleep"}

\* While a thread sleeps, sleep_amt is what the ticks have left of its argument as
\* an int32_t, and a tick never takes more than 10 ms beyond its end.
SleepInv ==
    call = "sleep" /\ pc \in Waiting \cup {"ret"} =>
        /\ msec <= 2 * IntMax + 1
        /\ sleep_amt = Int32(msec) - 10 * ticks
        /\ msec > IntMax => ticks = 0
        /\ ticks > 0 => sleep_amt > -10
        /\ pc = "ret" => sleep_amt <= 0

\* What an attended console holds.  A character costs one of the MaxLen places of
\* bufpos and a backspace one more, so bufpos and the length of con_input never
\* add up to more than 2 * MaxLen, and the length never exceeds bufpos.
Busy == {"copy", "strlen", "memset"}

BufferInv ==
    attended =>
        /\ request = "string" => /\ Len(con_input) <= bufpos
                                 /\ bufpos + Len(con_input) <= 2 * MaxLen
        /\ request # "string" => bufpos = 0
        /\ call = "string" /\ pc \in Waiting \cup Busy => Len(con_input) <= MaxLen
        /\ pc = "memset" => memlen = Len(con_input)
        /\ ~(call = "string" /\ pc \in Waiting \cup Busy) => con_input = <<>>

\* And how the line travels from the screen to the caller.
LineInv ==
    attended =>
        /\ request = "string" => shown = con_input
        /\ request # "string" => shown = <<>>
        /\ call = "string" /\ pc \in Waiting \cup Busy /\ request = None =>
               entered = con_input
        /\ pc = "copy" => /\ Len(line) <= Len(con_input)
                          /\ \A i \in 1 .. Len(line) : line[i] = con_input[i]
        /\ pc \in {"strlen", "memset"} => line = con_input
        /\ pc = "ret" /\ call = "string" => line = entered

\* What the operations on strings return.
LEMMA StringOps ==
    ASSUME NEW S, NEW s \in Seq(S), NEW e \in S
    PROVE  /\ <<>> \in Seq(S) /\ Len(<<>>) = 0
           /\ Append(s, e) \in Seq(S) /\ Len(Append(s, e)) = Len(s) + 1
           /\ Chop(s) \in Seq(S)
           /\ Len(s) \in Nat
           /\ Len(s) > 0 => Len(Chop(s)) = Len(s) - 1
           /\ Len(s) = 0 => s = <<>>
  <1>1. /\ <<>> \in Seq(S) /\ Len(<<>>) = 0
        /\ Append(s, e) \in Seq(S) /\ Len(Append(s, e)) = Len(s) + 1
        /\ Len(s) \in Nat
        /\ Len(s) = 0 => s = <<>>
    BY EmptySeq, AppendProperties
  <1>2. CASE s = <<>>
    BY <1>1, <1>2 DEF Chop
  <1>3. CASE s # <<>>
    <2>1. Len(s) > 0
      BY <1>1, <1>3
    <2>2. /\ SubSeq(s, 1, Len(s) - 1) \in Seq(S)
          /\ Len(SubSeq(s, 1, Len(s) - 1)) = Len(s) - 1
      <3> DEFINE n == Len(s) - 1
      <3>1. n \in Int /\ n >= 0 /\ \A i \in 1 .. n : s[i] \in S
        BY <1>1, <2>1, ElementOfSeq
      <3> HIDE DEF n
      <3>2. /\ SubSeq(s, 1, n) \in Seq(S)
            /\ Len(SubSeq(s, 1, n)) = IF 1 <= n THEN n - 1 + 1 ELSE 0
        BY <3>1, SubSeqProperties
      <3>3. Len(SubSeq(s, 1, n)) = n
        BY <3>1, <3>2
      <3> QED
        BY <3>2, <3>3 DEF n
    <2> QED
      BY <1>1, <1>3, <2>1, <2>2 DEF Chop
  <1> QED
    BY <1>2, <1>3

\* The variables start with their types: nothing is mapped, asked for or typed yet.
LEMMA InitTypes == Init => TypeOK
  <1> SUFFICES ASSUME Init PROVE TypeOK
    OBVIOUS
  <1>1. ThreadTypes
    BY DEF Init, ThreadTypes, Waiting, None
  <1>2. StringTypes
    BY EmptySeq DEF Init, StringTypes
  <1>3. NumberTypes
    BY TimeAssumption DEF Init, NumberTypes
  <1>4. KeyTypes
    BY DEF Init, KeyTypes
  <1>5. IrqTypes
    BY DEF Init, IrqTypes
  <1> QED
    BY <1>1, <1>2, <1>3, <1>4, <1>5 DEF TypeOK

\* Every step keeps the types.  The five parts are kept one by one.
LEMMA StepThreadTypes == TypeOK /\ [Next]_vars => ThreadTypes'
  <1> SUFFICES ASSUME TypeOK, [Next]_vars PROVE ThreadTypes'
    OBVIOUS
  <1> USE DEF TypeOK, ThreadTypes, Waiting, None
  <1>1. CASE Boot
    BY <1>1 DEF Boot, KbdGate, KbdMask, TimerGate, TimerMask, BootStep, key
  <1>2. CASE NewCall
    BY <1>2 DEF NewCall, GetInput, Sleep, Die, Enter, key
  <1>3. CASE Progress
    BY <1>3 DEF Progress, Test, AfterWait, Halt, Copy, Strlen, Memset, Return, key
  <1>4. CASE Keyboard
    BY <1>4 DEF Keyboard, Backspace, Shift, EnterKey, KeyUp, Ignored, CharKey,
                CharDropped, CharAnswers, CharAppended, KeyIrq, Irq
  <1>5. CASE PitIrq
    BY <1>5 DEF PitIrq, Irq, key
  <1>6. CASE Dead \/ UNCHANGED vars
    BY <1>6 DEF Dead, vars, key
  <1> QED
    BY <1>1, <1>2, <1>3, <1>4, <1>5, <1>6 DEF Next

\* Strings hold characters of keys only, whatever is appended, chopped or copied.
LEMMA StepStringTypes == TypeOK /\ [Next]_vars => StringTypes'
  <1> SUFFICES ASSUME TypeOK, [Next]_vars PROVE StringTypes'
    OBVIOUS
  <1> USE DEF TypeOK, StringTypes
  <1>0. <<>> \in Seq(KeyChars)
    BY EmptySeq
  <1>1. CASE UNCHANGED <<con_input, line, shown, entered>>
    BY <1>1
  <1>2. CASE Boot \/ NewCall \/ Dead \/ PitIrq \/ UNCHANGED vars
    <2>1. UNCHANGED <<con_input, line, shown, entered>>
      BY <1>2 DEF Boot, KbdGate, KbdMask, TimerGate, TimerMask, BootStep, NewCall,
                  GetInput, Sleep, Die, Dead, PitIrq, Irq, vars, key, work
    <2> QED
      BY <2>1
  <1>3. CASE Test \/ Halt \/ Strlen \/ Memset \/ Return
    BY <1>0, <1>3 DEF Test, Halt, Strlen, Memset, Return, key, work
  <1>4. CASE Copy
    <2>1. CASE Len(line) < Len(con_input)
      <3>1. con_input[Len(line) + 1] \in KeyChars
        BY <2>1, LenProperties, ElementOfSeq
      <3> QED
        BY <1>4, <2>1, <3>1, AppendProperties, ZenonT(30) DEF Copy, key
    <2>2. CASE ~(Len(line) < Len(con_input))
      BY <1>4, <2>2 DEF Copy, key
    <2> QED
      BY <2>1, <2>2
  <1>5. CASE Backspace
    <2>1. CASE KeyChars = {}
      <3>1. con_input = <<>> /\ Len(<<>>) = 0
        BY <2>1, EmptySeq, ElementOfSeq
      <3> QED
        BY <1>5, <3>1 DEF Backspace, KeyIrq, Irq, work
    <2>2. CASE KeyChars # {}
      BY <1>0, <1>5, <2>2, StringOps DEF Backspace, Echo, KeyIrq, Irq, work
    <2> QED
      BY <2>1, <2>2
  <1>6. CASE EnterKey
    BY <1>0, <1>6 DEF EnterKey, Echo, KeyIrq, Irq, work
  <1>7. ASSUME NEW c \in Chars \cup Digits, CharKey(c) PROVE StringTypes'
    <2>1. Typed(c) \in KeyChars
      BY DEF Typed, KeyChars
    <2>2. CASE CharAppended(c)
      BY <1>0, <2>1, <2>2, AppendProperties DEF CharAppended, Echo, KeyIrq, Irq, work
    <2>3. CASE CharDropped(c) \/ CharAnswers(c)
      BY <2>3 DEF CharDropped, CharAnswers, KeyIrq, Irq, work
    <2> QED
      BY <1>7, <2>2, <2>3 DEF CharKey
  <1>8. CASE Shift \/ (\E left \in BOOLEAN : KeyUp(left)) \/ \E c \in {Ctl, NUL} : Ignored(c)
    BY <1>8 DEF Shift, KeyUp, Ignored, KeyIrq, Irq, work
  <1> QED
    BY <1>2, <1>3, <1>4, <1>5, <1>6, <1>7, <1>8 DEF Next, Progress, Keyboard

\* The counters stay numbers, and kticks wraps.
LEMMA StepNumberTypes == TypeOK /\ [Next]_vars => NumberTypes'
  <1> SUFFICES ASSUME TypeOK, [Next]_vars PROVE NumberTypes'
    OBVIOUS
  <1> USE DEF TypeOK, NumberTypes
  <1>0. Len(con_input) \in Nat
    BY LenProperties DEF StringTypes
  <1>1. CASE Boot
    BY <1>1 DEF Boot, KbdGate, KbdMask, TimerGate, TimerMask, BootStep, key, timer, work
  <1>2. CASE NewCall
    BY <1>2, TimeAssumption DEF NewCall, GetInput, Sleep, Int32, Die, Enter, key, timer, work
  <1>3. CASE Progress
    BY <1>0, <1>3 DEF Progress, Test, Halt, Copy, Strlen, Memset, Return, key, timer, work
  <1>4. CASE Keyboard
    <2>1. UNCHANGED <<memlen, sleep_amt, kticks, ticks, msec>>
      BY <1>4 DEF Keyboard, Backspace, Shift, EnterKey, KeyUp, Ignored, CharKey,
                  CharDropped, CharAnswers, CharAppended, KeyIrq, Irq, timer, work
    <2>2. bufpos' \in {0, bufpos, bufpos + 1}
      BY <1>4 DEF Keyboard, Backspace, Shift, EnterKey, KeyUp, Ignored, CharKey,
                  CharDropped, CharAnswers, CharAppended
    <2> QED
      BY <2>1, <2>2
  <1>5. CASE PitIrq
    BY <1>5, TimeAssumption DEF PitIrq, Irq, key, work
  <1>6. CASE Dead \/ UNCHANGED vars
    BY <1>6 DEF Dead, vars, key, timer, work
  <1> QED
    BY <1>1, <1>2, <1>3, <1>4, <1>5, <1>6 DEF Next

\* What a key leaves in keychar and shift_down.
LEMMA StepKeyTypes == TypeOK /\ [Next]_vars => KeyTypes'
  <1> SUFFICES ASSUME TypeOK, [Next]_vars PROVE KeyTypes'
    OBVIOUS
  <1> USE DEF TypeOK, KeyTypes
  <1>1. CASE Boot
    BY <1>1 DEF Boot, KbdGate, KbdMask, TimerGate, TimerMask, BootStep, key
  <1>2. CASE NewCall
    BY <1>2 DEF NewCall, GetInput, Sleep, Die, key
  <1>3. CASE Progress
    BY <1>3 DEF Progress, Test, Halt, Copy, Strlen, Memset, Return, key
  <1>4. CASE Keyboard
    <2>1. \A c \in Chars \cup Digits : Typed(c) \in KeyChars
      BY DEF Typed, KeyChars
    <2> QED
      BY <1>4, <2>1 DEF Keyboard, Backspace, Shift, EnterKey, KeyUp, Ignored, CharKey,
                CharDropped, CharAnswers, CharAppended, KeyIrq, Irq
  <1>5. CASE PitIrq
    BY <1>5 DEF PitIrq, Irq, key
  <1>6. CASE Dead \/ UNCHANGED vars
    BY <1>6 DEF Dead, vars, key
  <1> QED
    BY <1>1, <1>2, <1>3, <1>4, <1>5, <1>6 DEF Next

\* Only the two lines of the boot sequence are ever mapped or unmasked.
LEMMA StepIrqTypes == TypeOK /\ [Next]_vars => IrqTypes'
  <1> SUFFICES ASSUME TypeOK, [Next]_vars PROVE IrqTypes'
    OBVIOUS
  <1> USE DEF TypeOK, IrqTypes
  <1>1. CASE Boot
    BY <1>1 DEF Boot, KbdGate, KbdMask, TimerGate, TimerMask
  <1>2. CASE NewCall
    BY <1>2 DEF NewCall, GetInput, Sleep, Die, irq
  <1>3. CASE Progress
    BY <1>3 DEF Progress, Test, Halt, Copy, Strlen, Memset, Return, irq
  <1>4. CASE Keyboard
    BY <1>4 DEF Keyboard, Backspace, Shift, EnterKey, KeyUp, Ignored, CharKey,
                CharDropped, CharAnswers, CharAppended, KeyIrq, Irq, irq
  <1>5. CASE PitIrq
    BY <1>5 DEF PitIrq, Irq, irq
  <1>6. CASE Dead \/ UNCHANGED vars
    BY <1>6 DEF Dead, vars, irq
  <1> QED
    BY <1>1, <1>2, <1>3, <1>4, <1>5, <1>6 DEF Next

\* Every step keeps all five parts (keyboard.h, timer.h).
LEMMA StepTypes == TypeOK /\ [Next]_vars => TypeOK'
  BY StepThreadTypes, StepStringTypes, StepNumberTypes, StepKeyTypes, StepIrqTypes
     DEF TypeOK

-----------------------------------------------------------------------------
(* The second layer: control.                                              *)

\* At the start of kbd_init no line is unmasked and no request is open.
LEMMA InitControl == Init => Control
  BY DEF Init, Control, GatesFirst, RequestHasWaiter, Waiting, None

\* Every step keeps thread, request, gates and masks in agreement: a handler moves the
\* thread only out of hlt, and the thread closes a call only when its request is closed.
LEMMA StepControl == TypeOK /\ Control /\ [Next]_vars => Control'
  <1> SUFFICES ASSUME TypeOK, Control, [Next]_vars PROVE Control'
    OBVIOUS
  <1> USE DEF TypeOK, ThreadTypes, IrqTypes, Control, GatesFirst, RequestHasWaiter,
              Waiting, None
  <1>1. CASE Boot
    BY <1>1 DEF Boot, KbdGate, KbdMask, TimerGate, TimerMask, BootStep, key
  <1>2. CASE NewCall
    BY <1>2 DEF NewCall, GetInput, Sleep, Die, Enter, key, irq
  <1>3. CASE Progress
    BY <1>3 DEF Progress, Test, KeepsWaiting, AfterWait, Halt, Copy, Strlen, Memset,
                Return, key, irq
  <1>4. CASE Keyboard
    BY <1>4 DEF Keyboard, Backspace, Shift, EnterKey, KeyUp, Ignored, CharKey,
                CharDropped, CharAnswers, CharAppended, KeyIrq, Irq, irq
  <1>5. CASE PitIrq
    BY <1>5 DEF PitIrq, Irq, key, irq
  <1>6. CASE Dead \/ UNCHANGED vars
    BY <1>6 DEF Dead, vars, key, irq
  <1> QED
    BY <1>1, <1>2, <1>3, <1>4, <1>5, <1>6 DEF Next

-----------------------------------------------------------------------------
(* Sleeping.                                                               *)

\* Nobody sleeps before kbd_init.
LEMMA InitSleep == Init => SleepInv
  BY DEF Init, SleepInv, None

\* Every step keeps the balance: a tick takes 10 from sleep_amt only while it is
\* positive (timer.h:22-27), so only while the argument was taken for a positive one.
LEMMA StepSleep == TypeOK /\ Control /\ SleepInv /\ [Next]_vars => SleepInv'
  <1> SUFFICES ASSUME TypeOK, Control, SleepInv, [Next]_vars PROVE SleepInv'
    OBVIOUS
  <1>1. /\ sleep_amt \in Int /\ ticks \in Nat /\ msec \in Nat /\ IntMax \in Nat
        /\ Int32(msec) = IF msec > IntMax THEN msec - 2 * (IntMax + 1) ELSE msec
    BY TimeAssumption DEF TypeOK, NumberTypes, Int32
  <1> USE DEF SleepInv, Waiting, None
  <1>2. CASE Boot
    BY <1>2 DEF Boot, KbdGate, KbdMask, TimerGate, TimerMask, BootStep
  <1>3. CASE NewCall
    <2>1. ASSUME NEW m \in Msecs, Sleep(m) PROVE SleepInv'
      <3>1. /\ m \in Nat /\ m <= 2 * IntMax + 1
            /\ pc' = "test" /\ msec' = m /\ ticks' = 0 /\ sleep_amt' = Int32(m)
        BY <2>1, TimeAssumption DEF Sleep, Enter
      <3>2. Int32(m) \in Int
        BY <1>1, <3>1 DEF Int32
      <3> QED
        BY <1>1, <3>1, <3>2
    <2>2. ASSUME NEW c \in {"string", "char"}, GetInput(c) PROVE SleepInv'
      BY <2>2 DEF GetInput, Enter
    <2>3. CASE Die
      BY <2>3 DEF Die
    <2> QED
      BY <1>3, <2>1, <2>2, <2>3 DEF NewCall
  <1>4. CASE Progress
    BY <1>1, <1>4 DEF Progress, Test, KeepsWaiting, AfterWait, Halt, Copy, Strlen, Memset,
                      Return, timer, Control
  <1>5. CASE Keyboard
    BY <1>5 DEF Keyboard, Backspace, Shift, EnterKey, KeyUp, Ignored, CharKey,
                CharDropped, CharAnswers, CharAppended, KeyIrq, Irq, timer
  <1>6. CASE PitIrq
    <2>1. /\ call' = call /\ msec' = msec
          /\ pc' = IF pc = "hlt" THEN "test" ELSE pc
          /\ IF sleep_amt > 0 THEN sleep_amt' = sleep_amt - 10 /\ ticks' = ticks + 1
                              ELSE UNCHANGED <<sleep_amt, ticks>>
      BY <1>6 DEF PitIrq, Irq
    <2> QED
      BY <1>1, <2>1
  <1>7. CASE Dead \/ UNCHANGED vars
    BY <1>7 DEF Dead, vars, timer
  <1> QED
    BY <1>2, <1>3, <1>4, <1>5, <1>6, <1>7 DEF Next

-----------------------------------------------------------------------------
(* The third layer: the attended console.                                  *)

\* con_input starts empty.
LEMMA InitBuffer == Init => BufferInv
  BY EmptySeq, LenAssumption DEF Init, BufferInv, None, Waiting, Busy

\* Every step of an attended console keeps the length of con_input below bufpos,
\* which the check of keyboard.h:94 bounds.
LEMMA StepBuffer == TypeOK /\ Control /\ BufferInv /\ [Next]_vars => BufferInv'
  <1> SUFFICES ASSUME TypeOK, Control, BufferInv, [Next]_vars, attended'
               PROVE  BufferInv'
    BY DEF BufferInv
  <1>a. attended
    BY DEF Next, Boot, KbdGate, KbdMask, TimerGate, TimerMask, BootStep, NewCall,
           GetInput, Sleep, Die, Dead, Progress, Test, Halt, Copy, Strlen, Memset, Return,
           Keyboard, Backspace, Shift, EnterKey, KeyUp, Ignored, CharKey, CharDropped,
           CharAnswers, CharAppended, PitIrq, KeyIrq, Irq, vars
  <1>b. /\ Len(con_input) \in Nat /\ bufpos \in Nat /\ MaxLen \in Nat /\ MaxLen > 0
        /\ Len(con_input) = 0 <=> con_input = <<>>
        /\ Len(<<>>) = 0
    BY EmptySeq, LenProperties, LenAssumption DEF TypeOK, StringTypes, NumberTypes
  <1> USE <1>a DEF Control, RequestHasWaiter, TypeOK, ThreadTypes, BufferInv,
                   Waiting, Busy, None
  <1>1. CASE Boot
    BY <1>1 DEF Boot, KbdGate, KbdMask, TimerGate, TimerMask, BootStep, key, work
  <1>2. CASE NewCall
    BY <1>2, <1>b DEF NewCall, GetInput, Sleep, Die, Enter, key, work
  <1>3. CASE Test \/ Halt \/ Copy \/ Strlen \/ Memset \/ Return
    BY <1>3, <1>b DEF Test, KeepsWaiting, AfterWait, Halt, Copy, Strlen, Memset,
                Return, key, work
  <1>4. CASE PitIrq \/ Dead \/ UNCHANGED vars
    BY <1>4 DEF PitIrq, Irq, Dead, vars, key, work
  <1>5. CASE Shift \/ EnterKey \/ (\E left \in BOOLEAN : KeyUp(left))
             \/ \E c \in {Ctl, NUL} : Ignored(c)
    BY <1>5, <1>b DEF Shift, EnterKey, KeyUp, Ignored, KeyIrq, Irq, work
  <1>6. CASE Backspace
    <2>1. CASE Len(con_input) > 0
      <3>1. Len(Chop(con_input)) = Len(con_input) - 1
        <4>1. PICK e \in KeyChars : TRUE
          BY <1>b, <2>1, ElementOfSeq DEF StringTypes
        <4> QED
          BY <2>1, <4>1, StringOps DEF StringTypes
      <3>2. request = "string"
        BY <1>b, <1>6, <2>1 DEF Backspace, KeyIrq
      <3>3. /\ con_input' = Chop(con_input) /\ bufpos' = bufpos + 1
            /\ request' = request /\ call' = call /\ pc' \in {"test", pc}
            /\ memlen' = memlen
        BY <1>6, <2>1 DEF Backspace, KeyIrq, Irq, work
      <3>4. /\ Len(con_input') <= bufpos'
            /\ bufpos' + Len(con_input') <= 2 * MaxLen
            /\ Len(con_input') <= MaxLen
        BY <1>b, <2>1, <3>1, <3>2, <3>3
      <3> QED
        BY <3>2, <3>3, <3>4
    <2>2. CASE ~(Len(con_input) > 0)
      BY <1>b, <1>6, <2>2 DEF Backspace, KeyIrq, Irq, work
    <2> QED
      BY <2>1, <2>2
  <1>7. ASSUME NEW c \in Chars \cup Digits, CharKey(c) PROVE BufferInv'
    <2>1. CASE CharDropped(c) \/ CharAnswers(c)
      BY <1>b, <2>1 DEF CharDropped, CharAnswers, KeyIrq, Irq, work
    <2>2. CASE CharAppended(c)
      <3>1. Typed(c) \in KeyChars
        BY DEF Typed, KeyChars
      <3>2. Len(Append(con_input, Typed(c))) = Len(con_input) + 1
        BY <3>1, AppendProperties DEF StringTypes
      <3>3. request = "string" /\ bufpos < MaxLen
        BY <1>b, <2>2 DEF CharAppended, KeyIrq, Full
      <3>4. /\ con_input' = Append(con_input, Typed(c)) /\ bufpos' = bufpos + 1
            /\ request' = request /\ call' = call /\ pc' \in {"test", pc}
            /\ memlen' = memlen
        BY <2>2 DEF CharAppended, KeyIrq, Irq, work
      <3>5. /\ Len(con_input') <= bufpos'
            /\ bufpos' + Len(con_input') <= 2 * MaxLen
            /\ Len(con_input') <= MaxLen
        BY <1>b, <3>2, <3>3, <3>4
      <3> QED
        BY <3>3, <3>4, <3>5
    <2> QED
      BY <1>7, <2>1, <2>2 DEF CharKey
  <1> QED
    BY <1>1, <1>2, <1>3, <1>4, <1>5, <1>6, <1>7 DEF Next, Progress, Keyboard

\* Nothing is on the screen at first, and nothing has been returned.
LEMMA InitLine == Init => LineInv
  BY EmptySeq DEF Init, LineInv, None, Waiting, Busy

\* Every step of an attended console keeps screen, con_input and the copy the caller
\* gets in agreement (keyboard.h:31-32, 86-104).
LEMMA StepLine ==
    TypeOK /\ Control /\ BufferInv /\ LineInv /\ [Next]_vars => LineInv'
  <1> SUFFICES ASSUME TypeOK, Control, BufferInv, LineInv, [Next]_vars, attended'
               PROVE  LineInv'
    BY DEF LineInv
  <1>a. attended
    BY DEF Next, Boot, KbdGate, KbdMask, TimerGate, TimerMask, BootStep, NewCall,
           GetInput, Sleep, Die, Dead, Progress, Test, Halt, Copy, Strlen, Memset, Return,
           Keyboard, Backspace, Shift, EnterKey, KeyUp, Ignored, CharKey, CharDropped,
           CharAnswers, CharAppended, PitIrq, KeyIrq, Irq, vars
  <1>b. /\ con_input \in Seq(KeyChars) /\ line \in Seq(KeyChars)
        /\ Len(con_input) \in Nat /\ Len(line) \in Nat
        /\ Len(con_input) = 0 <=> con_input = <<>>
        /\ Len(<<>>) = 0
    BY EmptySeq, LenProperties DEF TypeOK, StringTypes
  <1> USE <1>a DEF Control, RequestHasWaiter, TypeOK, ThreadTypes, LineInv,
                   Waiting, Busy, None
  <1>1. CASE Boot
    BY <1>1 DEF Boot, KbdGate, KbdMask, TimerGate, TimerMask, BootStep, key, work
  <1>2. CASE NewCall
    BY <1>2, <1>b DEF NewCall, GetInput, Sleep, Die, Enter, key, work, BufferInv
  <1>3. CASE Test
    BY <1>3, <1>b DEF Test, KeepsWaiting, AfterWait, key
  <1>4. CASE Halt \/ Strlen \/ Memset \/ Return
    BY <1>4 DEF Halt, Strlen, Memset, Return, key, work
  <1>5. CASE Copy
    <2>1. CASE Len(line) < Len(con_input)
      <3>1. con_input[Len(line) + 1] \in KeyChars
        BY <1>b, <2>1, ElementOfSeq
      <3>2. line' = Append(line, con_input[Len(line) + 1]) /\ pc' = pc /\ pc = "copy"
            /\ call' = call /\ UNCHANGED key
        BY <1>5, <2>1 DEF Copy
      <3>3. /\ Len(line') = Len(line) + 1
            /\ \A i \in 1 .. Len(line) : line'[i] = line[i]
            /\ line'[Len(line) + 1] = con_input[Len(line) + 1]
        BY <1>b, <3>1, <3>2, AppendProperties
      <3>4. /\ Len(line') <= Len(con_input)
            /\ \A i \in 1 .. Len(line') : line'[i] = con_input[i]
        BY <1>b, <2>1, <3>2, <3>3
      <3> QED
        BY <3>2, <3>4 DEF key
    <2>2. CASE ~(Len(line) < Len(con_input))
      <3>1. pc = "copy" /\ pc' = "strlen" /\ line' = line /\ call' = call /\ UNCHANGED key
        BY <1>5, <2>2 DEF Copy
      <3>2. Len(line) = Len(con_input) /\ \A i \in 1 .. Len(line) : line[i] = con_input[i]
        BY <1>b, <2>2, <3>1
      <3>3. line = con_input
        BY <1>b, <3>2, SeqEqual
      <3> QED
        BY <3>1, <3>3 DEF key
    <2> QED
      BY <2>1, <2>2
  <1>6. CASE PitIrq \/ Dead \/ UNCHANGED vars
    BY <1>6 DEF PitIrq, Irq, Dead, vars, key, work
  <1>7. CASE Shift \/ (\E left \in BOOLEAN : KeyUp(left)) \/ \E c \in {Ctl, NUL} : Ignored(c)
    BY <1>7 DEF Shift, KeyUp, Ignored, KeyIrq, Irq, work
  <1>8. CASE EnterKey
    BY <1>8, <1>b DEF EnterKey, KeyIrq, Irq, Echo, work, BufferInv
  <1>9. CASE Backspace
    BY <1>9, <1>b DEF Backspace, KeyIrq, Irq, Echo, work, BufferInv
  <1>10. ASSUME NEW c \in Chars \cup Digits, CharKey(c) PROVE LineInv'
    <2>1. CASE CharDropped(c) \/ CharAnswers(c)
      BY <2>1 DEF CharDropped, CharAnswers, KeyIrq, Irq, work
    <2>2. CASE CharAppended(c)
      BY <2>2 DEF CharAppended, KeyIrq, Irq, Echo, work
    <2> QED
      BY <1>10, <2>1, <2>2 DEF CharKey
  <1> QED
    BY <1>1, <1>2, <1>3, <1>4, <1>5, <1>6, <1>7, <1>8, <1>9, <1>10
       DEF Next, Progress, Keyboard

-----------------------------------------------------------------------------
(* The theorems.                                                           *)

ConsoleInv == TypeOK /\ Control /\ SleepInv /\ BufferInv /\ LineInv

\* The layers hold always.
THEOREM ConsoleInvariance == Spec => []ConsoleInv
  <1>1. Init => ConsoleInv
    BY InitTypes, InitControl, InitSleep, InitBuffer, InitLine DEF ConsoleInv
  <1>2. ConsoleInv /\ [Next]_vars => ConsoleInv'
    BY StepTypes, StepControl, StepSleep, StepBuffer, StepLine DEF ConsoleInv
  <1> QED
    BY <1>1, <1>2, PTL DEF Spec

\* The variables of keyboard.h and timer.h always have their types.
THEOREM ConsoleTypes == Spec => []TypeOK
  <1>1. ConsoleInv => TypeOK
    BY DEF ConsoleInv
  <1> QED
    BY <1>1, ConsoleInvariance, PTL

\* No interrupt line is ever let through before its handler is mapped
\* (keyboard.h:16-22, timer.h:30-39).
THEOREM NoStrayInterrupt == Spec => []GatesFirst
  <1>1. ConsoleInv => GatesFirst
    BY DEF ConsoleInv, Control
  <1> QED
    BY <1>1, ConsoleInvariance, PTL

\* A second reader never finds a request open: the NULL that kbd_get_string can
\* return is never returned (keyboard.h:25-26).
THEOREM NeverNull == Spec => []RequestHasWaiter
  <1>1. ConsoleInv => RequestHasWaiter
    BY DEF ConsoleInv, Control
  <1> QED
    BY <1>1, ConsoleInvariance, PTL

\* On an attended console in_buffer never overflows, for any INPUT_MAXLEN smaller
\* than the bytes reserved, and any mix of characters and backspaces.
THEOREM BufferAlwaysFits == Spec => []BufferFits
  <1>1. ConsoleInv => BufferFits
    <2> SUFFICES ASSUME ConsoleInv, attended PROVE Len(con_input) + 1 <= BufSize
      BY DEF BufferFits
    <2>1. Len(con_input) \in Nat /\ Len(con_input) <= MaxLen
      BY EmptySeq, LenProperties, LenAssumption
         DEF ConsoleInv, TypeOK, StringTypes, BufferInv
    <2> QED
      BY <2>1, LenAssumption
  <1> QED
    BY <1>1, ConsoleInvariance, PTL

\* On an attended console a program gets the line its user saw when striking
\* Enter (keyboard.h:24-35).
THEOREM LineAlwaysExact == Spec => []EchoedIsReturned
  <1>1. ConsoleInv => EchoedIsReturned
    BY DEF ConsoleInv, LineInv, EchoedIsReturned
  <1> QED
    BY <1>1, ConsoleInvariance, PTL

\* sleep lasts as many ticks as its argument fills or starts, for every argument
\* and every width of sleep_amt (timer.h:15-27).
THEOREM SleepAlwaysExact == Spec => []SleepLength
  <1>1. ConsoleInv => SleepLength
    <2> SUFFICES ASSUME ConsoleInv, pc = "ret", call = "sleep"
                 PROVE  IF msec <= IntMax THEN msec <= 10 * ticks /\ 10 * ticks < msec + 10
                                          ELSE ticks = 0
      BY DEF SleepLength
    <2>1. /\ sleep_amt \in Int /\ ticks \in Nat /\ msec \in Nat /\ IntMax \in Nat
      BY TimeAssumption DEF ConsoleInv, TypeOK, NumberTypes
    <2> QED
      BY <2>1 DEF ConsoleInv, SleepInv, Int32
  <1> QED
    BY <1>1, ConsoleInvariance, PTL

\* Nothing happens after die: with every line masked no step is left
\* (system.h:45-55).
THEOREM DeathIsFinal == Spec => DeadForever
  <1>1. ConsoleInv /\ [Next]_vars => [pc # "dead"]_vars
    <2> SUFFICES ASSUME ConsoleInv, Next, pc = "dead" PROVE UNCHANGED vars
      OBVIOUS
    <2>1. enabled = {}
      BY DEF ConsoleInv, Control
    <2>2. ~Keyboard /\ ~PitIrq
      BY <2>1 DEF Keyboard, Backspace, Shift, EnterKey, KeyUp, Ignored, CharKey,
                  CharDropped, CharAnswers, CharAppended, KeyIrq, PitIrq, Irq
    <2>3. ~Boot /\ ~NewCall /\ ~Progress
      BY DEF Boot, KbdGate, KbdMask, TimerGate, TimerMask, BootStep, NewCall, GetInput,
             Sleep, Die, Enter, Progress, Test, Halt, Copy, Strlen, Memset, Return
    <2> QED
      BY <2>2, <2>3 DEF Next, Dead
  <1> QED
    BY <1>1, ConsoleInvariance, PTL DEF Spec, DeadForever
==============================================================================
