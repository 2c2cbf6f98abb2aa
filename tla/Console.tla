------------------------------- MODULE Console -------------------------------
(***************************************************************************)
(* Keyboard input, the timer and the one thread of the kernel and its      *)
(* programs (src/io/keyboard.h, timer.h, idt.h, system/system.h).          *)
(*                                                                         *)
(* The thread calls kbd_get_string, kbd_get_char, sleep or die; the        *)
(* keyboard and timer interrupt handlers run between any two of its steps, *)
(* never inside each other (their gates clear the interrupt flag).  The    *)
(* thread waits with                                                       *)
(*     while (cond) wait_int();                                            *)
(* which is three steps here: test the condition ("test"), be about to     *)
(* execute hlt ("gap"), sleep in it ("hlt") until an interrupt.            *)
(*                                                                         *)
(* A key is known by what the handler tells apart.  con_input is the       *)
(* string at in_buffer, as a sequence.                                     *)
(***************************************************************************)
EXTENDS Integers, Sequences

CONSTANTS Chars,        \* characters of keys that shift leaves alone
          Digits,       \* characters of the keys from '1' to '='
          Shifted(_),   \* keyboard_specialchars
          MaxLen,       \* INPUT_MAXLEN (128)
          BufSize,      \* bytes reserved for in_buffer (130)
          Msecs,        \* arguments of sleep
          IntMax,       \* the largest int32_t
          TickWord,     \* number of values of kticks (2^64)
          MaxBuf        \* bound: with type-ahead, con_input grows no longer than this

ASSUME LenAssumption  == MaxLen \in Nat \ {0} /\ BufSize \in Nat /\ BufSize > MaxLen
ASSUME TimeAssumption == /\ Msecs \subseteq Nat /\ IntMax \in Nat
                         /\ \A m \in Msecs : m <= 2 * IntMax + 1
                         /\ TickWord \in Nat \ {0}
ASSUME KeyAssumption  == "" \notin Chars \cup Digits /\ \A d \in Digits : Shifted(d) # ""
ASSUME BoundAssumption == MaxBuf \in Nat

VARIABLES pc,           \* where the thread is
          call,         \* the kernel call it is in
          request,      \* what the keyboard handler is asked for
          con_input, bufpos, keychar, shift_down,
          line,         \* what strcpy has copied to the caller's buffer
          memlen,       \* the length clearchar has computed for memset
          sleep_amt, kticks,
          gates,        \* IDT entries that lead to a handler
          enabled,      \* interrupt lines the PIC lets through
          attended,     \* keys are struck only while the thread waits for one
          shown,        \* characters echoed on the line being typed (history)
          entered,      \* what was shown when Enter ended the line (history)
          msec, ticks   \* the argument of sleep, and the ticks it counted (history)

key   == <<request, con_input, bufpos, keychar, shift_down, shown, entered>>
timer == <<sleep_amt, kticks, ticks>>
irq   == <<gates, enabled>>
work  == <<line, memlen>>
vars  == <<pc, call, key, timer, irq, work, attended, msec>>

Waiting == {"test", "gap", "hlt"}
None    == "none"
NUL     == ""
Ctl     == "ctl"         \* '\b', '\n', KEY_SHIFT or an arrow, which nobody tells apart

Init == /\ pc = "kbd_gate" /\ call = None
        /\ request = None /\ con_input = <<>> /\ bufpos = 0 /\ keychar = NUL
        /\ shift_down = FALSE /\ shown = <<>> /\ entered = <<>>
        /\ line = <<>> /\ memlen = 0
        /\ sleep_amt = 0 /\ kticks = 0 /\ ticks = 0 /\ msec = 0
        /\ gates = {} /\ enabled = {}
        /\ attended \in BOOLEAN

-----------------------------------------------------------------------------
(* kbd_init and timer_init: map the handler, then unmask its line.         *)

BootStep(from, to) == pc = from /\ pc' = to /\ UNCHANGED <<call, key, timer, work, attended, msec>>

\* Wrong: unmasks the keyboard's line before its gate is there.
KbdUnmaskFirst == BootStep("kbd_gate", "kbd_mask")
                  /\ enabled' = enabled \cup {"kbd"} /\ UNCHANGED gates

\* Wrong: leaves the timer's line masked.
TimerStaysMasked == BootStep("pit_mask", "run")
                    /\ enabled' = {"kbd"} /\ UNCHANGED gates

KbdGate == BootStep("kbd_gate", "kbd_mask")
           /\ gates' = gates \cup {"kbd"} /\ UNCHANGED enabled

KbdMask == BootStep("kbd_mask", "pit_gate")
           /\ enabled' = {"kbd"} /\ UNCHANGED gates

TimerGate == BootStep("pit_gate", "pit_mask")
             /\ gates' = gates \cup {"timer"} /\ UNCHANGED enabled

TimerMask == BootStep("pit_mask", "run")
             /\ enabled' = {"kbd", "timer"} /\ UNCHANGED gates

-----------------------------------------------------------------------------
(* Calls of the thread.                                                    *)

Enter(c) == pc = "run" /\ pc' = "test" /\ call' = c

\* kbd_get_string and kbd_get_char.  Neither gets past `if (request)` while a
\* request is open.
GetInput(c) ==
    /\ Enter(c)
    /\ request = None
    /\ request' = c
    /\ UNCHANGED <<con_input, bufpos, keychar, shift_down, shown, entered,
                   timer, irq, work, attended, msec>>

\* The argument is a uint32_t, sleep_amt an int32_t.
Int32(m) == IF m > IntMax THEN m - 2 * (IntMax + 1) ELSE m

\* Wrong: adds to what an earlier sleep has left in sleep_amt.
SleepAccumulates(m) ==
    /\ Enter("sleep")
    /\ sleep_amt' = sleep_amt + Int32(m)
    /\ msec' = m /\ ticks' = 0
    /\ UNCHANGED <<key, kticks, irq, work, attended>>

Sleep(m) ==
    /\ Enter("sleep")
    /\ sleep_amt' = Int32(m)
    /\ msec' = m /\ ticks' = 0
    /\ UNCHANGED <<key, kticks, irq, work, attended>>

\* Wrong: halts without masking the interrupts.
DieUnmasked ==
    /\ pc = "run" /\ pc' = "dead" /\ call' = "die"
    /\ UNCHANGED <<key, timer, irq, work, attended, msec>>

\* int_off, then the one hlt that no interrupt will end.
Die ==
    /\ pc = "run" /\ pc' = "dead" /\ call' = "die"
    /\ enabled' = {}
    /\ UNCHANGED <<key, timer, gates, work, attended, msec>>

Dead == pc = "dead" /\ UNCHANGED vars

-----------------------------------------------------------------------------
(* Waiting.                                                                *)

\* Wrong: the keyboard calls do not wait at all.
WaitsForSleepOnly == IF call = "sleep" THEN sleep_amt > 0 ELSE FALSE

KeepsWaiting == IF call = "sleep" THEN sleep_amt > 0 ELSE request # None

AfterWait == IF call = "string" THEN "copy" ELSE "ret"

Test == /\ pc = "test"
        /\ pc' = IF KeepsWaiting THEN "gap" ELSE AfterWait
        /\ line' = IF pc' = "copy" THEN <<>> ELSE line
        /\ UNCHANGED <<call, key, timer, irq, memlen, attended, msec>>

Halt == /\ pc = "gap" /\ pc' = "hlt"
        /\ UNCHANGED <<call, key, timer, irq, work, attended, msec>>

-----------------------------------------------------------------------------
(* The end of a call.  strcpy reads con_input byte by byte while the        *)
(* handler may still change it; clearchar computes a length, then clears    *)
(* that many bytes, which makes the string empty unless the length is 0.    *)

Copy == /\ pc = "copy"
        /\ IF Len(line) < Len(con_input)
           THEN line' = Append(line, con_input[Len(line) + 1]) /\ pc' = pc
           ELSE pc' = "strlen" /\ UNCHANGED line
        /\ UNCHANGED <<call, key, timer, irq, memlen, attended, msec>>

Strlen == /\ pc = "strlen" /\ pc' = "memset"
          /\ memlen' = Len(con_input)
          /\ UNCHANGED <<call, key, timer, irq, line, attended, msec>>

\* Wrong: con_input keeps the line that has been returned.
MemsetNothing == /\ pc = "memset" /\ pc' = "ret"
                 /\ UNCHANGED <<call, key, timer, irq, work, attended, msec>>

Memset == /\ pc = "memset" /\ pc' = "ret"
          /\ con_input' = IF memlen = 0 THEN con_input ELSE <<>>
          /\ UNCHANGED <<call, request, bufpos, keychar, shift_down, shown, entered,
                         timer, irq, work, attended, msec>>

Return == /\ pc = "ret" /\ pc' = "run" /\ call' = None
          /\ line' = <<>> /\ memlen' = 0
          /\ entered' = <<>> /\ msec' = 0 /\ ticks' = 0
          /\ UNCHANGED <<request, con_input, bufpos, keychar, shift_down, shown,
                         sleep_amt, kticks, irq, attended>>

-----------------------------------------------------------------------------
(* Interrupts.  Any of them ends a hlt.                                    *)

Irq(l) == /\ l \in enabled
          /\ pc' = IF pc = "hlt" THEN "test" ELSE pc
          /\ UNCHANGED <<call, irq, work, attended, msec>>

\* keyboard_handler_main, entered with a byte from the keyboard
KeyIrq == /\ Irq("kbd")
          /\ attended => request # None
          /\ UNCHANGED timer

\* What a backspace leaves of a string.
Chop(s) == IF s = <<>> THEN s ELSE SubSeq(s, 1, Len(s) - 1)

\* The history of the screen is kept for attended consoles only.
Echo(s) == IF attended THEN s ELSE <<>>

\* Wrong: a backspace lets MaxLen more characters in.
BackspaceResets ==
    /\ KeyIrq
    /\ keychar' = Ctl
    /\ IF Len(con_input) > 0
       THEN /\ con_input' = Chop(con_input)
            /\ bufpos' = 0
            /\ shown' = Echo(Chop(shown))
       ELSE UNCHANGED <<con_input, bufpos, shown>>
    /\ UNCHANGED <<request, shift_down, entered>>

Backspace ==
    /\ KeyIrq
    /\ keychar' = Ctl
    /\ IF Len(con_input) > 0
       THEN /\ con_input' = Chop(con_input)
            /\ bufpos' = bufpos + 1
            /\ shown' = Echo(Chop(shown))
       ELSE UNCHANGED <<con_input, bufpos, shown>>
    /\ UNCHANGED <<request, shift_down, entered>>

\* A key is released.  Only the left shift's code is looked for.
KeyUp(left) ==
    /\ KeyIrq
    /\ keychar' = NUL
    /\ shift_down' = IF left THEN FALSE ELSE shift_down
    /\ UNCHANGED <<request, con_input, bufpos, shown, entered>>

\* Either shift key goes down.
Shift ==
    /\ KeyIrq
    /\ keychar' = Ctl
    /\ shift_down' = TRUE
    /\ UNCHANGED <<request, con_input, bufpos, shown, entered>>

\* An arrow, or a key without a character: keychar is all it changes.
Ignored(c) ==
    /\ KeyIrq
    /\ keychar' = c
    /\ UNCHANGED <<request, con_input, bufpos, shift_down, shown, entered>>

EnterKey ==
    /\ KeyIrq
    /\ keychar' = Ctl
    /\ request' = None
    /\ bufpos' = 0
    /\ entered' = shown /\ shown' = Echo(<<>>)
    /\ UNCHANGED <<con_input, shift_down>>

Typed(c) == IF shift_down /\ c \in Digits THEN Shifted(c) ELSE c

Full == bufpos >= MaxLen

CharDropped(c) ==
    /\ KeyIrq /\ Full
    /\ keychar' = Typed(c)
    /\ UNCHANGED <<request, con_input, bufpos, shift_down, shown, entered>>

CharAnswers(c) ==
    /\ KeyIrq /\ ~Full
    /\ request = "char"
    /\ keychar' = Typed(c)
    /\ request' = None
    /\ bufpos' = 0
    /\ UNCHANGED <<con_input, shift_down, shown, entered>>

CharAppended(c) ==
    /\ KeyIrq /\ ~Full
    /\ request # "char"
    /\ attended \/ Len(con_input) < MaxBuf
    /\ keychar' = Typed(c)
    /\ bufpos' = bufpos + 1
    /\ con_input' = Append(con_input, Typed(c))
    /\ shown' = Echo(Append(shown, Typed(c)))
    /\ UNCHANGED <<request, shift_down, entered>>

CharKey(c) == CharDropped(c) \/ CharAnswers(c) \/ CharAppended(c)

\* Wrong: the tick counter does not wrap.
PitIrqUnbounded ==
    /\ Irq("timer")
    /\ kticks' = kticks + 1
    /\ IF sleep_amt > 0 THEN sleep_amt' = sleep_amt - 10 /\ ticks' = ticks + 1
                        ELSE UNCHANGED <<sleep_amt, ticks>>
    /\ UNCHANGED key

\* pit_handler_main
PitIrq ==
    /\ Irq("timer")
    /\ kticks' = (kticks + 1) % TickWord
    /\ IF sleep_amt > 0 THEN sleep_amt' = sleep_amt - 10 /\ ticks' = ticks + 1
                        ELSE UNCHANGED <<sleep_amt, ticks>>
    /\ UNCHANGED key

-----------------------------------------------------------------------------
Boot     == KbdGate \/ KbdMask \/ TimerGate \/ TimerMask
NewCall  == \/ \E c \in {"string", "char"} : GetInput(c)
            \/ \E m \in Msecs : Sleep(m)
            \/ Die
Progress == Test \/ Halt \/ Copy \/ Strlen \/ Memset \/ Return
Keyboard == \/ Backspace \/ Shift \/ EnterKey
            \/ \E left \in BOOLEAN : KeyUp(left)
            \/ \E c \in {Ctl, NUL} : Ignored(c)
            \/ \E c \in Chars \cup Digits : CharKey(c)

Next == Boot \/ NewCall \/ Progress \/ Dead \/ Keyboard \/ PitIrq

\* The processor goes on with the thread whenever no handler runs, and the PIT
\* interrupts every 10 ms.  Nothing is assumed of whoever is typing.
Fairness == WF_vars(Boot) /\ WF_vars(Progress) /\ WF_vars(PitIrq)

Spec == Init /\ [][Next]_vars /\ Fairness

-----------------------------------------------------------------------------
(* Properties                                                              *)

KeyChars == Chars \cup Digits \cup {Shifted(d) : d \in Digits}

ThreadTypes ==
    /\ pc \in {"kbd_gate", "kbd_mask", "pit_gate", "pit_mask", "run", "dead",
              "copy", "strlen", "memset", "ret"} \cup Waiting
    /\ call \in {None, "string", "char", "sleep", "die"}
    /\ request \in {None, "string", "char"}

StringTypes ==
    /\ con_input \in Seq(KeyChars) /\ line \in Seq(KeyChars)
    /\ shown \in Seq(KeyChars) /\ entered \in Seq(KeyChars)

NumberTypes ==
    /\ bufpos \in Nat /\ memlen \in Nat
    /\ sleep_amt \in Int /\ kticks \in 0 .. TickWord - 1
    /\ ticks \in Nat /\ msec \in Nat

KeyTypes ==
    /\ keychar \in KeyChars \cup {NUL, Ctl}
    /\ shift_down \in BOOLEAN /\ attended \in BOOLEAN

IrqTypes == gates \subseteq {"kbd", "timer"} /\ enabled \subseteq {"kbd", "timer"}

TypeOK == ThreadTypes /\ StringTypes /\ NumberTypes /\ KeyTypes /\ IrqTypes

\* No interrupt reaches the processor before its IDT entry leads to a handler:
\* kbd_init and timer_init map first and unmask afterwards (keyboard.h:18-20,
\* timer.h:31-38), with interrupts on since load_idt.
GatesFirst == enabled \subseteq gates

\* A request is open only while the thread that made it waits for the answer, so
\* the early returns of kbd_get_string and kbd_get_char (keyboard.h:25, 38) are
\* never taken, whatever keys are struck at whatever moment.
RequestHasWaiter == request # None => call = request /\ pc \in Waiting

\* When keys are struck only while a program waits, con_input and its NUL stay
\* inside in_buffer, although a backspace moves bufpos the wrong way
\* (keyboard.h:63) and so the check of keyboard.h:94 counts keys, not characters.
BufferFits == attended => Len(con_input) + 1 <= BufSize

\* And then kbd_get_string hands its caller the line that was on the screen when
\* Enter was struck, no more and no less (keyboard.h:28-34, 86-104).
EchoedIsReturned == attended /\ pc = "ret" /\ call = "string" => line = entered

\* sleep(msec) counts the number of 10 ms ticks that msec fills or starts; an
\* argument that does not fit sleep_amt returns at once (timer.h:15-27).
SleepLength ==
    pc = "ret" /\ call = "sleep" =>
        IF msec <= IntMax THEN msec <= 10 * ticks /\ 10 * ticks < msec + 10
                          ELSE ticks = 0

\* die never comes back and nothing happens after it: every line is masked before
\* the hlt (system.h:45-55, idt.h:52-54).
DeadForever == [][pc # "dead"]_vars

\* A caller whose request has been answered returns, even when the answer came
\* between its test of `request` and its hlt (keyboard.h:29-30, 42-43): the next
\* tick wakes it.
AnsweredReturns == (call \in {"string", "char"} /\ request = None) ~> call = None

\* sleep returns (timer.h:15-20).
SleepEnds == call = "sleep" ~> call = None

\* in_buffer is as large as what is stored in it (the comment of keyboard.h:6
\* counts INPUT_MAXLEN characters and a NUL).
BufferNeverOverflows == Len(con_input) + 1 <= BufSize

\* A program that waits for any key goes on when a key with a character is
\* struck ("Press any key to continue...", programs/drawtest.c:22).
AnyKeyAnswers ==
    [][\A c \in Chars \cup Digits :
         CharKey(c) /\ request = "char" => request' = None]_vars
==============================================================================
