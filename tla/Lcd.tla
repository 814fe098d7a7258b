--------------------------------- MODULE Lcd ---------------------------------
(***************************************************************************)
(* The display and its driver.  The main loop prints texts pin by pin: one *)
(* step per pin it sets.  The handlers of the RTC and of the button print  *)
(* pages in the same way over the same pins, and preempt the main loop     *)
(* between any two of its steps, but nothing preempts them: a page is one  *)
(* step.                                                                   *)
(*                                                                         *)
(* The display is external.  It takes an instruction or a character from   *)
(* its data pins when E falls while RW is low, is busy for a while, and    *)
(* takes nothing while it is busy.                                         *)
(***************************************************************************)
EXTENDS Integers, SequencesExt

CONSTANTS
    Text,      \* a text of the main loop: LineEnd and characters
    Page,      \* a text of an interrupt handler
    LineEnd,   \* '\n'
    LineSize,  \* 16: characters of a line
    MaxPages   \* bound: how many pages the interrupts print

\* What the display takes when its data pins are not driven.
Noise == "noise"

ASSUME LcdAssumption ==
    /\ Text \in Seq(STRING) /\ Page \in Seq(STRING) /\ Page # <<>>
    /\ Noise \notin Range(Text) \cup Range(Page)
    /\ \A i, j \in DOMAIN Text : Text[i] = Text[j] => i = j    \* named by their places
    /\ Range(Text) \cap Range(Page) \subseteq {LineEnd}
    /\ LineSize \in Nat \ {0}
    /\ MaxPages \in Nat

VARIABLES
    pins,       \* RS, RW, E, whether the data pins are outputs, and their value
    lcd_busy,   \* external: the display is busy
    shown,      \* external: the characters shown since it was cleared
    shift,      \* external: how far they are shifted to the left
    settings,   \* external: the instructions of lcdInit it took
    ops,        \* what the main loop has still to write
    at,         \* where it is in writing the first of them
    busy,       \* the busy flag as read8 read it
    pages,      \* how many pages were printed
    preempted   \* history: a page was printed since the main loop began

display == <<lcd_busy, shown, shift, settings>>
printer == <<ops, at, busy>>
lcdVars == <<pins, display, printer, pages, preempted>>

Inst(i) == [rs |-> 0, val |-> i]
Char(c) == [rs |-> 1, val |-> c]
-----------------------------------------------------------------------------
(* The texts as what is written *)

\* Mutant of Shifts: the display is not shifted by the last place.
ShiftsLess(str) ==
    LET tok  == IF \E i \in DOMAIN str : str[i] = LineEnd
                THEN SelectLastInSeq(str, LAMBDA c : c = LineEnd) - 1
                ELSE Len(str)
        over == {tok - LineSize, Len(str) - tok - LineSize}
    IN  IF \A n \in over : n <= 1 THEN 0 ELSE CHOOSE n \in over : \A k \in over : k <= n

\* How often lcdPrintString shifts the display: tok is the place of the last
\* '\n', which counts as a character of the line after it.
Shifts(str) ==
    LET tok  == IF \E i \in DOMAIN str : str[i] = LineEnd
                THEN SelectLastInSeq(str, LAMBDA c : c = LineEnd) - 1
                ELSE Len(str)
        over == {tok - LineSize, Len(str) - tok - LineSize}
    IN  IF \A n \in over : n <= 0 THEN 0 ELSE CHOOSE n \in over : \A k \in over : k <= n

lcdPrintString(str) ==
    [i \in DOMAIN str |-> IF str[i] = LineEnd THEN Inst("line2") ELSE Char(str[i])]
        \o [i \in 1 .. Shifts(str) |-> Inst("shift")]

lcdClearScreen == <<Inst("clear")>>

lcdInit == <<Inst("twoLines"), Inst("on"), Inst("clear"), Inst("increment")>>

\* What the first n places of a text leave on a clear display, ...
CharactersTo(str, n) ==
    LET upto[k \in 0 .. Len(str)] ==
            IF k = 0 THEN <<>>
            ELSE IF str[k] = LineEnd THEN upto[k - 1] ELSE Append(upto[k - 1], str[k])
    IN  upto[n]

\* ... and all of it.
Characters(str) == CharactersTo(str, Len(str))

Settings == {"twoLines", "on", "increment"}
-----------------------------------------------------------------------------
(* The display: external *)

\* It takes an instruction or a character, unless it is busy.
Takes(op) ==
    IF lcd_busy THEN UNCHANGED display
    ELSE /\ lcd_busy' = TRUE
         /\ shown' = IF op.rs = 1 THEN Append(shown, op.val)
                     ELSE IF op.val = "clear" THEN <<>> ELSE shown
         /\ shift' = IF op = Inst("clear") THEN 0
                     ELSE IF op = Inst("shift") THEN shift + 1 ELSE shift
         /\ settings' = IF op.rs = 0 /\ op.val \in Settings THEN settings \cup {op.val}
                        ELSE settings

\* E falls.
Clocked ==
    IF pins.e = 1 /\ pins.rw = 0
    THEN Takes([rs |-> pins.rs, val |-> IF pins.out THEN pins.data ELSE Noise])
    ELSE UNCHANGED display

Ready ==
    /\ lcd_busy
    /\ lcd_busy' = FALSE
    /\ UNCHANGED <<pins, shown, shift, settings, printer, pages, preempted>>
-----------------------------------------------------------------------------
(* The main loop *)

Step(here, there, after) == at = here /\ at' = there /\ pins' = after

\* Whoever prints is one of dhcpc_configured, handle_input and httpd_appcall.
PrintText ==
    /\ at = "idle"
    /\ ops' = lcdClearScreen \o lcdPrintString(Text)
    /\ at' = "rs"
    /\ preempted' = FALSE
    /\ UNCHANGED <<pins, display, busy, pages>>

\* inst, write and generic_set8, up to the edge of E.
SetPins ==
    /\ \/ Step("rs", "rw", [pins EXCEPT !.rs = Head(ops).rs])
       \/ Step("rw", "out", [pins EXCEPT !.rw = 0])
       \/ Step("out", "data", [pins EXCEPT !.out = TRUE])
       \/ Step("data", "high", [pins EXCEPT !.data = Head(ops).val])
       \/ Step("high", "low", [pins EXCEPT !.e = 1])
    /\ UNCHANGED <<display, ops, busy, pages, preempted>>

Write ==
    /\ Step("low", "pollRs", [pins EXCEPT !.e = 0])
    /\ Clocked
    /\ UNCHANGED <<ops, busy, pages, preempted>>

\* read8, up to the reading.
PollPins ==
    /\ \/ Step("pollRs", "pollRw", [pins EXCEPT !.rs = 0])
       \/ Step("pollRw", "pollIn", [pins EXCEPT !.rw = 1])
       \/ Step("pollIn", "pollHigh", [pins EXCEPT !.out = FALSE])
       \/ Step("pollHigh", "pollRead", [pins EXCEPT !.e = 1])
    /\ UNCHANGED <<display, ops, busy, pages, preempted>>

\* Mutant of PollRead: the flag is read after E has fallen.
PollReadLate ==
    /\ Step("pollRead", "pollLow", pins)
    /\ busy' \in BOOLEAN
    /\ UNCHANGED <<display, ops, pages, preempted>>

\* The display drives the pins while RW and E are high; else the value is
\* what the line happens to have.
PollRead ==
    /\ Step("pollRead", "pollLow", pins)
    /\ busy' \in IF pins.e = 1 /\ pins.rw = 1 /\ ~pins.out THEN {lcd_busy} ELSE BOOLEAN
    /\ UNCHANGED <<display, ops, pages, preempted>>

\* Mutant of PollLow: what was written while the display was busy is repeated.
PollLowRepeats ==
    /\ at = "pollLow"
    /\ pins' = [pins EXCEPT !.e = 0]
    /\ Clocked
    /\ IF busy
       THEN at' = "rs" /\ UNCHANGED ops
       ELSE /\ ops' = Tail(ops)
            /\ at' = IF ops' = <<>> THEN "idle" ELSE "rs"
    /\ UNCHANGED <<busy, pages, preempted>>

\* pollBusyBit: once more, or on to what is next.
PollLow ==
    /\ at = "pollLow"
    /\ pins' = [pins EXCEPT !.e = 0]
    /\ Clocked
    /\ IF busy
       THEN at' = "pollRs" /\ UNCHANGED ops
       ELSE /\ ops' = Tail(ops)
            /\ at' = IF ops' = <<>> THEN "idle" ELSE "rs"
    /\ UNCHANGED <<busy, pages, preempted>>
-----------------------------------------------------------------------------
(* The interrupts *)

\* Mutant of PrintPage: the handler does not poll after its last character.
PrintPageUnpolled ==
    /\ Settings \subseteq settings
    /\ pages < MaxPages
    /\ pages' = pages + 1
    /\ preempted' = TRUE
    /\ shown' = (IF lcd_busy THEN shown ELSE <<>>) \o Characters(Page)
    /\ shift' = (IF lcd_busy THEN shift ELSE 0) + Shifts(Page)
    /\ lcd_busy' = TRUE
    /\ pins' = [rs |-> 1, rw |-> 0, e |-> 0, out |-> TRUE, data |-> Last(Page)]
    /\ UNCHANGED <<settings, printer>>

\* handleUPDATETIME, PrintNextAlarm: whatever the pins were, E falls with the
\* handler's first instruction, which is lost if the display is busy; the
\* handler then polls, and the rest is taken.
PrintPage ==
    /\ Settings \subseteq settings
    /\ pages < MaxPages
    /\ pages' = pages + 1
    /\ preempted' = TRUE
    /\ shown' = (IF lcd_busy THEN shown ELSE <<>>) \o Characters(Page)
    /\ shift' = (IF lcd_busy THEN shift ELSE 0) + Shifts(Page)
    /\ lcd_busy' = FALSE
    /\ pins' = [rs |-> 0, rw |-> 1, e |-> 0, out |-> FALSE,
                data |-> IF Shifts(Page) > 0 THEN "shift" ELSE Last(Page)]
    /\ UNCHANGED <<settings, printer>>
-----------------------------------------------------------------------------
LcdInit ==
    /\ pins = [rs |-> 0, rw |-> 0, e |-> 0, out |-> TRUE, data |-> Noise]
    /\ lcd_busy = FALSE
    /\ shown = <<>>
    /\ shift = 0
    /\ settings = {}
    /\ ops = lcdInit
    /\ at = "rs"
    /\ busy = FALSE
    /\ pages = 0
    /\ preempted = FALSE

lcdMain == PrintText \/ SetPins \/ Write \/ PollPins \/ PollRead \/ PollLow

LcdNext == lcdMain \/ Ready \/ PrintPage

LcdSpec == LcdInit /\ [][LcdNext]_lcdVars

\* The main loop runs, and the display is not busy for ever.
LcdFairness == WF_lcdVars(lcdMain) /\ WF_lcdVars(Ready)
-----------------------------------------------------------------------------
(* Properties *)

\* The display never takes what nobody wrote: wherever a handler cuts in, the
\* main loop's next edge of E reads the display, or writes what it meant.
NoNoise == \A i \in DOMAIN shown : shown[i] # Noise

\* A character of the main loop may be lost, but it is never shown twice, nor
\* are two of them swapped.
MainInOrder ==
    \A i, j \in DOMAIN shown, k, l \in DOMAIN Text :
        i < j /\ shown[i] = Text[k] /\ shown[j] = Text[l] => k < l

\* A text that no handler cut into is shown whole, and shifted until the end of
\* each of its two lines has been in view.
WholeText ==
    LET n    == SelectInSeq(Text, LAMBDA c : c = LineEnd)
        ends == IF n = 0 THEN {Len(Text)} ELSE {n - 1, Len(Text) - n}
    IN  at = "idle" /\ ~preempted /\ shown # <<>> =>
            /\ settings = Settings
            /\ shown = Characters(Text)
            /\ \A end \in ends : end <= LineSize + shift

\* What the handlers print over the main loop costs it characters, but leaves no
\* others behind.
DisplayInv == NoNoise /\ MainInOrder /\ WholeText

\* A page that is printed while the main loop does not print is the only text
\* on the display.
WholePage ==
    [][at = "idle" /\ pages' > pages => shown' = Characters(Page)]_lcdVars

\* The main loop's texts come to an end, whatever the handlers leave the pins in.
PrintReturns == []<>(at = "idle")
=============================================================================
