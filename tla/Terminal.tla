------------------------------ MODULE Terminal ------------------------------
(***************************************************************************)
(* The text screen (src/screen/terminal.h), written by the thread and by   *)
(* the keyboard handler, which echoes keys through the same term_putchar.  *)
(*                                                                         *)
(* The handler's call is one step, since nothing interrupts it.  The       *)
(* thread's is cut wherever it loads or stores term_row or term_column,    *)
(* `reg` being the register in between, and the handler may run at each    *)
(* cut.  term_column is a size_t: -1 here is its value 2^32 - 1, and so on *)
(* down.  Row 0 is the status bar, the rows SCREEN_START .. Height - 1     *)
(* hold text, and row Height is a blank one that scrolling copies.         *)
(*                                                                         *)
(* `quiet` machines get no key while the thread prints.  For them `cells`  *)
(* is the content of the screen and `lines` the text it should show, both  *)
(* followed as long as `plain` says that nothing but text is printed.      *)
(***************************************************************************)
EXTENDS Integers, Sequences, SequencesExt

CONSTANTS Width, Height,    \* VGA_WIDTH (90) and VGA_HEIGHT (29)
          Glyphs,           \* printing characters
          Texts,            \* what programs print, sequences of Glyphs and NL
          Titles,           \* lengths of titles
          Spots,            \* <<x, y>> programs draw at
          MaxTyped,         \* bound: characters in con_input
          MaxKeys           \* bound: keys that come when the machine is not quiet

NL     == "nl"
BS     == "bs"
BLANK  == " "
Prompt == ">"
SCREEN_START == 1
pmtlen == 1

ASSUME SizeAssumption == /\ Width \in Nat /\ Height \in Nat /\ MaxTyped \in Nat /\ MaxKeys \in Nat
                         /\ Width > 1 /\ Height > SCREEN_START + 2
ASSUME TextAssumption == /\ {NL, BS} \cap Glyphs = {}
                         /\ Texts \subseteq Seq(Glyphs \cup {NL})
                         /\ Titles \subseteq 1 .. Width
                         /\ Spots \subseteq (0 .. Width - 1) \X (0 .. Height)

VARIABLES term_row, term_column, scroll_term, lastrow, lastcol,
          pc,               \* where the thread is
          call, text,       \* the call it is in, and what it has still to print
          target,           \* the place a draw or a title goes to
          x, y, reg,        \* arguments of term_putentryat, and a register
          typed,            \* length of con_input
          keys,             \* keys that came so far, not counted when quiet (history)
          slips,            \* keys echoed off the row that went further off (history)
          quiet, cells,
          lines, plain      \* the text since the last term_cls, and whether the
                            \* screen should show it (history)

cursor == <<term_row, term_column>>
saved  == <<lastrow, lastcol, target>>
regs   == <<x, y, reg>>
screen == <<cells, lines, plain>>
vars   == <<cursor, scroll_term, saved, pc, call, text, regs, typed, keys, slips, quiet, screen>>

TextRows == SCREEN_START .. Height - 1
Places   == 0 .. Width * (Height + 1) - 1
Index(c, r) == r * Width + c

Blank == [p \in Places |-> BLANK]

\* console_init has cleared the screen.  What it wrote to the status bar is left out.
Init == /\ term_row = SCREEN_START /\ term_column = 0 /\ scroll_term = TRUE
        /\ lastrow = 0 /\ lastcol = 0 /\ target = <<0, 0>>
        /\ pc = "idle" /\ call = "none" /\ text = <<>>
        /\ x = 0 /\ y = 0 /\ reg = 0
        /\ typed = 0 /\ keys = 0 /\ slips = 0
        /\ quiet \in BOOLEAN
        /\ cells = Blank /\ lines = <<<<>>>> /\ plain = quiet

-----------------------------------------------------------------------------
(* term_putentryat and term_putchar, on a cursor t = <<row, column>>.       *)

\* term_column > pmtlen, unsigned.
RightOfPrompt(c) == c < 0 \/ c > pmtlen

\* Wrong: a backspace at the prompt goes on to the left.
EnteredUnguarded(ch, t) ==
    CASE ch = NL    -> <<t[1] + 1, -1>>
      [] ch = BS    -> <<t[1], t[2] - 2>>
      [] OTHER      -> t

\* Where the cursor is after term_putentryat.
Entered(ch, t) ==
    CASE ch = NL                            -> <<t[1] + 1, -1>>
      [] ch = BS /\ RightOfPrompt(t[2])     -> <<t[1], t[2] - 2>>
      [] OTHER                              -> t

\* ++term_column, and the next row at the end of this one.
Advanced(t) == IF t[2] + 1 = Width THEN <<t[1] + 1, 0>> ELSE <<t[1], t[2] + 1>>

\* One row up when the last text row is full.
Raised(t) == IF t[1] > Height - 1 THEN <<t[1] - 1, t[2]>> ELSE t

\* The screen after term_putentryat has stored at (c, r), if it stores at all.
Shown(f, ch, c, r) ==
    CASE ch = NL                        -> f
      [] ch = BS /\ RightOfPrompt(c)    -> [f EXCEPT ![Index(c - 1, r)] = BLANK]
      [] ch = BS /\ ~RightOfPrompt(c)   -> f
      [] OTHER                          -> [f EXCEPT ![Index(c, r)] = ch]

\* Wrong: the row below the text is not copied, and the last line stays.
ScrolledShort(f) ==
    [p \in Places |-> IF p >= Index(0, SCREEN_START) /\ p < Index(0, Height - 1)
                      THEN f[p + Width] ELSE f[p]]

\* term_scroll: every text row is replaced by the one below it.
Scrolled(f) ==
    [p \in Places |-> IF p >= Index(0, SCREEN_START) /\ p < Index(0, Height)
                      THEN f[p + Width] ELSE f[p]]

-----------------------------------------------------------------------------
(* What the screen should show: lines of text, the last one being written,  *)
(* as many of the last ones as there are text rows.                         *)

LastLines(ls) == IF Len(ls) > Height - SCREEN_START THEN Tail(ls) ELSE ls

Printed(ls, ch) ==
    LET line == Last(ls)
    IN  CASE ch = NL -> LastLines(Append(ls, <<>>))
          [] ch = BS -> IF line = <<>> THEN ls ELSE Append(Front(ls), Front(line))
          [] OTHER   -> LET more == Append(Front(ls), Append(line, ch))
                        IN  IF Len(line) + 1 = Width THEN LastLines(Append(more, <<>>))
                                                     ELSE more

\* A backspace is one the terminal can follow: right of the prompt's column, on
\* the line the key was echoed to.
Follows(ch) == ch = BS => Len(Last(lines)) > pmtlen

\* Screen and text are followed while they should agree.
Track(f, ls, agree) ==
    /\ plain' = (plain /\ agree)
    /\ cells' = IF plain' THEN f ELSE Blank
    /\ lines' = IF plain' THEN ls ELSE <<<<>>>>

-----------------------------------------------------------------------------
(* The keyboard handler's call of term_putchar.                            *)

\* The key finds the column left of the row and is a backspace, or behind its end and
\* is a character: neither test of the column sees that it is off the row.
Slips(ch) == \/ ch = BS /\ term_column < 0
             \/ ch \notin {NL, BS} /\ term_column >= Width

Echo(ch) ==
    LET t == Advanced(Entered(ch, cursor))
    IN  /\ term_row' = Raised(t)[1] /\ term_column' = Raised(t)[2]
        /\ slips' = IF Slips(ch) THEN slips + 1 ELSE slips
        /\ LET f == Shown(cells, ch, term_column, term_row)
           IN  Track(IF t[1] > Height - 1 THEN Scrolled(f) ELSE f,
                     Printed(lines, ch), scroll_term /\ Follows(ch))
        /\ UNCHANGED <<scroll_term, saved, call, text, regs, quiet>>

\* The next key may come now.
Interrupts == (quiet => pc = "read") /\ keys < MaxKeys /\ keys' = IF quiet THEN 0 ELSE keys + 1

\* A character key that is put into con_input, and a backspace that takes one out.
TypeKey(ch) == /\ Interrupts /\ typed < MaxTyped
               /\ Echo(ch) /\ typed' = typed + 1 /\ UNCHANGED pc

BackspaceKey == /\ Interrupts /\ typed > 0
                /\ Echo(BS) /\ typed' = typed - 1 /\ UNCHANGED pc

\* Enter while the thread prints, and the one that ends kbd_get_string, which
\* empties con_input and is always awaited.
EnterKey == /\ Interrupts /\ pc # "read"
            /\ Echo(NL) /\ UNCHANGED <<typed, pc>>

EndLine == /\ pc = "read" /\ pc' = "idle"
           /\ Echo(NL) /\ typed' = 0 /\ UNCHANGED keys

-----------------------------------------------------------------------------
(* The thread inside term_putchar.                                         *)

Goto(from, to) == /\ pc = from /\ pc' = to
                  /\ call' = IF to = "idle" THEN "none" ELSE call
                  /\ UNCHANGED <<typed, keys, slips, quiet, scroll_term>>

\* The arguments of term_putentryat are pushed one after the other.
FetchRow    == Goto("row?", "column?") /\ y' = term_row
               /\ UNCHANGED <<cursor, saved, text, x, reg, screen>>

FetchColumn == Goto("column?", "entry") /\ x' = term_column
               /\ UNCHANGED <<cursor, saved, text, y, reg, screen>>

Entry ==
    LET ch == Head(text)
    IN  /\ Goto("entry", IF ch = NL THEN "newline" ELSE "inc")
        /\ term_row' = IF ch = NL THEN term_row + 1 ELSE term_row
        /\ Track(Shown(cells, ch, x, y),
                 IF call \in {"write", "prompt"} THEN Printed(lines, ch) ELSE lines,
                 /\ call = "draw" => y = 0
                 /\ call \in {"write", "prompt"} => scroll_term)
        /\ x' = 0 /\ y' = 0
        /\ UNCHANGED <<term_column, saved, text, reg>>

Newline == Goto("newline", "inc") /\ term_column' = -1
           /\ UNCHANGED <<term_row, saved, text, regs, screen>>

Inc == Goto("inc", "wrap") /\ reg' = term_column + 1
       /\ UNCHANGED <<cursor, saved, text, x, y, screen>>

Wrap == /\ Goto("wrap", IF reg = Width THEN "home" ELSE "test")
        /\ term_column' = reg
        /\ UNCHANGED <<term_row, saved, text, regs, screen>>

Home == Goto("home", "nextrow") /\ term_column' = 0
        /\ UNCHANGED <<term_row, saved, text, regs, screen>>

NextRow == Goto("nextrow", "test") /\ term_row' = term_row + 1
           /\ UNCHANGED <<term_column, saved, text, regs, screen>>

Test == Goto("test", "raise") /\ reg' = term_row
        /\ UNCHANGED <<cursor, saved, text, x, y, screen>>

\* The end of term_putchar: the next character, or what follows the text.
AfterText == IF Len(text) > 1 THEN "row?"
             ELSE CASE call = "draw"    -> "column<"
                    [] call = "title"   -> "row<"
                    [] call = "prompt"  -> "read"
                    [] call = "ls"      -> "undo"
                    [] OTHER            -> "idle"

\* Wrong: scrolls without going back to the last text row.
RaiseNothing ==
    /\ Goto("raise", AfterText)
    /\ text' = Tail(text)
    /\ reg' = 0 /\ UNCHANGED <<cursor, saved, x, y, screen>>

\* term_row-- works on the register or on the variable, whichever the compiler chose.
Raise ==
    /\ Goto("raise", AfterText)
    /\ text' = Tail(text)
    /\ IF reg > Height - 1
       THEN term_row' \in {reg - 1, term_row - 1} /\ Track(Scrolled(cells), lines, scroll_term)
       ELSE UNCHANGED <<term_row, screen>>
    /\ reg' = 0
    /\ UNCHANGED <<term_column, saved, x, y>>

Putchar == FetchRow \/ FetchColumn \/ Entry \/ Newline \/ Inc \/ Wrap \/ Home
           \/ NextRow \/ Test \/ Raise

-----------------------------------------------------------------------------
(* The thread's calls.                                                     *)

Start(c, step) == pc = "idle" /\ pc' = step /\ call' = c
                  /\ UNCHANGED <<cursor, lastrow, lastcol, regs, typed, keys, slips, quiet>>

\* term_writestring, printf
Write(t) == /\ Start("write", "row?") /\ text' = t /\ t # <<>>
            /\ UNCHANGED <<scroll_term, target, screen>>

\* prompt, then kbd_get_string.  The text of the shell's own.
PromptText == IF term_row # SCREEN_START THEN <<NL, Prompt>> ELSE <<Prompt>>

ReadLine == /\ Start("prompt", "row?") /\ text' = PromptText
            /\ UNCHANGED <<scroll_term, target, screen>>

\* A listing, and at its end term_undo_nl, which sets the row, then the column.
List == /\ Start("ls", "row?") /\ \E g \in Glyphs : text' = <<g, NL>>
        /\ Track(cells, lines, FALSE)
        /\ UNCHANGED <<scroll_term, target>>

UndoNl == Goto("undo", "undo2") /\ term_row' = term_row - 1
          /\ UNCHANGED <<term_column, saved, text, regs, screen>>

UndoColumn == Goto("undo2", "idle") /\ term_column' = 0
              /\ UNCHANGED <<term_row, saved, text, regs, screen>>

SetScroll(b) == /\ Start("scroll", "idle") /\ scroll_term' = b
                /\ UNCHANGED <<text, target, screen>>

\* term_cls sets the row, then the column, and blanks the rows below the status bar.
Cls == /\ Start("cls", "cls")
       /\ UNCHANGED <<scroll_term, text, target, screen>>

ClsRow == Goto("cls", "cls2") /\ term_row' = SCREEN_START
          /\ UNCHANGED <<term_column, saved, text, regs, screen>>

ClsRest == /\ Goto("cls2", "idle")
           /\ term_column' = 0
           /\ cells' = [p \in Places |-> IF p < Index(0, SCREEN_START) THEN cells[p] ELSE BLANK]
           /\ lines' = <<<<>>>> /\ plain' = quiet
           /\ UNCHANGED <<term_row, saved, text, regs>>

\* draw and term_set_title save the cursor, move it, print, and put it back.
Draw(s) == /\ Start("draw", "column>") /\ target' = s /\ text' = <<"#">>
           /\ UNCHANGED <<scroll_term, screen>>

Title(n) == /\ Start("title", "column>") /\ target' = <<Width - n, 0>>
            /\ text' = [i \in 1 .. n |-> "#"]
            /\ UNCHANGED <<scroll_term, screen>>

SaveColumn == Goto("column>", "row>") /\ lastcol' = term_column
              /\ UNCHANGED <<cursor, lastrow, target, text, regs, screen>>

SaveRow == Goto("row>", "moverow") /\ lastrow' = term_row
           /\ UNCHANGED <<cursor, lastcol, target, text, regs, screen>>

MoveRow == Goto("moverow", "movecolumn") /\ term_row' = target[2]
           /\ UNCHANGED <<term_column, saved, text, regs, screen>>

MoveColumn == Goto("movecolumn", "row?") /\ term_column' = target[1] /\ target' = <<0, 0>>
              /\ UNCHANGED <<term_row, lastrow, lastcol, text, regs, screen>>

\* Wrong: the row is not restored behind the title.
RowStays == Goto("row<", IF call = "draw" THEN "idle" ELSE "column<")
            /\ UNCHANGED <<cursor, saved, text, regs, screen>>

\* statusbar_rev restores the row first, draw the column.  What was saved is not
\* read again and is forgotten here.
RowBack == Goto("row<", IF call = "draw" THEN "idle" ELSE "column<")
           /\ term_row' = lastrow
           /\ lastrow' = 0
           /\ UNCHANGED <<term_column, lastcol, target, text, regs, screen>>

ColumnBack == Goto("column<", IF call = "draw" THEN "row<" ELSE "idle")
              /\ term_column' = lastcol
              /\ lastcol' = 0
              /\ UNCHANGED <<term_row, lastrow, target, text, regs, screen>>

Calls == \/ \E t \in Texts : Write(t)
         \/ ReadLine \/ List \/ Cls
         \/ \E b \in BOOLEAN : SetScroll(b)
         \/ \E s \in Spots : Draw(s)
         \/ \E n \in Titles : Title(n)

Thread == \/ Calls \/ Putchar \/ UndoNl \/ UndoColumn \/ ClsRow \/ ClsRest
          \/ SaveColumn \/ SaveRow \/ MoveRow \/ MoveColumn \/ RowBack \/ ColumnBack

Keys == (\E g \in Glyphs : TypeKey(g)) \/ BackspaceKey \/ EnterKey \/ EndLine

Next == Thread \/ Keys

Spec == Init /\ [][Next]_vars

-----------------------------------------------------------------------------
(* Properties                                                              *)

Steps == {"idle", "read", "row?", "column?", "entry", "newline", "inc", "wrap", "home",
          "nextrow", "test", "raise", "undo", "undo2", "cls", "cls2", "column>",
          "row>", "moverow", "movecolumn", "row<", "column<"}

AllGlyphs == Glyphs \cup {BLANK, Prompt, "#"}

TypeOK == /\ term_row \in 0 .. Height + 1 /\ term_column \in Int
          /\ scroll_term \in BOOLEAN
          /\ lastrow \in Int /\ lastcol \in Int
          /\ pc \in Steps
          /\ text \in Seq(AllGlyphs \cup {NL})
          /\ x \in Int /\ y \in Int /\ reg \in Int
          /\ typed \in 0 .. MaxTyped /\ keys \in 0 .. MaxKeys /\ slips \in Nat
          /\ quiet \in BOOLEAN /\ plain \in BOOLEAN
          /\ cells \in [Places -> AllGlyphs]
          /\ lines \in Seq(Seq(AllGlyphs))

\* At most n cells away from the rows of the screen and two more, of which the first is
\* the blank one.
Near(n, c, r) == -n <= Index(c, r) /\ Index(c, r) < Width * (Height + 2) + n

\* No index is checked (terminal.h:142-143).  Wherever in the thread's output a key
\* comes, its echo is stored in video memory unless a key has slipped off the row: a
\* backspace echoed while term_column is -1, between terminal.h:131 and :151, or a
\* character between :151 and :152.  Each such key lets echoes go one cell further, and
\* no more.  A column left of the row stays there until characters have made up for it or
\* a line has ended, and what is then echoed while the thread is in row 0, the status
\* bar, is stored before term_buffer.  What the thread itself prints is stored in the
\* screen's rows as long as no more keys have slipped than a row has columns.
StoresNearScreen ==
    /\ Near(slips, term_column, term_row)
    /\ RightOfPrompt(term_column) =>
          Near(IF term_column < 0 THEN slips + 1 ELSE slips, term_column - 1, term_row)
    /\ pc = "entry" /\ slips <= Width => Index(x, y) \in Places

\* Between two calls the cursor stands on a text row and before its end, whatever
\* updates of term_row and term_column the echo of keys has undone, and left of the row
\* by no more than a cell for every key that slipped
\* (terminal.h:130-131, 151-157, 172-182, 186-194).
CursorSettles ==
    pc \in {"idle", "read"} =>
        /\ term_row \in TextRows
        /\ -slips <= term_column /\ term_column < Width

\* When no key comes between, the text rows show the last lines of what was printed
\* and typed since the screen was cleared, broken at the screen's width, and the
\* cursor is at their end; titles leave no trace.  This holds until something is
\* drawn over the text, printed with scrolling off, or a backspace meets the
\* prompt's column, as at the start of a wrapped line (terminal.h:102-167, 217-231).
ScreenShowsText ==
    plain /\ pc \in {"idle", "read"} =>
        /\ term_row = Len(lines) + SCREEN_START - 1
        /\ term_column = Len(Last(lines))
        /\ \A r \in TextRows, c \in 0 .. Width - 1 :
              cells[Index(c, r)] =
                 LET i == r - SCREEN_START + 1
                 IN  IF i <= Len(lines) /\ c < Len(lines[i]) THEN lines[i][c + 1] ELSE BLANK
=============================================================================
