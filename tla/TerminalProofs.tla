--------------------------- MODULE TerminalProofs ---------------------------
(***************************************************************************)
(* Proofs about the text screen, for every width, every height of at least *)
(* three text rows, every text and every number of keys.                   *)
(*                                                                         *)
(* The invariant says for every step of the thread which rows and columns  *)
(* the cursor may be at.  It has to know what call the thread is in, since *)
(* a drawing and a title leave the text rows and the others do not, and    *)
(* what a register holds, since a key may come before it is stored.        *)
(***************************************************************************)
EXTENDS Terminal, SequenceTheorems, TLAPS

\* The calls that print at the cursor, and those that move it first.
Writes == {"write", "prompt", "ls"}
Moves  == {"draw", "title"}

\* The steps of term_putchar, and those of them behind term_putentryat.
Putting == {"row?", "column?", "entry", "newline", "inc", "wrap", "home", "nextrow",
            "test", "raise"}
Behind  == Putting \ {"row?", "column?", "entry"}

\* Which call is at which step, with which text.
CallInv ==
    /\ pc \in Steps
    /\ pc \in Putting => call \in Writes \cup Moves /\ text # <<>>
    /\ pc = "newline" => call \in Writes
    /\ pc \in {"column>", "row>", "moverow", "movecolumn"} => call \in Moves /\ text # <<>>
    /\ pc \in {"row<", "column<"} => call \in Moves
    /\ pc \in {"undo", "undo2"} => call = "ls"
    /\ call = "ls" /\ text # <<>> => text[Len(text)] = NL
    /\ call \in Moves => \A i \in 1 .. Len(text) : text[i] # NL

\* The rows the cursor may be at.
RowInv ==
    /\ pc \in {"idle", "read", "undo2", "cls", "cls2", "column>", "row>", "moverow"} =>
        term_row \in TextRows
    /\ call \in Writes =>
        /\ pc \in {"row?", "column?", "entry", "home", "nextrow"} => term_row \in TextRows
        /\ pc \in {"newline", "inc", "wrap", "test", "raise"} => term_row \in 1 .. Height
        /\ pc = "inc" /\ term_row = Height => term_column <= 0
        /\ pc = "wrap" /\ reg = Width => term_row < Height
        /\ pc = "raise" => reg <= Height
    /\ call \in Moves =>
        /\ pc \in {"movecolumn", "row?", "column?", "entry", "inc", "wrap", "home", "nextrow",
                   "row<", "column<"} => term_row \in 0 .. Height
        /\ pc \in {"test", "raise"} => term_row \in 0 .. Height + 1
        /\ pc = "raise" => reg <= Height + 1
        /\ pc \in Putting \cup {"moverow", "movecolumn", "row<"} => lastrow \in TextRows
        /\ call = "draw" /\ pc = "column<" => lastrow \in TextRows
        /\ call = "title" /\ pc = "column<" => term_row \in TextRows
    /\ pc = "raise" => IF reg < Height THEN term_row < Height ELSE term_row >= Height - 1
    /\ pc = "undo" => term_row \in 2 .. Height - 1
    /\ call = "ls" /\ pc \in Behind /\ Len(text) = 1 => term_row >= 2

\* And the columns: one to the left of the screen for every key that slipped, and to the
\* right of it only between the two stores of a wrap.  While the thread draws or writes a
\* title, the column is not left of the row.
ColumnInv ==
    /\ slips \in Nat /\ (quiet => slips = 0)
    /\ term_column \in Int /\ reg \in Int
    /\ \/ -slips <= term_column
       \/ pc \in {"inc", "wrap"} /\ call \in Writes /\ -slips - 1 <= term_column
    /\ IF pc = "home" THEN term_column <= Width + slips ELSE term_column < Width
    /\ pc = "wrap" => -slips <= reg /\ reg <= Width
    /\ call \in Moves => /\ pc \in Putting => 0 <= term_column
                         /\ pc = "wrap" => 0 <= reg
                         /\ pc = "entry" => 0 <= x
    /\ -slips <= lastcol /\ lastcol < Width /\ lastcol \in Int /\ lastrow \in Int
    /\ target \in (0 .. Width - 1) \X (0 .. Height)
    /\ x \in Int /\ y \in Int
    /\ pc = "entry" => -slips <= x /\ x < Width
    /\ pc \in {"column?", "entry"} => y \in 0 .. Height /\ (call \in Writes => 1 <= y)

CursorInv == CallInv /\ RowInv /\ ColumnInv /\ text \in Seq(AllGlyphs \cup {NL})

-----------------------------------------------------------------------------
(* A key's echo.                                                           *)

\* The echo moves the cursor by one place, or to the start of the next row; from the
\* row below the text it goes back up unless it started a row.
LEMMA EchoMoves ==
    ASSUME NEW ch, Echo(ch), term_row \in Int, term_column \in Int, slips \in Nat
    PROVE  /\ term_row' \in Int /\ term_column' \in Int
           /\ term_row < Height => term_row' \in {term_row, term_row + 1} /\ term_row' < Height
           /\ term_row >= Height =>
             term_row' = term_row - 1 \/ (term_row' = term_row /\ term_column' = 0)
           /\ term_column' >= term_column - 1 \/ term_column' = 0
           /\ term_column >= 0 => term_column' >= 0
           /\ term_column' <= term_column + 1 \/ term_column' = 0
           /\ term_column < Width => term_column' < Width
           /\ slips' = slips =>
             /\ term_column < 0 => term_column' >= term_column
             /\ term_column >= Width => term_column' <= term_column
           /\ slips' = slips \/ (slips' = slips + 1 /\ (term_column < 0 \/ term_column >= Width))
  <1> DEFINE e == Entered(ch, cursor)
             t == Advanced(e)
  <1>1. Width \in Nat /\ Height \in Nat /\ Width > 1 /\ Height > 3
    BY SizeAssumption DEF SCREEN_START
  <1>2. /\ term_row' = Raised(t)[1] /\ term_column' = Raised(t)[2]
    BY DEF Echo
  <1>3. \/ e[1] = term_row + 1 /\ e[2] = -1
        \/ e[1] = term_row /\ e[2] = term_column
        \/ e[1] = term_row /\ e[2] = term_column - 2 /\ RightOfPrompt(term_column)
    BY DEF Entered, cursor
  <1> HIDE DEF e
  <1>4. \/ t[1] = e[1] + 1 /\ t[2] = 0 /\ e[2] + 1 = Width
        \/ t[1] = e[1] /\ t[2] = e[2] + 1 /\ e[2] + 1 # Width
    BY DEF Advanced
  <1> HIDE DEF t
  <1>5. \/ term_row' = t[1] - 1 /\ term_column' = t[2] /\ t[1] > Height - 1
        \/ term_row' = t[1] /\ term_column' = t[2] /\ ~(t[1] > Height - 1)
    BY <1>2 DEF Raised
  <1>6. slips' = IF Slips(ch) THEN slips + 1 ELSE slips
    BY DEF Echo
  <1>7. slips' = slips \/ (slips' = slips + 1 /\ (term_column < 0 \/ term_column >= Width))
    BY <1>6 DEF Slips
  <1>8. ASSUME slips' = slips
        PROVE  /\ term_column < 0 => term_column' >= term_column
               /\ term_column >= Width => term_column' <= term_column
    <2>1. ~Slips(ch)
      BY <1>6, <1>8
    <2>2. CASE ch = NL
      <3>1. e[2] = -1
        BY <2>2 DEF Entered, cursor, e, NL, BS
      <3> QED
        BY <1>1, <1>4, <1>5, <3>1
    <2>3. CASE ch = BS
      <3>1. ~(term_column < 0)
        BY <2>1, <2>3 DEF Slips
      <3>2. RightOfPrompt(term_column) => e[2] = term_column - 2
        BY <2>3 DEF Entered, cursor, e, NL, BS
      <3> QED
        BY <1>1, <1>4, <1>5, <3>1, <3>2 DEF RightOfPrompt, pmtlen
    <2>4. CASE ch \notin {NL, BS}
      <3>1. ~(term_column >= Width) /\ e[2] = term_column
        BY <2>1, <2>4 DEF Slips, Entered, cursor, e
      <3> QED
        BY <1>1, <1>4, <1>5, <3>1
    <2> QED
      BY <2>2, <2>3, <2>4
  <1> QED
    BY <1>1, <1>3, <1>4, <1>5, <1>7, <1>8 DEF RightOfPrompt, pmtlen

\* And leaves the thread's call alone.
LEMMA EchoKeeps ==
    ASSUME NEW ch, Echo(ch)
    PROVE  UNCHANGED <<call, text, x, y, reg, lastrow, lastcol, target, quiet, scroll_term>>
  BY DEF Echo, saved, regs

\* A key at any step of the thread.
LEMMA KeyCursor ==
    ASSUME CursorInv, NEW ch, Echo(ch), UNCHANGED pc,
           quiet => pc = "read"
    PROVE  CursorInv'
  <1>0. UNCHANGED <<call, text, x, y, reg, lastrow, lastcol, target, quiet>>
    BY EchoKeeps
  <1>1. pc \in Steps /\ term_column \in Int /\ slips \in Nat
    BY DEF CursorInv, CallInv, ColumnInv
  <1>2. Width \in Nat /\ Height \in Nat /\ Width > 1 /\ Height > 3
    BY SizeAssumption DEF SCREEN_START
  <1>3. term_row \in 0 .. Height + 1
    BY <1>1, <1>2 DEF CursorInv, CallInv, RowInv, Steps, Putting, Writes, Moves, TextRows, SCREEN_START
  <1>4. CallInv'
    BY <1>0 DEF CursorInv, CallInv
  <1>5. /\ term_row' \in Int /\ term_column' \in Int
        /\ term_row < Height => term_row' \in {term_row, term_row + 1} /\ term_row' < Height
        /\ term_row >= Height =>
             term_row' = term_row - 1 \/ (term_row' = term_row /\ term_column' = 0)
        /\ term_column' >= term_column - 1 \/ term_column' = 0
        /\ term_column >= 0 => term_column' >= 0
        /\ term_column' <= term_column + 1 \/ term_column' = 0
        /\ term_column < Width => term_column' < Width
        /\ slips' = slips =>
             /\ term_column < 0 => term_column' >= term_column
             /\ term_column >= Width => term_column' <= term_column
        /\ slips' = slips \/ (slips' = slips + 1 /\ (term_column < 0 \/ term_column >= Width))
    BY <1>1, <1>3, EchoMoves
  <1>6. ColumnInv'
    <2>1. slips' \in Nat /\ slips' >= slips
      BY <1>1, <1>5
    <2>2. quiet' => slips' = 0
      <3> SUFFICES ASSUME quiet PROVE slips' = 0
        BY <1>0
      <3>1. pc = "read" /\ slips = 0
        BY DEF CursorInv, ColumnInv
      <3>2. term_column >= 0 /\ term_column < Width
        BY <1>1, <3>1 DEF CursorInv, ColumnInv
      <3> QED
        BY <1>1, <1>2, <1>5, <3>1, <3>2
    <2>3. \/ -slips' <= term_column'
          \/ pc' \in {"inc", "wrap"} /\ call' \in Writes /\ -slips' - 1 <= term_column'
      <3>1. CASE slips' = slips
        BY <1>0, <1>1, <1>5, <3>1 DEF CursorInv, ColumnInv
      <3>2. CASE slips' = slips + 1
        BY <1>0, <1>1, <1>5, <3>2 DEF CursorInv, ColumnInv
      <3> QED
        BY <1>5, <3>1, <3>2
    <2>4. IF pc' = "home" THEN term_column' <= Width + slips' ELSE term_column' < Width
      <3>1. CASE pc = "home"
        <4>1. term_column <= Width + slips
          BY <3>1 DEF CursorInv, ColumnInv
        <4>2. CASE term_column < Width /\ slips' = slips
          BY <1>1, <1>2, <1>5, <3>1, <4>2
        <4>3. CASE term_column >= Width /\ slips' = slips
          BY <1>1, <1>2, <1>5, <3>1, <4>1, <4>3
        <4>4. CASE slips' = slips + 1
          BY <1>1, <1>2, <1>5, <3>1, <4>1, <4>4
        <4> QED
          BY <1>1, <1>2, <1>5, <4>2, <4>3, <4>4
      <3>2. CASE pc # "home"
        BY <1>1, <1>5, <3>2 DEF CursorInv, ColumnInv
      <3> QED
        BY <3>1, <3>2
    <2>5. call' \in Moves /\ pc' \in Putting => 0 <= term_column'
      BY <1>0, <1>1, <1>5 DEF CursorInv, ColumnInv
    <2>6. \A c \in Int : -slips <= c => -slips' <= c
      <3>1. CASE slips' = slips
        BY <3>1
      <3>2. CASE slips' = slips + 1
        BY <1>1, <3>2
      <3> QED
        BY <1>5, <3>1, <3>2
    <2>7. /\ -slips' <= lastcol /\ (pc = "entry" => -slips' <= x) /\ (pc = "wrap" => -slips' <= reg)
          /\ lastcol \in Int /\ x \in Int /\ y \in Int /\ reg \in Int /\ lastrow \in Int
      BY <2>6 DEF CursorInv, ColumnInv
    <2>8. /\ term_column' \in Int
          /\ call \in Moves => (pc = "wrap" => 0 <= reg) /\ (pc = "entry" => 0 <= x)
          /\ lastcol < Width /\ target \in (0 .. Width - 1) \X (0 .. Height)
          /\ (pc = "wrap" => reg <= Width) /\ (pc = "entry" => x < Width)
          /\ pc \in {"column?", "entry"} => y \in 0 .. Height /\ (call \in Writes => 1 <= y)
      BY <1>5 DEF CursorInv, ColumnInv
    <2> QED
      BY <1>0, <2>1, <2>2, <2>3, <2>4, <2>5, <2>7, <2>8 DEF ColumnInv
  <1>7. RowInv'
    <2>1. CASE term_row < Height
      BY <1>0, <1>1, <1>2, <1>3, <1>5, <2>1
         DEF CursorInv, RowInv, TextRows, SCREEN_START
    <2>2. CASE term_row >= Height
      BY <1>0, <1>1, <1>2, <1>3, <1>5, <2>2
         DEF CursorInv, RowInv, TextRows, SCREEN_START
    <2> QED
      BY <1>2, <1>3, <2>1, <2>2
  <1> QED
    BY <1>0, <1>4, <1>6, <1>7 DEF CursorInv

-----------------------------------------------------------------------------
(* The thread's steps.                                                     *)

\* The sizes, as the provers need them.
LEMMA SizeFacts == /\ Width \in Nat /\ Height \in Nat /\ Width > 1 /\ Height > 3
                   /\ TextRows = 1 .. Height - 1
  BY SizeAssumption DEF SCREEN_START, TextRows

\* term_putchar up to its last test.
LEMMA PutcharCursor ==
    ASSUME CursorInv,
           FetchRow \/ FetchColumn \/ Newline \/ Inc \/ Wrap \/ Home \/ NextRow \/ Test
    PROVE  CursorInv'
  <1>0. text' = text /\ call' = call /\ quiet' = quiet /\ slips' = slips
    BY DEF FetchRow, FetchColumn, Newline, Inc, Wrap, Home, NextRow, Test, Goto
  <1>1. CASE FetchRow
    <2>1. CallInv'
      BY <1>0, <1>1 DEF FetchRow, CursorInv, CallInv, Goto, Putting, Steps
    <2>2. RowInv'
      BY <1>0, <1>1, SizeFacts DEF FetchRow, cursor, saved, CursorInv, CallInv, RowInv, ColumnInv, Goto,
         Writes, Moves, Putting, Behind
    <2>3. ColumnInv'
      BY <1>0, <1>1, SizeFacts DEF FetchRow, cursor, saved, CursorInv, CallInv, RowInv, ColumnInv, Goto,
         Writes, Moves, Putting
    <2> QED
      BY <1>0, <2>1, <2>2, <2>3 DEF CursorInv
  <1>2. CASE FetchColumn
    <2>1. CallInv'
      BY <1>0, <1>2 DEF FetchColumn, CursorInv, CallInv, Goto, Putting, Steps
    <2>2. RowInv'
      BY <1>0, <1>2, SizeFacts DEF FetchColumn, cursor, saved, CursorInv, CallInv, RowInv, ColumnInv, Goto,
         Writes, Moves, Putting, Behind
    <2>3. ColumnInv'
      BY <1>0, <1>2, SizeFacts DEF FetchColumn, cursor, saved, CursorInv, CallInv, RowInv, ColumnInv, Goto,
         Writes, Moves, Putting
    <2> QED
      BY <1>0, <2>1, <2>2, <2>3 DEF CursorInv
  <1>3. CASE Newline
    <2>1. CallInv'
      BY <1>0, <1>3 DEF Newline, CursorInv, CallInv, Goto, Putting, Steps
    <2>2. RowInv'
      BY <1>0, <1>3, SizeFacts DEF Newline, saved, regs, CursorInv, CallInv, RowInv, ColumnInv, Goto,
         Writes, Moves, Putting, Behind
    <2>3. ColumnInv'
      BY <1>0, <1>3, SizeFacts DEF Newline, saved, regs, CursorInv, CallInv, RowInv, ColumnInv, Goto,
         Writes, Moves, Putting
    <2> QED
      BY <1>0, <2>1, <2>2, <2>3 DEF CursorInv
  <1>4. CASE Inc
    <2>1. CallInv'
      BY <1>0, <1>4 DEF Inc, CursorInv, CallInv, Goto, Putting, Steps
    <2>2. RowInv'
      BY <1>0, <1>4, SizeFacts DEF Inc, cursor, saved, CursorInv, CallInv, RowInv, ColumnInv, Goto,
         Writes, Moves, Putting, Behind
    <2>3. ColumnInv'
      BY <1>0, <1>4, SizeFacts DEF Inc, cursor, saved, CursorInv, CallInv, RowInv, ColumnInv, Goto,
         Writes, Moves, Putting
    <2> QED
      BY <1>0, <2>1, <2>2, <2>3 DEF CursorInv
  <1>5. CASE Wrap
    <2>1. CallInv'
      BY <1>0, <1>5 DEF Wrap, CursorInv, CallInv, Goto, Putting, Steps
    <2>2. RowInv'
      BY <1>0, <1>5, SizeFacts DEF Wrap, saved, regs, CursorInv, CallInv, RowInv, ColumnInv, Goto,
         Writes, Moves, Putting, Behind
    <2>3. ColumnInv'
      BY <1>0, <1>5, SizeFacts DEF Wrap, saved, regs, CursorInv, CallInv, RowInv, ColumnInv, Goto,
         Writes, Moves, Putting
    <2> QED
      BY <1>0, <2>1, <2>2, <2>3 DEF CursorInv
  <1>6. CASE Home
    <2>1. CallInv'
      BY <1>0, <1>6 DEF Home, CursorInv, CallInv, Goto, Putting, Steps
    <2>2. RowInv'
      BY <1>0, <1>6, SizeFacts DEF Home, saved, regs, CursorInv, CallInv, RowInv, ColumnInv, Goto,
         Writes, Moves, Putting, Behind
    <2>3. ColumnInv'
      BY <1>0, <1>6, SizeFacts DEF Home, saved, regs, CursorInv, CallInv, RowInv, ColumnInv, Goto,
         Writes, Moves, Putting
    <2> QED
      BY <1>0, <2>1, <2>2, <2>3 DEF CursorInv
  <1>7. CASE NextRow
    <2>1. CallInv'
      BY <1>0, <1>7 DEF NextRow, CursorInv, CallInv, Goto, Putting, Steps
    <2>2. RowInv'
      BY <1>0, <1>7, SizeFacts DEF NextRow, saved, regs, CursorInv, CallInv, RowInv, ColumnInv, Goto,
         Writes, Moves, Putting, Behind
    <2>3. ColumnInv'
      BY <1>0, <1>7, SizeFacts DEF NextRow, saved, regs, CursorInv, CallInv, RowInv, ColumnInv, Goto,
         Writes, Moves, Putting
    <2> QED
      BY <1>0, <2>1, <2>2, <2>3 DEF CursorInv
  <1>8. CASE Test
    <2>1. CallInv'
      BY <1>0, <1>8 DEF Test, CursorInv, CallInv, Goto, Putting, Steps
    <2>2. RowInv'
      BY <1>0, <1>8, SizeFacts DEF Test, cursor, saved, CursorInv, CallInv, RowInv, ColumnInv, Goto,
         Writes, Moves, Putting, Behind
    <2>3. ColumnInv'
      BY <1>0, <1>8, SizeFacts DEF Test, cursor, saved, CursorInv, CallInv, RowInv, ColumnInv, Goto,
         Writes, Moves, Putting
    <2> QED
      BY <1>0, <2>1, <2>2, <2>3 DEF CursorInv
  <1> QED
    BY <1>1, <1>2, <1>3, <1>4, <1>5, <1>6, <1>7, <1>8

\* term_putentryat.
LEMMA EntryCursor ==
    ASSUME CursorInv, Entry
    PROVE  CursorInv'
  <1>0. /\ UNCHANGED <<text, call, quiet, slips, term_column, lastrow, lastcol, target, reg>>
        /\ x' = 0 /\ y' = 0 /\ pc = "entry"
        /\ \/ Head(text) = NL /\ pc' = "newline" /\ term_row' = term_row + 1
           \/ Head(text) # NL /\ pc' = "inc" /\ term_row' = term_row
    BY DEF Entry, Goto, saved
  <1>1. /\ text # <<>> /\ text \in Seq(AllGlyphs \cup {NL}) /\ Len(text) \in Nat /\ Len(text) >= 1
        /\ Head(text) = text[1] /\ call \in Writes \cup Moves
        /\ call = "ls" => text[Len(text)] = NL
        /\ call \in Moves => text[1] # NL
    BY <1>0 DEF CursorInv, CallInv, Putting
  <1>2. CallInv'
    BY <1>0, <1>1 DEF CursorInv, CallInv, Putting, Steps
  <1>3. RowInv'
    BY <1>0, <1>1, SizeFacts DEF CursorInv, RowInv, Writes, Moves, Putting, Behind
  <1>4. ColumnInv'
    BY <1>0, <1>1, SizeFacts DEF CursorInv, ColumnInv, Putting, Writes, Moves
  <1> QED
    BY <1>0, <1>2, <1>3, <1>4 DEF CursorInv

\* The end of term_putchar.
LEMMA RaiseCursor ==
    ASSUME CursorInv, Raise
    PROVE  CursorInv'
  <1>0. /\ UNCHANGED <<quiet, slips, term_column, lastrow, lastcol, target, x, y>>
        /\ text' = Tail(text) /\ reg' = 0 /\ pc = "raise" /\ pc' = AfterText
        /\ call' = IF AfterText = "idle" THEN "none" ELSE call
        /\ \/ reg > Height - 1 /\ term_row' \in {reg - 1, term_row - 1}
           \/ ~(reg > Height - 1) /\ term_row' = term_row
    BY DEF Raise, Goto, saved
  <1>1. /\ text # <<>> /\ text \in Seq(AllGlyphs \cup {NL}) /\ Len(text) \in Nat /\ Len(text) >= 1
        /\ call \in Writes \cup Moves
        /\ call = "ls" => text[Len(text)] = NL
        /\ call \in Moves => \A i \in 1 .. Len(text) : text[i] # NL
        /\ reg \in Int
    BY <1>0 DEF CursorInv, CallInv, ColumnInv, Putting
  <1>2. /\ text' \in Seq(AllGlyphs \cup {NL}) /\ Len(text') = Len(text) - 1
        /\ \A i \in 1 .. Len(text) - 1 : text'[i] = text[i + 1]
        /\ Len(text) > 1 => text' # <<>> /\ text'[Len(text')] = text[Len(text)]
        /\ ~(Len(text) > 1) => text' = <<>>
    <2>1. /\ text' \in Seq(AllGlyphs \cup {NL}) /\ Len(text') = Len(text) - 1
          /\ \A i \in 1 .. Len(text') : text'[i] = text[i + 1]
      BY <1>0, <1>1, HeadTailProperties
    <2>2. ASSUME Len(text) > 1 PROVE text' # <<>> /\ text'[Len(text')] = text[Len(text)]
      <3>1. Len(text') \in 1 .. Len(text') /\ Len(text') + 1 = Len(text) /\ Len(text') > 0
        BY <1>1, <2>1, <2>2
      <3> QED
        BY <2>1, <3>1
    <2>3. ~(Len(text) > 1) => text' = <<>>
      BY <1>1, <2>1
    <2> QED
      BY <1>1, <2>1, <2>2, <2>3
  <1>3. CASE Len(text) > 1
    <2>1. pc' = "row?" /\ call' = call
      BY <1>0, <1>3 DEF AfterText
    <2>2. CallInv'
      <3>1. call \in Moves => \A i \in 1 .. Len(text') : text'[i] # NL
        BY <1>1, <1>2
      <3>2. call = "ls" => text'[Len(text')] = NL
        BY <1>1, <1>2, <1>3
      <3>3. text' # <<>>
        BY <1>2, <1>3
      <3> QED
        BY <1>1, <2>1, <3>1, <3>2, <3>3 DEF CallInv, Putting, Steps
    <2>3. RowInv'
      BY <1>0, <1>1, <2>1, SizeFacts DEF CursorInv, RowInv, Writes, Moves, Putting, Behind
    <2>4. ColumnInv'
      BY <1>0, <2>1, SizeFacts DEF CursorInv, ColumnInv, Putting, Writes, Moves
    <2> QED
      BY <1>2, <2>2, <2>3, <2>4 DEF CursorInv
  <1>4. CASE ~(Len(text) > 1)
    <2>0. text' = <<>> /\ Len(text) = 1
      BY <1>1, <1>2, <1>4
    <2>1. \/ call = "draw" /\ pc' = "column<" /\ call' = call
          \/ call = "title" /\ pc' = "row<" /\ call' = call
          \/ call = "prompt" /\ pc' = "read" /\ call' = call
          \/ call = "ls" /\ pc' = "undo" /\ call' = call
          \/ call = "write" /\ pc' = "idle" /\ call' = "none"
      BY <1>0, <1>1, <1>4 DEF AfterText, Writes, Moves
    <2>2. CallInv'
      BY <2>0, <2>1 DEF CallInv, Putting, Steps, Writes, Moves
    <2>3. RowInv'
      BY <1>0, <1>1, <2>0, <2>1, SizeFacts DEF CursorInv, RowInv, Writes, Moves, Putting, Behind
    <2>4. ColumnInv'
      BY <1>0, <2>1, SizeFacts DEF CursorInv, ColumnInv, Putting, Writes, Moves
    <2> QED
      BY <1>2, <2>2, <2>3, <2>4 DEF CursorInv
  <1> QED
    BY <1>3, <1>4

\* The steps of the calls that surround term_putchar.
LEMMA CallCursor ==
    ASSUME CursorInv,
           \/ UndoNl \/ UndoColumn \/ ClsRow \/ ClsRest \/ SaveColumn \/ SaveRow \/ MoveRow
           \/ MoveColumn \/ RowBack \/ ColumnBack
    PROVE  CursorInv'
  <1>0. text' = text /\ quiet' = quiet /\ slips' = slips
    BY DEF UndoNl, UndoColumn, ClsRow, ClsRest, SaveColumn, SaveRow, MoveRow, MoveColumn, RowBack,
           ColumnBack, Goto
  <1>1. CASE UndoNl
    <2>1. CallInv'
      BY <1>0, <1>1 DEF UndoNl, CursorInv, CallInv, Goto, Putting, Steps, Writes, Moves
    <2>2. RowInv'
      BY <1>0, <1>1, SizeFacts DEF UndoNl, saved, regs, CursorInv, CallInv, RowInv, ColumnInv, Goto,
         Writes, Moves, Putting, Behind, SCREEN_START
    <2>3. ColumnInv'
      BY <1>0, <1>1, SizeFacts DEF UndoNl, saved, regs, CursorInv, CallInv, RowInv, ColumnInv, Goto,
         Writes, Moves, Putting
    <2> QED
      BY <1>0, <2>1, <2>2, <2>3 DEF CursorInv
  <1>10. CASE UndoColumn
    <2>1. CallInv'
      BY <1>0, <1>10 DEF UndoColumn, CursorInv, CallInv, Goto, Putting, Steps, Writes, Moves
    <2>2. RowInv'
      BY <1>0, <1>10, SizeFacts DEF UndoColumn, saved, regs, CursorInv, CallInv, RowInv, ColumnInv, Goto,
         Writes, Moves, Putting, Behind, SCREEN_START
    <2>3. ColumnInv'
      BY <1>0, <1>10, SizeFacts DEF UndoColumn, saved, regs, CursorInv, CallInv, RowInv, ColumnInv, Goto,
         Writes, Moves, Putting
    <2> QED
      BY <1>0, <2>1, <2>2, <2>3 DEF CursorInv
  <1>2. CASE ClsRow
    <2>1. CallInv'
      BY <1>0, <1>2 DEF ClsRow, CursorInv, CallInv, Goto, Putting, Steps, Writes, Moves
    <2>2. RowInv'
      BY <1>0, <1>2, SizeFacts DEF ClsRow, saved, regs, CursorInv, CallInv, RowInv, ColumnInv, Goto,
         Writes, Moves, Putting, Behind, SCREEN_START
    <2>3. ColumnInv'
      BY <1>0, <1>2, SizeFacts DEF ClsRow, saved, regs, CursorInv, CallInv, RowInv, ColumnInv, Goto,
         Writes, Moves, Putting
    <2> QED
      BY <1>0, <2>1, <2>2, <2>3 DEF CursorInv
  <1>3. CASE ClsRest
    <2>1. CallInv'
      BY <1>0, <1>3 DEF ClsRest, CursorInv, CallInv, Goto, Putting, Steps, Writes, Moves
    <2>2. RowInv'
      BY <1>0, <1>3, SizeFacts DEF ClsRest, saved, regs, CursorInv, CallInv, RowInv, ColumnInv, Goto,
         Writes, Moves, Putting, Behind, SCREEN_START
    <2>3. ColumnInv'
      BY <1>0, <1>3, SizeFacts DEF ClsRest, saved, regs, CursorInv, CallInv, RowInv, ColumnInv, Goto,
         Writes, Moves, Putting
    <2> QED
      BY <1>0, <2>1, <2>2, <2>3 DEF CursorInv
  <1>4. CASE SaveColumn
    <2>1. CallInv'
      BY <1>0, <1>4 DEF SaveColumn, CursorInv, CallInv, Goto, Putting, Steps, Writes, Moves
    <2>2. RowInv'
      BY <1>0, <1>4, SizeFacts DEF SaveColumn, cursor, regs, CursorInv, CallInv, RowInv, ColumnInv, Goto,
         Writes, Moves, Putting, Behind, SCREEN_START
    <2>3. ColumnInv'
      BY <1>0, <1>4, SizeFacts DEF SaveColumn, cursor, regs, CursorInv, CallInv, RowInv, ColumnInv, Goto,
         Writes, Moves, Putting
    <2> QED
      BY <1>0, <2>1, <2>2, <2>3 DEF CursorInv
  <1>5. CASE SaveRow
    <2>1. CallInv'
      BY <1>0, <1>5 DEF SaveRow, CursorInv, CallInv, Goto, Putting, Steps, Writes, Moves
    <2>2. RowInv'
      BY <1>0, <1>5, SizeFacts DEF SaveRow, cursor, regs, CursorInv, CallInv, RowInv, ColumnInv, Goto,
         Writes, Moves, Putting, Behind, SCREEN_START
    <2>3. ColumnInv'
      BY <1>0, <1>5, SizeFacts DEF SaveRow, cursor, regs, CursorInv, CallInv, RowInv, ColumnInv, Goto,
         Writes, Moves, Putting
    <2> QED
      BY <1>0, <2>1, <2>2, <2>3 DEF CursorInv
  <1>6. CASE MoveRow
    <2>1. CallInv'
      BY <1>0, <1>6 DEF MoveRow, CursorInv, CallInv, Goto, Putting, Steps, Writes, Moves
    <2>2. RowInv'
      BY <1>0, <1>6, SizeFacts DEF MoveRow, saved, regs, CursorInv, CallInv, RowInv, ColumnInv, Goto,
         Writes, Moves, Putting, Behind, SCREEN_START
    <2>3. ColumnInv'
      BY <1>0, <1>6, SizeFacts DEF MoveRow, saved, regs, CursorInv, CallInv, RowInv, ColumnInv, Goto,
         Writes, Moves, Putting
    <2> QED
      BY <1>0, <2>1, <2>2, <2>3 DEF CursorInv
  <1>7. CASE MoveColumn
    <2>1. CallInv'
      BY <1>0, <1>7 DEF MoveColumn, CursorInv, CallInv, Goto, Putting, Steps, Writes, Moves
    <2>2. RowInv'
      BY <1>0, <1>7, SizeFacts DEF MoveColumn, regs, CursorInv, CallInv, RowInv, ColumnInv, Goto,
         Writes, Moves, Putting, Behind, SCREEN_START
    <2>3. ColumnInv'
      BY <1>0, <1>7, SizeFacts DEF MoveColumn, regs, CursorInv, CallInv, RowInv, ColumnInv, Goto,
         Writes, Moves, Putting
    <2> QED
      BY <1>0, <2>1, <2>2, <2>3 DEF CursorInv
  <1>8. CASE RowBack
    <2>1. CallInv'
      BY <1>0, <1>8 DEF RowBack, CursorInv, CallInv, Goto, Putting, Steps, Writes, Moves
    <2>2. RowInv'
      BY <1>0, <1>8, SizeFacts DEF RowBack, regs, CursorInv, CallInv, RowInv, ColumnInv, Goto,
         Writes, Moves, Putting, Behind, SCREEN_START
    <2>3. ColumnInv'
      BY <1>0, <1>8, SizeFacts DEF RowBack, regs, CursorInv, CallInv, RowInv, ColumnInv, Goto,
         Writes, Moves, Putting
    <2> QED
      BY <1>0, <2>1, <2>2, <2>3 DEF CursorInv
  <1>9. CASE ColumnBack
    <2>1. CallInv'
      BY <1>0, <1>9 DEF ColumnBack, CursorInv, CallInv, Goto, Putting, Steps, Writes, Moves
    <2>2. RowInv'
      BY <1>0, <1>9, SizeFacts DEF ColumnBack, regs, CursorInv, CallInv, RowInv, ColumnInv, Goto,
         Writes, Moves, Putting, Behind, SCREEN_START
    <2>3. ColumnInv'
      BY <1>0, <1>9, SizeFacts DEF ColumnBack, regs, CursorInv, CallInv, RowInv, ColumnInv, Goto,
         Writes, Moves, Putting
    <2> QED
      BY <1>0, <2>1, <2>2, <2>3 DEF CursorInv
  <1> QED
    BY <1>1, <1>2, <1>3, <1>4, <1>5, <1>6, <1>7, <1>8, <1>9, <1>10

\* The calls begin at a settled cursor.
LEMMA StartCursor ==
    ASSUME CursorInv, Calls
    PROVE  CursorInv'
  <1>0. /\ pc = "idle" /\ UNCHANGED <<cursor, lastrow, lastcol, regs, slips, quiet>>
        /\ term_row \in TextRows /\ -slips <= term_column /\ term_column < Width
    BY DEF Calls, Write, ReadLine, List, Cls, SetScroll, Draw, Title, Start, CursorInv, RowInv,
           ColumnInv
  <1>1. ASSUME NEW t \in Texts, Write(t) PROVE CursorInv'
    <2>1. pc' = "row?" /\ call' = "write" /\ text' = t /\ t # <<>> /\ target' = target
      BY <1>1 DEF Write, Start
    <2>2. text' \in Seq(AllGlyphs \cup {NL})
      BY <2>1, TextAssumption DEF AllGlyphs
    <2> QED
      BY <1>0, <2>1, <2>2, SizeFacts DEF CursorInv, CallInv, RowInv, ColumnInv, cursor, regs, Steps,
         Putting, Behind, Writes, Moves
  <1>2. CASE ReadLine
    <2>1. pc' = "row?" /\ call' = "prompt" /\ text' = PromptText /\ target' = target
      BY <1>2 DEF ReadLine, Start
    <2>2. text' \in Seq(AllGlyphs \cup {NL}) /\ text' # <<>>
      <3>1. NL \in AllGlyphs \cup {NL} /\ Prompt \in AllGlyphs \cup {NL}
        BY DEF AllGlyphs
      <3>2. /\ <<NL, Prompt>> \in Seq(AllGlyphs \cup {NL}) /\ <<NL, Prompt>> # <<>>
            /\ <<Prompt>> \in Seq(AllGlyphs \cup {NL}) /\ <<Prompt>> # <<>>
        BY <3>1
      <3> QED
        BY <2>1, <3>2 DEF PromptText
    <2> QED
      BY <1>0, <2>1, <2>2, SizeFacts DEF CursorInv, CallInv, RowInv, ColumnInv, cursor, regs, Steps,
         Putting, Behind, Writes, Moves
  <1>3. CASE List
    <2>1. /\ pc' = "row?" /\ call' = "ls" /\ target' = target
          /\ \E g \in Glyphs : text' = <<g, NL>>
      BY <1>3 DEF List, Start
    <2>2. text' \in Seq(AllGlyphs \cup {NL}) /\ text' # <<>> /\ text'[Len(text')] = NL
      BY <2>1 DEF AllGlyphs
    <2> QED
      BY <1>0, <2>1, <2>2, SizeFacts DEF CursorInv, CallInv, RowInv, ColumnInv, cursor, regs, Steps,
         Putting, Behind, Writes, Moves
  <1>4. CASE Cls \/ \E b \in BOOLEAN : SetScroll(b)
    <2>1. pc' \in {"idle", "cls"} /\ call' \in {"cls", "scroll"} /\ text' = text /\ target' = target
      BY <1>4 DEF Cls, SetScroll, Start
    <2> QED
      BY <1>0, <2>1, SizeFacts DEF CursorInv, CallInv, RowInv, ColumnInv, cursor, regs, Steps,
         Putting, Behind, Writes, Moves
  <1>5. ASSUME NEW n \in Titles, Title(n) PROVE CursorInv'
    <2>1. pc' = "column>" /\ call' = "title" /\ target' = <<Width - n, 0>>
          /\ text' = [i \in 1 .. n |-> "#"]
      BY <1>5 DEF Title, Start
    <2>2. n \in Nat /\ n >= 1 /\ n <= Width
      BY TextAssumption, SizeFacts
    <2>3. /\ text' \in Seq(AllGlyphs \cup {NL}) /\ text' # <<>> /\ Len(text') = n
          /\ \A i \in 1 .. n : text'[i] # NL
      BY <2>1, <2>2 DEF AllGlyphs, NL
    <2>4. target' \in (0 .. Width - 1) \X (0 .. Height)
      BY <2>1, <2>2, SizeFacts
    <2> QED
      BY <1>0, <2>1, <2>3, <2>4, SizeFacts DEF CursorInv, CallInv, RowInv, ColumnInv, cursor, regs,
         Steps, Putting, Behind, Writes, Moves
  <1>6. ASSUME NEW s \in Spots, Draw(s) PROVE CursorInv'
    <2>1. pc' = "column>" /\ call' = "draw" /\ target' = s /\ text' = <<"#">>
      BY <1>6 DEF Draw, Start
    <2>2. /\ text' \in Seq(AllGlyphs \cup {NL}) /\ text' # <<>>
          /\ \A i \in 1 .. Len(text') : text'[i] # NL
      BY <2>1 DEF AllGlyphs, NL
    <2>3. target' \in (0 .. Width - 1) \X (0 .. Height)
      BY <2>1, TextAssumption
    <2> QED
      BY <1>0, <2>1, <2>2, <2>3, SizeFacts DEF CursorInv, CallInv, RowInv, ColumnInv, cursor, regs,
         Steps, Putting, Behind, Writes, Moves
  <1> QED
    BY <1>1, <1>2, <1>3, <1>4, <1>5, <1>6 DEF Calls

\* The key that ends a line.
LEMMA EndLineCursor ==
    ASSUME CursorInv, EndLine
    PROVE  CursorInv'
  <1>0. /\ pc = "read" /\ pc' = "idle" /\ Echo(NL) /\ slips' = slips
        /\ UNCHANGED <<call, text, x, y, reg, lastrow, lastcol, target, quiet>>
    <2>1. ~Slips(NL)
      BY DEF CursorInv, ColumnInv, Slips, NL, BS
    <2> QED
      BY <2>1, EchoKeeps DEF EndLine, Echo
  <1>1. term_row \in TextRows /\ term_column \in Int /\ slips \in Nat /\ -slips <= term_column
        /\ term_column < Width
    BY <1>0 DEF CursorInv, RowInv, ColumnInv
  <1>2. /\ term_row' \in {term_row, term_row + 1} /\ term_row' < Height
        /\ term_column' = 0
    <2>1. Advanced(Entered(NL, cursor)) = <<term_row + 1, 0>>
      BY SizeFacts DEF Advanced, Entered, cursor, NL, BS
    <2>2. term_row' = Raised(<<term_row + 1, 0>>)[1] /\ term_column' = Raised(<<term_row + 1, 0>>)[2]
      BY <1>0, <2>1 DEF Echo
    <2> QED
      BY <1>1, <2>2, SizeFacts DEF Raised
  <1>3. term_row' \in TextRows
    BY <1>1, <1>2, SizeFacts
  <1>4. CallInv'
    BY <1>0 DEF CursorInv, CallInv, Steps, Putting
  <1>5. RowInv'
    BY <1>0, <1>3, SizeFacts DEF CursorInv, RowInv, Putting, Behind
  <1>6. ColumnInv'
    BY <1>0, <1>1, <1>2, SizeFacts DEF CursorInv, ColumnInv
  <1> QED
    BY <1>0, <1>4, <1>5, <1>6 DEF CursorInv

LEMMA InitCursor == Init => CursorInv
  BY SizeFacts DEF Init, CursorInv, CallInv, RowInv, ColumnInv, Steps, Putting, Behind, Writes, Moves,
     SCREEN_START

LEMMA StepCursor == CursorInv /\ [Next]_vars => CursorInv'
  <1> SUFFICES ASSUME CursorInv, [Next]_vars PROVE CursorInv'
    OBVIOUS
  <1>1. ASSUME Thread PROVE CursorInv'
    BY <1>1, StartCursor, PutcharCursor, EntryCursor, RaiseCursor, CallCursor DEF Thread, Putchar
  <1>2. ASSUME NEW g \in Glyphs, TypeKey(g) PROVE CursorInv'
    BY <1>2, KeyCursor DEF TypeKey, Interrupts
  <1>3. CASE BackspaceKey
    BY <1>3, KeyCursor DEF BackspaceKey, Interrupts
  <1>4. CASE EnterKey
    BY <1>4, KeyCursor DEF EnterKey, Interrupts
  <1>5. CASE EndLine
    BY <1>5, EndLineCursor
  <1>6. CASE UNCHANGED vars
    BY <1>6 DEF vars, cursor, saved, regs, CursorInv, CallInv, RowInv, ColumnInv
  <1> QED
    BY <1>1, <1>2, <1>3, <1>4, <1>5, <1>6 DEF Next, Keys

\* The inductive invariant.
THEOREM CursorInvariance == Spec => []CursorInv
  BY InitCursor, StepCursor, PTL DEF Spec

\* However many keys come and whatever the thread prints, draws or clears, the cursor
\* stands on a text row between two calls, and never at or behind a row's end.
THEOREM CursorAlwaysSettles == Spec => []CursorSettles
  <1>1. CursorInv => CursorSettles
    BY DEF CursorInv, RowInv, ColumnInv, CursorSettles
  <1> QED
    BY <1>1, CursorInvariance, PTL

-----------------------------------------------------------------------------
(* The indices that are stored at.                                         *)

\* A place of a row is within the rows from that one on.
LEMMA RowOfIndex ==
    ASSUME NEW r \in Nat, NEW n \in Nat, r <= n
    PROVE  /\ 0 <= r * Width /\ r * Width <= n * Width
           /\ r > 0 => Width <= r * Width
           /\ n * Width \in Nat /\ (n + 1) * Width = n * Width + Width
  <1>1. Width \in Nat
    BY SizeFacts
  <1>2. PICK d \in Nat : n = r + d
    <2>1. n - r \in Nat /\ n = r + (n - r)
      OBVIOUS
    <2> QED
      BY <2>1
  <1>3. n * Width = r * Width + d * Width /\ d * Width \in Nat /\ r * Width \in Nat
    BY <1>1, <1>2
  <1>4. (n + 1) * Width = n * Width + Width
    BY <1>1
  <1>5. r > 0 => Width <= r * Width
    <2> SUFFICES ASSUME r > 0 PROVE Width <= r * Width
      OBVIOUS
    <2>1. r - 1 \in Nat /\ r = (r - 1) + 1
      OBVIOUS
    <2>2. r * Width = (r - 1) * Width + Width /\ (r - 1) * Width \in Nat
      BY <1>1, <2>1
    <2> QED
      BY <1>1, <2>2
  <1> QED
    BY <1>1, <1>3, <1>4, <1>5

\* However many keys come, and whatever the thread prints, draws or clears: no echo is
\* stored further from the screen's rows than keys have slipped off their row, and what
\* the thread prints is stored in them unless more have slipped than a row has columns
\* (terminal.h:142-143).
THEOREM StoresAlwaysNearScreen == Spec => []StoresNearScreen
  <1>1. CursorInv => StoresNearScreen
    <2> SUFFICES ASSUME CursorInv PROVE StoresNearScreen
      OBVIOUS
    <2>1. pc \in Steps /\ term_column \in Int /\ slips \in Nat
      BY DEF CursorInv, CallInv, ColumnInv
    <2>2. term_row \in Nat /\ term_row <= Height + 1 /\ (pc = "home" => term_row <= Height)
      BY <2>1, SizeFacts DEF CursorInv, CallInv, RowInv, Steps, Putting, Writes, Moves
    <2>3. term_row = 0 => -slips <= term_column
      BY <2>1, SizeFacts DEF CursorInv, RowInv, ColumnInv, Writes
    <2>4. -slips - 1 <= term_column
      BY <2>1 DEF CursorInv, ColumnInv
    <2>5. IF pc = "home" THEN term_column <= Width + slips ELSE term_column < Width
      BY DEF CursorInv, ColumnInv
    <2> DEFINE i == term_row * Width
               top == Width * (Height + 2)
    <2>6. /\ i \in Int /\ 0 <= i /\ (term_row > 0 => Width <= i)
          /\ i + Width <= top /\ (pc = "home" => i + 2 * Width <= top) /\ top \in Int
      <3>1. Height \in Nat /\ Width \in Nat /\ Height + 1 \in Nat
        BY SizeFacts
      <3>2. /\ 0 <= i /\ i <= (Height + 1) * Width /\ (term_row > 0 => Width <= i)
            /\ (Height + 1 + 1) * Width = (Height + 1) * Width + Width
        BY <2>2, <3>1, RowOfIndex
      <3>3. pc = "home" => i <= Height * Width
        BY <2>2, <3>1, RowOfIndex
      <3>4. (Height + 1) * Width = Height * Width + Width
        BY <3>1
      <3>5. top = (Height + 1 + 1) * Width /\ i \in Int /\ Height * Width \in Int
        BY <2>2, <3>1
      <3> QED
        BY <3>1, <3>2, <3>3, <3>4, <3>5
    <2>7. /\ -slips <= i + term_column /\ i + term_column < top + slips
          /\ term_column < 0 => /\ -(slips + 1) <= i + (term_column - 1)
                                /\ i + (term_column - 1) < top + (slips + 1)
          /\ term_column > 1 => -slips <= i + (term_column - 1) /\ i + (term_column - 1) < top + slips
      <3> HIDE DEF i, top
      <3> QED
        BY <2>1, <2>2, <2>3, <2>4, <2>5, <2>6, SizeFacts
    <2>8. ASSUME pc = "entry", slips <= Width PROVE Index(x, y) \in Places
      <3>1. /\ y \in Nat /\ y <= Height /\ x \in Int /\ -slips <= x /\ x < Width
            /\ 0 <= x \/ 1 <= y
        BY <2>8, SizeFacts DEF CursorInv, CallInv, ColumnInv, Putting
      <3>2. /\ 0 <= y * Width /\ y * Width <= Height * Width /\ (y > 0 => Width <= y * Width)
            /\ (Height + 1) * Width = Height * Width + Width /\ y * Width \in Int
            /\ Height * Width \in Int
        BY <3>1, SizeFacts, RowOfIndex
      <3>3. Width * (Height + 1) = Height * Width + Width
        BY SizeFacts
      <3>4. 0 <= y * Width + x /\ y * Width + x < Height * Width + Width /\ y * Width + x \in Int
        BY <2>1, <2>8, <3>1, <3>2, SizeFacts
      <3> QED
        BY <3>2, <3>3, <3>4, SizeFacts DEF Places, Index
    <2>9. Near(slips, term_column, term_row)
      BY <2>7 DEF Near, Index
    <2>10. ASSUME RightOfPrompt(term_column)
           PROVE  Near(IF term_column < 0 THEN slips + 1 ELSE slips, term_column - 1, term_row)
      <3>1. CASE term_column < 0
        BY <2>7, <3>1 DEF Near, Index
      <3>2. CASE ~(term_column < 0)
        BY <2>1, <2>7, <2>10, <3>2 DEF Near, Index, RightOfPrompt, pmtlen
      <3> QED
        BY <3>1, <3>2
    <2> QED
      BY <2>8, <2>9, <2>10 DEF StoresNearScreen
  <1> QED
    BY <1>1, CursorInvariance, PTL

-----------------------------------------------------------------------------
(* The screen and the text it should show.                                 *)

Chars == AllGlyphs \cup {NL, BS}

ScreenInv ==
    /\ cells \in [Places -> AllGlyphs]
    /\ lines \in Seq(Seq(AllGlyphs)) /\ lines # <<>>
    /\ plain \in BOOLEAN /\ quiet \in BOOLEAN /\ scroll_term \in BOOLEAN
    /\ typed \in 0 .. MaxTyped /\ keys \in 0 .. MaxKeys

LEMMA BlankType == Blank \in [Places -> AllGlyphs] /\ BLANK \in AllGlyphs
  BY DEF Blank, AllGlyphs

LEMMA ShownType ==
    ASSUME NEW f \in [Places -> AllGlyphs], NEW ch \in Chars, NEW c, NEW r
    PROVE  Shown(f, ch, c, r) \in [Places -> AllGlyphs]
  <1>1. ASSUME NEW p, NEW g \in AllGlyphs PROVE [f EXCEPT ![p] = g] \in [Places -> AllGlyphs]
    OBVIOUS
  <1>2. CASE ch = NL
    BY <1>2 DEF Shown, NL, BS
  <1>3. CASE ch = BS
    BY <1>1, <1>3, BlankType DEF Shown, NL, BS
  <1>4. CASE ch \notin {NL, BS}
    <2>1. ch \in AllGlyphs /\ Shown(f, ch, c, r) = [f EXCEPT ![Index(c, r)] = ch]
      BY <1>4 DEF Shown, Chars
    <2> QED
      BY <1>1, <2>1
  <1> QED
    BY <1>2, <1>3, <1>4

LEMMA ScrolledType ==
    ASSUME NEW f \in [Places -> AllGlyphs]
    PROVE  Scrolled(f) \in [Places -> AllGlyphs]
  <1> SUFFICES ASSUME NEW p \in Places, p < Index(0, Height) PROVE p + Width \in Places
    BY DEF Scrolled
  <1>1. Width \in Nat /\ Height \in Nat
    BY SizeFacts
  <1>2. Index(0, Height) = Height * Width /\ Height * Width \in Nat
    BY <1>1 DEF Index
  <1>3. Width * (Height + 1) = Height * Width + Width
    BY <1>1
  <1> QED
    BY <1>1, <1>2, <1>3 DEF Places

\* The last element of a sequence, and the ones before it.
LEMMA FrontLast ==
    ASSUME NEW S, NEW s \in Seq(S), s # <<>>
    PROVE  /\ Len(s) \in Nat /\ Len(s) >= 1 /\ Last(s) \in S
           /\ Front(s) \in Seq(S) /\ Len(Front(s)) = Len(s) - 1
           /\ \A i \in 1 .. Len(s) - 1 : Front(s)[i] = s[i]
  <1>1. Len(s) \in Nat /\ Len(s) >= 1 /\ Last(s) \in S
    BY DEF Last
  <1>2. \A i \in 1 .. Len(s) - 1 : s[i] \in S
    BY <1>1
  <1>3. /\ Front(s) \in Seq(S)
        /\ Len(Front(s)) = IF 1 <= Len(s) - 1 THEN Len(s) - 1 - 1 + 1 ELSE 0
        /\ \A i \in 1 .. Len(s) - 1 - 1 + 1 : Front(s)[i] = s[1 + i - 1]
    BY <1>1, <1>2, SubSeqProperties DEF Front
  <1> HIDE DEF Front
  <1>4. Len(Front(s)) = Len(s) - 1
    <2>1. ASSUME NEW n \in Nat, n >= 1, NEW k, k = IF 1 <= n - 1 THEN n - 1 - 1 + 1 ELSE 0
          PROVE  k = n - 1
      BY <2>1
    <2> QED
      BY <1>1, <1>3, <2>1
  <1>5. ASSUME NEW i \in 1 .. Len(s) - 1 PROVE Front(s)[i] = s[i]
    BY <1>1, <1>3
  <1> QED
    BY <1>1, <1>3, <1>4, <1>5

LEMMA AppendLast ==
    ASSUME NEW S, NEW s \in Seq(S), NEW e \in S
    PROVE  /\ Append(s, e) \in Seq(S) /\ Append(s, e) # <<>> /\ Len(Append(s, e)) = Len(s) + 1
           /\ Len(s) \in Nat
  BY AppendProperties

LEMMA LastLinesType ==
    ASSUME NEW S, NEW ls \in Seq(S), Len(ls) > 1
    PROVE  LastLines(ls) \in Seq(S) /\ LastLines(ls) # <<>>
  <1>1. ls # <<>>
    OBVIOUS
  <1>2. Tail(ls) \in Seq(S) /\ Len(Tail(ls)) = Len(ls) - 1
    BY <1>1, HeadTailProperties
  <1>3. Tail(ls) # <<>>
    <2>1. Len(Tail(ls)) # 0
      <3>1. Len(ls) \in Nat /\ Len(ls) - 1 # 0
        OBVIOUS
      <3> QED
        BY <1>2, <3>1
    <2> QED
      BY <1>2, <2>1, EmptySeq
  <1> QED
    BY <1>1, <1>2, <1>3 DEF LastLines

LEMMA PrintedType ==
    ASSUME NEW ls \in Seq(Seq(AllGlyphs)), ls # <<>>, NEW ch \in Chars
    PROVE  Printed(ls, ch) \in Seq(Seq(AllGlyphs)) /\ Printed(ls, ch) # <<>>
  <1> DEFINE G == AllGlyphs
             n == Len(ls)
             line == Last(ls)
             front == Front(ls)
  <1>1. n \in Nat /\ n >= 1 /\ line \in Seq(G) /\ front \in Seq(Seq(G)) /\ Len(front) = n - 1
    BY FrontLast
  <1>2. <<>> \in Seq(G)
    OBVIOUS
  <1> HIDE DEF line, front
  <1>3. ASSUME NEW s \in Seq(G)
        PROVE  Append(front, s) \in Seq(Seq(G)) /\ Append(front, s) # <<>> /\ Len(Append(front, s)) = n
    <2>1. /\ Append(front, s) \in Seq(Seq(G)) /\ Append(front, s) # <<>>
          /\ Len(Append(front, s)) = Len(front) + 1
      BY <1>1, AppendLast
    <2> QED
      BY <1>1, <2>1
  <1>4. CASE ch = NL
    <2>1. Printed(ls, ch) = LastLines(Append(ls, <<>>))
      BY <1>4 DEF Printed, NL, BS
    <2>2. Append(ls, <<>>) \in Seq(Seq(G)) /\ Len(Append(ls, <<>>)) = n + 1
      BY <1>2, AppendLast
    <2>3. Len(Append(ls, <<>>)) > 1
      BY <1>1, <2>2
    <2> QED
      BY <2>1, <2>2, <2>3, LastLinesType
  <1>5. CASE ch = BS
    <2>1. Printed(ls, ch) = IF line = <<>> THEN ls ELSE Append(front, Front(line))
      BY <1>5 DEF Printed, NL, BS, line, front
    <2>2. line # <<>> => Front(line) \in Seq(G)
      BY <1>1, FrontLast
    <2> QED
      BY <1>3, <2>1, <2>2
  <1>6. CASE ch \notin {NL, BS}
    <2> DEFINE more == Append(front, Append(line, ch))
    <2>1. Printed(ls, ch) = IF Len(line) + 1 = Width THEN LastLines(Append(more, <<>>)) ELSE more
      BY <1>6 DEF Printed, line, front
    <2>2. Append(line, ch) \in Seq(G)
      BY <1>1, <1>6, AppendLast DEF Chars
    <2>3. more \in Seq(Seq(G)) /\ more # <<>> /\ Len(more) = n
      BY <1>3, <2>2
    <2> HIDE DEF more
    <2>4. Append(more, <<>>) \in Seq(Seq(G)) /\ Len(Append(more, <<>>)) = n + 1
      BY <1>2, <2>3, AppendLast, SMTT(30)
    <2>5. Len(Append(more, <<>>)) > 1
      BY <1>1, <2>4
    <2> QED
      BY <2>1, <2>3, <2>4, <2>5, LastLinesType
  <1> QED
    BY <1>4, <1>5, <1>6

\* What is followed of the screen and the text keeps its type.
LEMMA TrackType ==
    ASSUME NEW f \in [Places -> AllGlyphs], NEW ls \in Seq(Seq(AllGlyphs)), ls # <<>>, NEW agree,
           Track(f, ls, agree), plain \in BOOLEAN
    PROVE  /\ cells' \in [Places -> AllGlyphs]
           /\ lines' \in Seq(Seq(AllGlyphs)) /\ lines' # <<>>
           /\ plain' \in BOOLEAN
  <1>1. <<<<>>>> \in Seq(Seq(AllGlyphs)) /\ <<<<>>>> # <<>>
    OBVIOUS
  <1>2. /\ plain' = (plain /\ agree)
        /\ cells' = IF plain' THEN f ELSE Blank
        /\ lines' = IF plain' THEN ls ELSE <<<<>>>>
    BY DEF Track
  <1> QED
    BY <1>1, <1>2, BlankType

\* A key's echo.
LEMMA EchoScreen ==
    ASSUME ScreenInv, NEW ch \in Chars, Echo(ch), typed' \in 0 .. MaxTyped, keys' \in 0 .. MaxKeys
    PROVE  ScreenInv'
  <1> DEFINE t == Advanced(Entered(ch, cursor))
             f == Shown(cells, ch, term_column, term_row)
             g == IF t[1] > Height - 1 THEN Scrolled(f) ELSE f
  <1>1. f \in [Places -> AllGlyphs]
    BY ShownType DEF ScreenInv
  <1> HIDE DEF f
  <1>2. g \in [Places -> AllGlyphs]
    BY <1>1, ScrolledType
  <1>3. Printed(lines, ch) \in Seq(Seq(AllGlyphs)) /\ Printed(lines, ch) # <<>>
    BY PrintedType DEF ScreenInv
  <1>4. Track(g, Printed(lines, ch), scroll_term /\ Follows(ch)) /\ UNCHANGED <<scroll_term, quiet>>
    BY DEF Echo, f
  <1> HIDE DEF g
  <1>5. /\ cells' \in [Places -> AllGlyphs]
        /\ lines' \in Seq(Seq(AllGlyphs)) /\ lines' # <<>>
        /\ plain' \in BOOLEAN
    BY <1>2, <1>3, <1>4, TrackType DEF ScreenInv
  <1> QED
    BY <1>4, <1>5 DEF ScreenInv

LEMMA KeyScreen ==
    ASSUME ScreenInv, Keys
    PROVE  ScreenInv'
  <1>1. MaxTyped \in Nat /\ MaxKeys \in Nat /\ typed \in 0 .. MaxTyped /\ keys \in 0 .. MaxKeys
    BY SizeAssumption DEF ScreenInv
  <1>2. Interrupts => keys' \in 0 .. MaxKeys
    BY <1>1 DEF Interrupts
  <1>3. ASSUME NEW g \in Glyphs, TypeKey(g) PROVE ScreenInv'
    <2>1. g \in Chars
      BY DEF Chars, AllGlyphs
    <2>2. Echo(g) /\ typed' \in 0 .. MaxTyped /\ keys' \in 0 .. MaxKeys
      BY <1>1, <1>2, <1>3 DEF TypeKey
    <2> QED
      BY <2>1, <2>2, EchoScreen
  <1>4. CASE BackspaceKey
    <2>1. Echo(BS) /\ typed' \in 0 .. MaxTyped /\ keys' \in 0 .. MaxKeys
      BY <1>1, <1>2, <1>4 DEF BackspaceKey
    <2> QED
      BY <2>1, EchoScreen DEF Chars
  <1>5. CASE EnterKey \/ EndLine
    <2>1. Echo(NL) /\ typed' \in 0 .. MaxTyped /\ keys' \in 0 .. MaxKeys
      BY <1>1, <1>2, <1>5 DEF EnterKey, EndLine
    <2> QED
      BY <2>1, EchoScreen DEF Chars
  <1> QED
    BY <1>3, <1>4, <1>5 DEF Keys

LEMMA ThreadScreen ==
    ASSUME ScreenInv, CursorInv, Thread
    PROVE  ScreenInv'
  <1> USE DEF ScreenInv
  <1>1. CASE Entry
    <2> DEFINE ch == Head(text)
               ls == IF call \in {"write", "prompt"} THEN Printed(lines, ch) ELSE lines
               agree == (call = "draw" => y = 0) /\ (call \in {"write", "prompt"} => scroll_term)
    <2>1. ch \in Chars
      <3>1. text \in Seq(AllGlyphs \cup {NL}) /\ text # <<>>
        BY <1>1 DEF Entry, Goto, CursorInv, CallInv, Putting
      <3>2. Head(text) \in AllGlyphs \cup {NL}
        BY <3>1
      <3> QED
        BY <3>2 DEF Chars
    <2>2. Track(Shown(cells, ch, x, y), ls, agree) /\ UNCHANGED <<scroll_term, quiet, typed, keys>>
      BY <1>1 DEF Entry, Goto
    <2> HIDE DEF ch
    <2>3. Shown(cells, ch, x, y) \in [Places -> AllGlyphs]
      BY <2>1, ShownType
    <2>4. ls \in Seq(Seq(AllGlyphs)) /\ ls # <<>>
      BY <2>1, PrintedType
    <2> HIDE DEF ls, agree, ScreenInv
    <2>5. /\ cells' \in [Places -> AllGlyphs] /\ plain' \in BOOLEAN
          /\ lines' \in Seq(Seq(AllGlyphs)) /\ lines' # <<>>
      BY <2>2, <2>3, <2>4, TrackType DEF ScreenInv
    <2> QED
      BY <2>2, <2>5 DEF ScreenInv
  <1>2. CASE Raise
    <2>1. UNCHANGED <<scroll_term, quiet, typed, keys>>
      BY <1>2 DEF Raise, Goto
    <2>2. CASE Track(Scrolled(cells), lines, scroll_term)
      <3>1. /\ cells' \in [Places -> AllGlyphs] /\ plain' \in BOOLEAN
            /\ lines' \in Seq(Seq(AllGlyphs)) /\ lines' # <<>>
        BY <2>2, ScrolledType, TrackType
      <3> QED
        BY <2>1, <3>1
    <2>3. CASE UNCHANGED screen
      BY <2>1, <2>3 DEF screen
    <2> QED
      BY <1>2, <2>2, <2>3 DEF Raise
  <1>4. CASE List
    <2>1. Track(cells, lines, FALSE) /\ UNCHANGED <<scroll_term, quiet, typed, keys>>
      BY <1>4 DEF List, Start
    <2>2. /\ cells' \in [Places -> AllGlyphs] /\ plain' \in BOOLEAN
          /\ lines' \in Seq(Seq(AllGlyphs)) /\ lines' # <<>>
      BY <2>1, TrackType
    <2> QED
      BY <2>1, <2>2
  <1>5. CASE ClsRest
    <2>1. <<<<>>>> \in Seq(Seq(AllGlyphs)) /\ <<<<>>>> # <<>>
      OBVIOUS
    <2>2. /\ cells' = [p \in Places |-> IF p < Index(0, SCREEN_START) THEN cells[p] ELSE BLANK]
          /\ lines' = <<<<>>>> /\ plain' = quiet /\ UNCHANGED <<scroll_term, quiet, typed, keys>>
      BY <1>5 DEF ClsRest, Goto
    <2>3. cells' \in [Places -> AllGlyphs]
      BY <2>2, BlankType
    <2> QED
      BY <2>1, <2>2, <2>3
  <1>6. ASSUME UNCHANGED screen, UNCHANGED <<quiet, typed, keys>>, scroll_term' \in BOOLEAN
        PROVE  ScreenInv'
    BY <1>6 DEF screen
  <1>7. ASSUME NEW a, NEW b, Goto(a, b), UNCHANGED screen PROVE ScreenInv'
    BY <1>6, <1>7 DEF Goto
  <1> HIDE DEF ScreenInv
  <1>8. CASE Putchar
    BY <1>1, <1>2, <1>7, <1>8 DEF Putchar, FetchRow, FetchColumn, Newline, Inc, Wrap, Home, NextRow, Test
  <1>9. CASE \/ UndoNl \/ UndoColumn \/ ClsRow \/ SaveColumn \/ SaveRow \/ MoveRow \/ MoveColumn
             \/ RowBack \/ ColumnBack
    BY <1>7, <1>9 DEF UndoNl, UndoColumn, ClsRow, SaveColumn, SaveRow, MoveRow, MoveColumn, RowBack, ColumnBack
  <1>10. CASE Calls
    <2>1. ASSUME NEW c, NEW s, Start(c, s), UNCHANGED <<scroll_term, screen>> PROVE ScreenInv'
      BY <1>6, <2>1 DEF Start, ScreenInv
    <2>2. ASSUME NEW b \in BOOLEAN, SetScroll(b) PROVE ScreenInv'
      BY <1>6, <2>2 DEF SetScroll, Start
    <2> QED
      BY <1>4, <1>10, <2>1, <2>2 DEF Calls, Write, ReadLine, Cls, Draw, Title
  <1> QED
    BY <1>5, <1>8, <1>9, <1>10 DEF Thread

LEMMA InitScreen == Init => ScreenInv
  <1>1. <<<<>>>> \in Seq(Seq(AllGlyphs)) /\ <<<<>>>> # <<>>
    OBVIOUS
  <1> QED
    BY <1>1, BlankType, SizeAssumption DEF Init, ScreenInv

LEMMA StepScreen == CursorInv /\ ScreenInv /\ [Next]_vars => ScreenInv'
  <1> SUFFICES ASSUME CursorInv, ScreenInv, [Next]_vars PROVE ScreenInv'
    OBVIOUS
  <1>1. CASE UNCHANGED vars
    BY <1>1 DEF vars, screen, ScreenInv
  <1> QED
    BY <1>1, KeyScreen, ThreadScreen DEF Next

\* Type correctness.  That the cursor never leaves the rows 0 .. Height + 1, and that
\* the screen holds characters only, is more than the declarations of terminal.h say.
THEOREM TerminalTypeCorrect == Spec => []TypeOK
  <1>1. Spec => []ScreenInv
    BY InitScreen, StepScreen, CursorInvariance, PTL DEF Spec
  <1>2. CursorInv /\ ScreenInv => TypeOK
    <2> SUFFICES ASSUME CursorInv, ScreenInv PROVE TypeOK
      OBVIOUS
    <2>1. term_row \in 0 .. Height + 1
      BY SizeFacts DEF CursorInv, CallInv, RowInv, Steps, Putting, Writes, Moves
    <2> QED
      BY <2>1 DEF CursorInv, CallInv, ColumnInv, ScreenInv, TypeOK
  <1> QED
    BY <1>1, <1>2, CursorInvariance, PTL
=============================================================================
