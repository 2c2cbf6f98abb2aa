---------------------------- MODULE ScreenProofs ----------------------------
(***************************************************************************)
(* The screen shows the text, for every screen, every text and every title *)
(* (src/screen/terminal.h).                                                *)
(*                                                                         *)
(* The invariant compares the screen with the text at every step of the    *)
(* thread: with the cursor, while no character is being put; with the      *)
(* place the cursor is coming to and with the screen as it will be         *)
(* scrolled, behind term_putentryat; and with the cursor that was saved,   *)
(* while a title is printed or the status bar drawn to.                    *)
(***************************************************************************)
EXTENDS TerminalProofs

\* What row r of the screen should show in column c.
LineCell(ls, r, c) == IF r <= Len(ls) /\ c < Len(ls[r]) THEN ls[r][c + 1] ELSE BLANK

\* The text rows and the blank row below them show the lines.
Shows(f, ls) == \A r \in 1 .. Height, c \in 0 .. Width - 1 : f[Index(c, r)] = LineCell(ls, r, c)

\* The lines are shown, and (c, r) is the end of the last one.
Settled(f, ls, r, c) ==
    /\ Len(ls) < Height /\ r = Len(ls)
    /\ Len(Last(ls)) < Width /\ c = Len(Last(ls))
    /\ Shows(f, ls)

\* The same once a full screen is scrolled, for a cursor t = <<row, column>>.
Pending(f, ls, t) == IF t[1] > Height - 1 THEN Settled(Scrolled(f), ls, t[1] - 1, t[2])
                                          ELSE Settled(f, ls, t[1], t[2])

\* Where term_putchar is taking the cursor, before it raises it.
Coming == CASE pc = "newline"            -> <<term_row, 0>>
            [] pc = "inc"                -> Advanced(cursor)
            [] pc = "wrap"               -> IF reg = Width THEN <<term_row + 1, 0>> ELSE <<term_row, reg>>
            [] pc = "home"               -> <<term_row + 1, 0>>
            [] pc = "nextrow"            -> <<term_row + 1, term_column>>
            [] pc \in {"test", "raise"}  -> cursor

\* The calls that print text.
Prints == {"write", "prompt"}

\* A character of the text is being put.
PutInv ==
    /\ pc \in Putting \ Behind => Settled(cells, lines, term_row, term_column)
    /\ pc \in Behind => Pending(cells, lines, Coming) /\ scroll_term

\* What the thread has loaded is still what it loaded.
LoadInv ==
    /\ pc \in {"column?", "entry"} => y = term_row
    /\ pc = "entry" => x = term_column
    /\ pc = "raise" => reg = term_row
    /\ pc = "cls2" => term_row = SCREEN_START

\* A title or a drawing is under way, and the cursor is saved.
SavedInv ==
    /\ pc = "row>" => lastcol = term_column
    /\ pc \in Putting \cup {"moverow", "movecolumn"} => Settled(cells, lines, lastrow, lastcol)
    /\ pc = "row<" => Settled(cells, lines, lastrow, IF call = "draw" THEN term_column ELSE lastcol)
    /\ pc = "column<" => Settled(cells, lines, IF call = "draw" THEN lastrow ELSE term_row, lastcol)
    /\ pc \in Behind => Coming[1] \in {0, 1}

\* A title stays in the status bar.
TitleInv ==
    /\ pc \in {"column>", "row>", "moverow", "movecolumn"} => target = <<Width - Len(text), 0>>
    /\ pc = "movecolumn" => term_row = 0
    /\ pc \in Putting \ Behind => term_row = 0 /\ term_column = Width - Len(text)
    /\ pc \in Behind /\ Len(text) > 1 => Coming = <<0, Width - Len(text) + 1>>

\* As long as the screen should show the text.
PlainInv ==
    /\ pc \in {"idle", "read", "cls", "column>", "row>"} =>
         Settled(cells, lines, term_row, term_column)
    /\ pc \in Putting \cup {"undo", "undo2"} => call # "ls"
    /\ call \in Prints => PutInv
    /\ call \in Moves => SavedInv
    /\ call = "title" => TitleInv

TextInv == (quiet => LoadInv) /\ (plain => quiet /\ PlainInv)

-----------------------------------------------------------------------------
(* Places of the screen.                                                   *)

LEMMA IndexFacts ==
    ASSUME NEW r \in 1 .. Height, NEW c \in 0 .. Width - 1
    PROVE  /\ Index(c, r) \in Places /\ Index(c, r) >= Index(0, SCREEN_START)
           /\ Index(c, r) < Index(0, Height) <=> r < Height
           /\ Index(c, r) + Width = Index(c, r + 1)
           /\ Index(0, SCREEN_START) = Width
  <1>1. r \in Nat /\ c \in Nat /\ c < Width /\ r > 0 /\ r <= Height /\ Width \in Nat /\ Height \in Nat
    BY SizeFacts
  <1>2. /\ Width <= r * Width /\ r * Width <= Height * Width
        /\ (Height + 1) * Width = Height * Width + Width
    BY <1>1, RowOfIndex
  <1>3. Width * (Height + 1) = (Height + 1) * Width
    BY <1>1
  <1>4. r * Width \in Nat /\ Height * Width \in Nat /\ (r + 1) * Width = r * Width + Width
    BY <1>1
  <1>5. r < Height => r * Width + Width <= Height * Width
    <2> SUFFICES ASSUME r < Height PROVE r * Width + Width <= Height * Width
      OBVIOUS
    <2>1. r + 1 \in Nat /\ r + 1 <= Height
      BY <1>1
    <2>2. (r + 1) * Width <= Height * Width
      BY <1>1, <2>1, RowOfIndex
    <2> QED
      BY <1>4, <2>2
  <1>6. Index(c, r) = r * Width + c /\ Index(c, r + 1) = (r + 1) * Width + c
        /\ Index(0, Height) = Height * Width /\ Index(0, SCREEN_START) = Width
    BY <1>1, <1>4 DEF Index, SCREEN_START
  <1>7. r = Height => r * Width = Height * Width
    OBVIOUS
  <1> QED
    BY <1>1, <1>2, <1>3, <1>4, <1>5, <1>6, <1>7 DEF Places

LEMMA IndexInjective ==
    ASSUME NEW r \in Nat, NEW c \in 0 .. Width - 1, NEW s \in Nat, NEW d \in 0 .. Width - 1,
           Index(c, r) = Index(d, s)
    PROVE  r = s /\ c = d
  <1>1. Width \in Nat /\ c \in Nat /\ d \in Nat /\ c < Width /\ d < Width
    BY SizeFacts
  <1>2. ASSUME NEW a \in Nat, NEW b \in Nat, a < b PROVE a * Width + Width <= b * Width
    <2>1. a + 1 \in Nat /\ a + 1 <= b
      BY <1>2
    <2>2. (a + 1) * Width <= b * Width /\ (a + 1) * Width = a * Width + Width
      BY <1>1, <2>1, RowOfIndex
    <2> QED
      BY <2>2
  <1>3. r * Width + c = s * Width + d /\ r * Width \in Nat /\ s * Width \in Nat
    BY <1>1 DEF Index
  <1>4. ~(r < s)
    BY <1>1, <1>2, <1>3
  <1>5. ~(s < r)
    BY <1>1, <1>2, <1>3
  <1>6. r = s
    BY <1>4, <1>5
  <1>7. r * Width = s * Width
    BY <1>6
  <1> QED
    BY <1>1, <1>3, <1>6, <1>7

-----------------------------------------------------------------------------
(* Lines of text.                                                          *)

\* The last element replaced.
LEMMA LastReplaced ==
    ASSUME NEW S, NEW s \in Seq(S), s # <<>>, NEW e \in S
    PROVE  LET n == Append(Front(s), e)
           IN  /\ n \in Seq(S) /\ n # <<>> /\ Len(n) = Len(s) /\ Last(n) = e
               /\ \A i \in 1 .. Len(s) : n[i] = IF i = Len(s) THEN e ELSE s[i]
  <1> DEFINE f == Front(s)
             n == Append(f, e)
  <1>1. /\ Len(s) \in Nat /\ Len(s) >= 1 /\ f \in Seq(S) /\ Len(f) = Len(s) - 1
        /\ \A i \in 1 .. Len(s) - 1 : f[i] = s[i]
    BY FrontLast
  <1> HIDE DEF f
  <1>2. /\ n \in Seq(S) /\ Len(n) = Len(f) + 1
        /\ \A i \in 1 .. Len(f) : n[i] = f[i]
        /\ n[Len(f) + 1] = e
    BY <1>1, AppendProperties
  <1> HIDE DEF n
  <1>3. Len(n) = Len(s)
    BY <1>1, <1>2
  <1>4. n # <<>>
    BY <1>1, <1>2, <1>3, EmptySeq
  <1>5. n[Len(s)] = e
    BY <1>1, <1>2, <1>3
  <1>6. Last(n) = e
    BY <1>3, <1>5 DEF Last
  <1>7. ASSUME NEW i \in 1 .. Len(s) PROVE n[i] = IF i = Len(s) THEN e ELSE s[i]
    BY <1>1, <1>2, <1>5
  <1> QED
    BY <1>2, <1>3, <1>4, <1>6, <1>7 DEF n, f

\* An empty line begun.
LEMMA LineBegun ==
    ASSUME NEW S, NEW s \in Seq(S), NEW e \in S
    PROVE  LET n == Append(s, e)
           IN  /\ n \in Seq(S) /\ n # <<>> /\ Len(n) = Len(s) + 1 /\ Len(s) \in Nat /\ Last(n) = e
               /\ \A i \in 1 .. Len(s) + 1 : n[i] = IF i = Len(s) + 1 THEN e ELSE s[i]
  <1> DEFINE n == Append(s, e)
  <1>1. /\ n \in Seq(S) /\ Len(n) = Len(s) + 1 /\ Len(s) \in Nat
        /\ \A i \in 1 .. Len(s) : n[i] = s[i]
        /\ n[Len(s) + 1] = e /\ n # <<>>
    BY AppendProperties
  <1> HIDE DEF n
  <1>2. Last(n) = e
    BY <1>1 DEF Last
  <1>3. ASSUME NEW i \in 1 .. Len(s) + 1 PROVE n[i] = IF i = Len(s) + 1 THEN e ELSE s[i]
    BY <1>1
  <1> QED
    BY <1>1, <1>2, <1>3 DEF n

\* The first line gone.
LEMMA LineDropped ==
    ASSUME NEW S, NEW s \in Seq(S), Len(s) > 1
    PROVE  LET n == Tail(s)
           IN  /\ n \in Seq(S) /\ n # <<>> /\ Len(n) = Len(s) - 1 /\ Last(n) = Last(s)
               /\ \A i \in 1 .. Len(s) - 1 : n[i] = s[i + 1]
  <1> DEFINE n == Tail(s)
  <1>1. Len(s) \in Nat /\ s # <<>>
    OBVIOUS
  <1>2. /\ n \in Seq(S) /\ Len(n) = Len(s) - 1
        /\ \A i \in 1 .. Len(n) : n[i] = s[i + 1]
    BY <1>1, HeadTailProperties
  <1> HIDE DEF n
  <1>3. Len(n) # 0 /\ \A i \in 1 .. Len(s) - 1 : n[i] = s[i + 1]
    BY <1>1, <1>2
  <1>4. n # <<>>
    BY <1>3, EmptySeq
  <1>5. n[Len(n)] = s[Len(s)]
    <2>1. Len(s) - 1 \in 1 .. Len(s) - 1 /\ Len(s) - 1 + 1 = Len(s)
      BY <1>1
    <2>2. n[Len(s) - 1] = s[Len(s) - 1 + 1]
      BY <1>3, <2>1
    <2> QED
      BY <1>2, <2>1, <2>2
  <1> QED
    BY <1>2, <1>3, <1>4, <1>5 DEF n, Last

-----------------------------------------------------------------------------
(* The screen after a character.                                           *)

\* An empty line shows as the blank row it is begun on.
LEMMA ShowsBegun ==
    ASSUME NEW f, NEW ls \in Seq(Seq(AllGlyphs)), Shows(f, ls)
    PROVE  Shows(f, Append(ls, <<>>))
  <1> DEFINE n == Append(ls, <<>>)
  <1>1. <<>> \in Seq(AllGlyphs) /\ Len(<<>>) = 0
    OBVIOUS
  <1>2. /\ Len(n) = Len(ls) + 1 /\ Len(ls) \in Nat
        /\ \A i \in 1 .. Len(ls) + 1 : n[i] = IF i = Len(ls) + 1 THEN <<>> ELSE ls[i]
    BY <1>1, LineBegun
  <1> HIDE DEF n
  <1>3. ASSUME NEW r \in 1 .. Height, NEW c \in 0 .. Width - 1
        PROVE  LineCell(n, r, c) = LineCell(ls, r, c)
    <2>0. r \in Nat /\ r >= 1 /\ c \in Nat
      BY SizeFacts
    <2>1. CASE r <= Len(ls)
      BY <1>2, <2>0, <2>1 DEF LineCell
    <2>2. CASE r = Len(ls) + 1
      <3>1. n[r] = <<>> /\ Len(n[r]) = 0
        BY <1>1, <1>2, <2>0, <2>2
      <3>2. ~(c < Len(n[r])) /\ ~(r <= Len(ls))
        BY <1>2, <2>0, <2>2, <3>1
      <3> QED
        BY <3>2 DEF LineCell
    <2>3. CASE r > Len(ls) + 1
      <3>1. ~(r <= Len(ls)) /\ ~(r <= Len(n))
        BY <1>2, <2>0, <2>3
      <3> QED
        BY <3>1 DEF LineCell
    <2> QED
      BY <1>2, <2>0, <2>1, <2>2, <2>3
  <1> QED
    BY <1>3 DEF Shows, n

\* term_scroll takes the first line away.
LEMMA ShowsScrolled ==
    ASSUME NEW f \in [Places -> AllGlyphs], NEW ls \in Seq(Seq(AllGlyphs)),
           Len(ls) = Height, Last(ls) = <<>>, Shows(f, ls)
    PROVE  Shows(Scrolled(f), Tail(ls))
  <1> DEFINE n == Tail(ls)
  <1>0. Len(ls) > 1 /\ Height \in Nat /\ Len(<<>>) = 0
    BY SizeFacts
  <1>1. /\ Len(n) = Height - 1
        /\ \A i \in 1 .. Height - 1 : n[i] = ls[i + 1]
    BY <1>0, LineDropped
  <1> HIDE DEF n
  <1>2. ASSUME NEW r \in 1 .. Height, NEW c \in 0 .. Width - 1
        PROVE  Scrolled(f)[Index(c, r)] = LineCell(n, r, c)
    <2>0. r \in Nat /\ r >= 1 /\ r <= Height /\ c \in Nat
      BY SizeFacts
    <2>1. /\ Index(c, r) \in Places /\ Index(c, r) >= Index(0, SCREEN_START)
          /\ Index(c, r) < Index(0, Height) <=> r < Height
          /\ Index(c, r) + Width = Index(c, r + 1)
      BY IndexFacts
    <2>2. Scrolled(f)[Index(c, r)] = IF r < Height THEN f[Index(c, r + 1)] ELSE f[Index(c, r)]
      BY <2>1 DEF Scrolled
    <2>3. CASE r < Height
      <3>1. r + 1 \in 1 .. Height /\ r \in 1 .. Height - 1
        BY <1>0, <2>0, <2>3
      <3>2. f[Index(c, r + 1)] = LineCell(ls, r + 1, c)
        BY <3>1 DEF Shows
      <3>3. n[r] = ls[r + 1] /\ r <= Len(n) /\ r + 1 <= Len(ls)
        BY <1>0, <1>1, <2>0, <3>1
      <3>4. LineCell(n, r, c) = LineCell(ls, r + 1, c)
        BY <3>3 DEF LineCell
      <3> QED
        BY <2>2, <2>3, <3>2, <3>4
    <2>4. CASE r = Height
      <3>1. f[Index(c, r)] = LineCell(ls, r, c)
        BY DEF Shows
      <3>2. ls[r] = <<>>
        BY <2>4 DEF Last
      <3>3. ~(c < Len(ls[r])) /\ ~(r <= Len(n))
        BY <1>0, <1>1, <2>0, <2>4, <3>2
      <3>4. LineCell(ls, r, c) = BLANK /\ LineCell(n, r, c) = BLANK
        BY <3>3 DEF LineCell
      <3> QED
        BY <2>2, <2>4, <3>1, <3>4
    <2> QED
      BY <2>0, <2>3, <2>4
  <1> QED
    BY <1>2 DEF Shows, n

\* One place of the last line is stored: with the character that ends the line, or
\* with a blank behind its end.
LEMMA ShowsStored ==
    ASSUME NEW f \in [Places -> AllGlyphs], NEW ls \in Seq(Seq(AllGlyphs)), ls # <<>>,
           Len(ls) < Height, Shows(f, ls),
           NEW line \in Seq(AllGlyphs), NEW d \in 0 .. Width - 1, NEW g \in AllGlyphs,
           g = IF d < Len(line) THEN line[d + 1] ELSE BLANK,
           \A c \in 0 .. Width - 1 \ {d} :
              (IF c < Len(line) THEN line[c + 1] ELSE BLANK) =
              (IF c < Len(Last(ls)) THEN Last(ls)[c + 1] ELSE BLANK)
    PROVE  Shows([f EXCEPT ![Index(d, Len(ls))] = g], Append(Front(ls), line))
  <1> DEFINE n == Append(Front(ls), line)
             h == [f EXCEPT ![Index(d, Len(ls))] = g]
             m == Len(ls)
  <1>1. /\ Len(n) = m /\ \A i \in 1 .. m : n[i] = IF i = m THEN line ELSE ls[i]
    BY LastReplaced
  <1>2. m \in 1 .. Height /\ m \in Nat /\ Height \in Nat /\ Width \in Nat /\ Last(ls) = ls[m]
    BY FrontLast, SizeFacts DEF Last
  <1> HIDE DEF n, m
  <1>3. ASSUME NEW r \in 1 .. Height, NEW c \in 0 .. Width - 1
        PROVE  h[Index(c, r)] = LineCell(n, r, c)
    <2>0. Index(c, r) \in Places
      BY IndexFacts
    <2>1. r \in Nat /\ Index(c, r) \in Places /\ Index(d, m) \in Places
      BY <1>2, <2>0, IndexFacts
    <2>2. f[Index(c, r)] = LineCell(ls, r, c)
      BY DEF Shows
    <2>3. CASE r = m /\ c = d
      <3>1. h[Index(c, r)] = g
        BY <2>1, <2>3 DEF m
      <3>2. LineCell(n, r, c) = IF d < Len(line) THEN line[d + 1] ELSE BLANK
        BY <1>1, <1>2, <2>3 DEF LineCell
      <3> QED
        BY <3>1, <3>2
    <2>4. CASE ~(r = m /\ c = d)
      <3>1. Index(c, r) # Index(d, m)
        BY <1>2, <2>1, <2>4, IndexInjective
      <3>2. h[Index(c, r)] = f[Index(c, r)]
        BY <2>1, <3>1 DEF m
      <3>3. CASE r # m
        <4>1. LineCell(n, r, c) = LineCell(ls, r, c)
          BY <1>1, <1>2, <2>1, <3>3 DEF LineCell, m
        <4> QED
          BY <2>2, <3>2, <4>1
      <3>4. CASE r = m
        <4>1. c \in 0 .. Width - 1 \ {d}
          BY <2>4, <3>4
        <4>2. LineCell(n, r, c) = IF c < Len(line) THEN line[c + 1] ELSE BLANK
          BY <1>1, <1>2, <3>4 DEF LineCell
        <4>3. LineCell(ls, r, c) = IF c < Len(Last(ls)) THEN Last(ls)[c + 1] ELSE BLANK
          BY <1>2, <3>4 DEF LineCell, m
        <4> QED
          BY <2>2, <3>2, <4>1, <4>2, <4>3
      <3> QED
        BY <3>3, <3>4
    <2> QED
      BY <2>3, <2>4
  <1> QED
    BY <1>3 DEF Shows, n, h

\* A line is ended: by a newline, or because the row is full.
LEMMA LineBroken ==
    ASSUME NEW f \in [Places -> AllGlyphs], NEW ls \in Seq(Seq(AllGlyphs)), ls # <<>>,
           Len(ls) < Height, Shows(f, ls)
    PROVE  Pending(f, LastLines(Append(ls, <<>>)), <<Len(ls) + 1, 0>>)
  <1> DEFINE n == Append(ls, <<>>)
             t == <<Len(ls) + 1, 0>>
  <1>0. <<>> \in Seq(AllGlyphs) /\ Len(<<>>) = 0
    OBVIOUS
  <1>1. /\ n \in Seq(Seq(AllGlyphs)) /\ Len(n) = Len(ls) + 1 /\ Len(ls) \in Nat /\ Last(n) = <<>>
    BY <1>0, LineBegun, ZenonT(30)
  <1>2. Shows(f, n) /\ Len(ls) >= 1
    BY ShowsBegun, FrontLast
  <1> HIDE DEF n
  <1>3. t[1] = Len(ls) + 1 /\ t[2] = 0 /\ Height \in Nat /\ Width > 0 /\ Width \in Nat
    BY SizeFacts
  <1> HIDE DEF t
  <1>4. LastLines(n) = IF Len(n) > Height - 1 THEN Tail(n) ELSE n
    BY DEF LastLines, SCREEN_START
  <1>5. CASE Len(ls) + 1 > Height - 1
    <2>1. Len(n) = Height /\ Len(n) > 1 /\ Len(n) > Height - 1
      BY <1>1, <1>2, <1>3, <1>5
    <2>2. Shows(Scrolled(f), Tail(n))
      BY <1>1, <1>2, <2>1, ShowsScrolled
    <2>3. Len(Tail(n)) = Height - 1 /\ Last(Tail(n)) = <<>>
      BY <1>1, <2>1, LineDropped
    <2>4. Len(Tail(n)) < Height /\ t[1] - 1 = Len(Tail(n)) /\ t[1] > Height - 1
      BY <1>1, <1>3, <2>1, <2>3
    <2>5. Len(Last(Tail(n))) = 0
      BY <1>0, <2>3
    <2> QED
      BY <1>3, <1>4, <2>1, <2>2, <2>4, <2>5 DEF Pending, Settled, n, t
  <1>6. CASE ~(Len(ls) + 1 > Height - 1)
    <2>1. ~(Len(n) > Height - 1) /\ Len(n) < Height /\ t[1] = Len(n) /\ ~(t[1] > Height - 1)
      BY <1>1, <1>3, <1>6
    <2>2. Len(Last(n)) = 0
      BY <1>0, <1>1
    <2> QED
      BY <1>2, <1>3, <1>4, <2>1, <2>2 DEF Pending, Settled, n, t
  <1> QED
    BY <1>5, <1>6

\* What term_putchar does to a screen that shows the text and to the cursor at its end,
\* for every character.  A backspace has to be right of the prompt's column.
LEMMA CharacterShown ==
    ASSUME NEW f \in [Places -> AllGlyphs], NEW ls \in Seq(Seq(AllGlyphs)), ls # <<>>,
           NEW r, NEW c, Settled(f, ls, r, c), NEW ch \in Chars, ch = BS => Len(Last(ls)) > pmtlen
    PROVE  Pending(Shown(f, ch, c, r), Printed(ls, ch), Advanced(Entered(ch, <<r, c>>)))
  <1> DEFINE line == Last(ls)
             m == Len(ls)
             n == Len(line)
  <1>1. /\ m \in Nat /\ m >= 1 /\ line \in Seq(AllGlyphs)
    BY FrontLast
  <1>2. /\ m < Height /\ r = m /\ n < Width /\ c = n /\ Shows(f, ls)
    BY DEF Settled
  <1>3. n \in Nat /\ Width \in Nat /\ Height \in Nat /\ Width > 1 /\ n \in 0 .. Width - 1
    <2>1. n \in Nat
      BY <1>1
    <2> QED
      BY <1>2, <2>1, SizeFacts
  <1> HIDE DEF line, m, n
  <1>4. CASE ch = NL
    <2>1. Shown(f, ch, c, r) = f /\ Printed(ls, ch) = LastLines(Append(ls, <<>>))
      BY <1>4 DEF Shown, Printed, NL, BS
    <2>2. Entered(ch, <<r, c>>) = <<r + 1, -1>>
      BY <1>4 DEF Entered, NL, BS
    <2>3. Advanced(<<r + 1, -1>>) = <<m + 1, 0>>
      BY <1>2, <1>3 DEF Advanced
    <2>4. Pending(f, LastLines(Append(ls, <<>>)), <<m + 1, 0>>)
      BY <1>2, LineBroken DEF m
    <2> QED
      BY <2>1, <2>2, <2>3, <2>4
  <1>5. CASE ch = BS
    <2> DEFINE new == Front(line)
               h == [f EXCEPT ![Index(n - 1, m)] = BLANK]
    <2>0. n > 1
      BY <1>5 DEF pmtlen, n, line
    <2>1. RightOfPrompt(c)
      BY <1>2, <1>3, <2>0 DEF RightOfPrompt, pmtlen
    <2>2. Shown(f, ch, c, r) = h
      BY <1>2, <1>5, <2>1 DEF Shown, NL, BS
    <2>3. line # <<>>
      BY <1>3, <2>0, EmptySeq DEF n
    <2>4. Printed(ls, ch) = Append(Front(ls), new)
      BY <1>5, <2>3 DEF Printed, NL, BS, line
    <2>5. Entered(ch, <<r, c>>) = <<r, c - 2>>
      BY <1>5, <2>1 DEF Entered, NL, BS
    <2>6. Advanced(<<r, c - 2>>) = <<m, n - 1>>
      BY <1>2, <1>3 DEF Advanced
    <2>7. /\ new \in Seq(AllGlyphs) /\ Len(new) = n - 1 /\ \A i \in 1 .. n - 1 : new[i] = line[i]
      BY <1>1, <2>3, FrontLast DEF n
    <2> HIDE DEF new
    <2>8. Shows(h, Append(Front(ls), new))
      <3> DEFINE d == n - 1
      <3>1. d \in 0 .. Width - 1 /\ ~(d < Len(new))
        BY <1>3, <2>0, <2>7
      <3>2. ASSUME NEW k \in 0 .. Width - 1 \ {d}
            PROVE  (IF k < Len(new) THEN new[k + 1] ELSE BLANK) =
                   (IF k < Len(line) THEN line[k + 1] ELSE BLANK)
        <4>1. CASE k < n - 1
          <5>1. k + 1 \in 1 .. n - 1 /\ k < n
            BY <1>3, <4>1
          <5> QED
            BY <2>7, <4>1, <5>1 DEF n
        <4>2. CASE ~(k < n - 1)
          <5>1. ~(k < n)
            BY <1>3, <4>2
          <5> QED
            BY <2>7, <4>2, <5>1 DEF n
        <4> QED
          BY <4>1, <4>2
      <3>3. BLANK = IF d < Len(new) THEN new[d + 1] ELSE BLANK
        BY <3>1
      <3> HIDE DEF d
      <3>4. Shows([f EXCEPT ![Index(d, Len(ls))] = BLANK], Append(Front(ls), new))
        BY <1>2, <2>7, <3>1, <3>2, <3>3, BlankType, ShowsStored DEF m, line
      <3> QED
        BY <3>4 DEF m, d
    <2>9. Len(Append(Front(ls), new)) = m /\ Last(Append(Front(ls), new)) = new
      BY <2>7, LastReplaced DEF m
    <2>10. Settled(h, Append(Front(ls), new), m, n - 1)
      BY <1>2, <1>3, <2>7, <2>8, <2>9 DEF Settled
    <2>11. ~(m > Height - 1)
      BY <1>1, <1>2, <1>3
    <2> HIDE DEF h
    <2>12. Pending(h, Append(Front(ls), new), <<m, n - 1>>)
      BY <2>10, <2>11 DEF Pending
    <2> QED
      BY <2>2, <2>4, <2>5, <2>6, <2>12
  <1>6. CASE ch \notin {NL, BS}
    <2> DEFINE new == Append(line, ch)
               more == Append(Front(ls), new)
               h == [f EXCEPT ![Index(n, m)] = ch]
    <2>0. ch \in AllGlyphs
      BY <1>6 DEF Chars
    <2>1. Shown(f, ch, c, r) = h
      BY <1>2, <1>6 DEF Shown
    <2>2. Printed(ls, ch) = IF n + 1 = Width THEN LastLines(Append(more, <<>>)) ELSE more
      BY <1>6 DEF Printed, line, n
    <2>3. Entered(ch, <<r, c>>) = <<m, n>>
      BY <1>2, <1>6 DEF Entered
    <2>4. Advanced(<<m, n>>) = IF n + 1 = Width THEN <<m + 1, 0>> ELSE <<m, n + 1>>
      BY DEF Advanced
    <2>5. /\ new \in Seq(AllGlyphs) /\ Len(new) = n + 1
          /\ \A i \in 1 .. n + 1 : new[i] = IF i = n + 1 THEN ch ELSE line[i]
      BY <1>1, <2>0, LineBegun DEF n
    <2> HIDE DEF new
    <2>6. Shows(h, more)
      <3>1. n < Len(new) /\ new[n + 1] = ch
        BY <1>3, <2>5
      <3>2. ASSUME NEW k \in 0 .. Width - 1 \ {n}
            PROVE  (IF k < Len(new) THEN new[k + 1] ELSE BLANK) =
                   (IF k < Len(line) THEN line[k + 1] ELSE BLANK)
        <4>1. CASE k < n
          <5>1. k + 1 \in 1 .. n + 1 /\ k + 1 # n + 1 /\ k < n + 1
            BY <1>3, <4>1
          <5> QED
            BY <2>5, <4>1, <5>1 DEF n
        <4>2. CASE ~(k < n)
          <5>1. ~(k < n + 1)
            BY <1>3, <4>2
          <5> QED
            BY <2>5, <4>2, <5>1 DEF n
        <4> QED
          BY <4>1, <4>2
      <3>3. ch = IF n < Len(new) THEN new[n + 1] ELSE BLANK
        BY <3>1
      <3>4. Shows([f EXCEPT ![Index(n, Len(ls))] = ch], Append(Front(ls), new))
        BY <1>2, <1>3, <2>0, <2>5, <3>2, <3>3, ShowsStored DEF m, line
      <3> QED
        BY <3>4 DEF m
    <2>7. /\ more \in Seq(Seq(AllGlyphs)) /\ more # <<>> /\ Len(more) = m /\ Last(more) = new
      BY <2>5, LastReplaced DEF m
    <2>8. h \in [Places -> AllGlyphs]
      BY <2>0
    <2> HIDE DEF h, more
    <2>9. CASE n + 1 = Width
      <3>1. Pending(h, LastLines(Append(more, <<>>)), <<m + 1, 0>>)
        BY <1>2, <2>6, <2>7, <2>8, LineBroken
      <3> QED
        BY <2>1, <2>2, <2>3, <2>4, <2>9, <3>1
    <2>10. CASE n + 1 # Width
      <3>1. Settled(h, more, m, n + 1)
        <4>1. n + 1 < Width
          BY <1>2, <1>3, <2>10
        <4> QED
          BY <1>2, <2>5, <2>6, <2>7, <4>1 DEF Settled
      <3>2. ~(m > Height - 1)
        BY <1>1, <1>2, <1>3
      <3>3. Pending(h, more, <<m, n + 1>>)
        BY <3>1, <3>2 DEF Pending
      <3> QED
        BY <2>1, <2>2, <2>3, <2>4, <2>10, <3>3
    <2> QED
      BY <2>9, <2>10
  <1> QED
    BY <1>4, <1>5, <1>6

-----------------------------------------------------------------------------
(* The steps.                                                              *)

\* A row that is full is raised and the screen scrolled.
LEMMA PendingSettles ==
    ASSUME NEW f, NEW ls, NEW t, Pending(f, ls, t)
    PROVE  Settled(IF t[1] > Height - 1 THEN Scrolled(f) ELSE f, ls, Raised(t)[1], Raised(t)[2])
  <1>1. CASE t[1] > Height - 1
    BY <1>1 DEF Pending, Raised
  <1>2. CASE ~(t[1] > Height - 1)
    BY <1>2 DEF Pending, Raised
  <1> QED
    BY <1>1, <1>2

\* A key.  None comes to a quiet machine while the thread prints.
LEMMA KeyText ==
    ASSUME TextInv, ScreenInv, Keys
    PROVE  TextInv'
  <1>1. ASSUME NEW ch \in Chars, Echo(ch), pc = "read", pc' \in {"read", "idle"} PROVE TextInv'
    <2> DEFINE t == Advanced(Entered(ch, cursor))
               f == Shown(cells, ch, term_column, term_row)
               g == IF t[1] > Height - 1 THEN Scrolled(f) ELSE f
    <2>1. /\ term_row' = Raised(t)[1] /\ term_column' = Raised(t)[2]
          /\ Track(g, Printed(lines, ch), scroll_term /\ Follows(ch))
          /\ quiet' = quiet
      BY <1>1 DEF Echo
    <2>2. LoadInv'
      BY <1>1 DEF LoadInv
    <2>3. ASSUME plain' PROVE quiet' /\ PlainInv'
      <3>1. plain /\ Follows(ch) /\ cells' = g /\ lines' = Printed(lines, ch)
        BY <2>1, <2>3 DEF Track
      <3>2. Settled(cells, lines, term_row, term_column) /\ quiet
        BY <1>1, <3>1 DEF TextInv, PlainInv
      <3>3. Pending(f, Printed(lines, ch), t)
        BY <3>1, <3>2, CharacterShown DEF ScreenInv, Follows, cursor
      <3> HIDE DEF t, f
      <3>4. Settled(g, Printed(lines, ch), Raised(t)[1], Raised(t)[2])
        BY <3>3, PendingSettles
      <3>5. Settled(cells', lines', term_row', term_column')
        BY <2>1, <3>1, <3>4
      <3> QED
        BY <1>1, <2>1, <3>2, <3>5 DEF PlainInv, PutInv, SavedInv, TitleInv, Putting, Behind
    <2> QED
      BY <2>2, <2>3 DEF TextInv
  <1>2. ASSUME NEW ch \in Chars, Echo(ch), pc # "read", Interrupts PROVE TextInv'
    <2>1. ~quiet /\ quiet' = quiet /\ ~plain
      BY <1>2 DEF Interrupts, Echo, TextInv
    <2>2. ~plain'
      BY <1>2, <2>1 DEF Echo, Track
    <2> QED
      BY <2>1, <2>2 DEF TextInv
  <1>3. NL \in Chars /\ BS \in Chars /\ \A g \in Glyphs : g \in Chars
    BY DEF Chars, AllGlyphs
  <1>4. ASSUME NEW g \in Glyphs, TypeKey(g) PROVE TextInv'
    BY <1>1, <1>2, <1>3, <1>4 DEF TypeKey
  <1>5. CASE BackspaceKey
    BY <1>1, <1>2, <1>3, <1>5 DEF BackspaceKey
  <1>6. CASE EnterKey
    BY <1>2, <1>3, <1>6 DEF EnterKey
  <1>7. CASE EndLine
    BY <1>1, <1>3, <1>7 DEF EndLine
  <1> QED
    BY <1>4, <1>5, <1>6, <1>7 DEF Keys

\* The thread's loads are not overtaken on a quiet machine.
LEMMA ThreadLoads ==
    ASSUME TextInv, Thread
    PROVE  quiet' => LoadInv'
  <1>1. quiet' = quiet
    BY DEF Thread, Calls, Write, ReadLine, List, Cls, SetScroll, Draw, Title, Start, Putchar, FetchRow,
       FetchColumn, Entry, Newline, Inc, Wrap, Home, NextRow, Test, Raise, UndoNl, UndoColumn,
       ClsRow, ClsRest, SaveColumn, SaveRow, MoveRow, MoveColumn, RowBack, ColumnBack, Goto
  <1>2. quiet => LoadInv
    BY DEF TextInv
  <1>3. CASE FetchRow \/ FetchColumn \/ Test \/ ClsRow
    BY <1>1, <1>2, <1>3 DEF FetchRow, FetchColumn, Test, ClsRow, Goto, LoadInv, cursor
  <1>4. CASE pc' \notin {"column?", "entry", "raise", "cls2"}
    BY <1>4 DEF LoadInv
  <1>5. Calls => pc' \notin {"column?", "entry", "raise", "cls2"}
    BY DEF Calls, Write, ReadLine, List, Cls, SetScroll, Draw, Title, Start
  <1>6. Entry \/ Newline \/ Inc \/ Wrap \/ Home \/ NextRow \/ Raise
        => pc' \notin {"column?", "entry", "raise", "cls2"}
    BY DEF Entry, Newline, Inc, Wrap, Home, NextRow, Raise, AfterText, Goto
  <1>7. \/ UndoNl \/ UndoColumn \/ ClsRest \/ SaveColumn \/ SaveRow \/ MoveRow \/ MoveColumn
        \/ RowBack \/ ColumnBack
        => pc' \notin {"column?", "entry", "raise", "cls2"}
    BY DEF UndoNl, UndoColumn, ClsRest, SaveColumn, SaveRow, MoveRow, MoveColumn, RowBack, ColumnBack, Goto
  <1> QED
    BY <1>3, <1>4, <1>5, <1>6, <1>7 DEF Thread, Putchar

\* A call is entered.
LEMMA CallText ==
    ASSUME TextInv, CursorInv, Calls, plain'
    PROVE  quiet' /\ PlainInv'
  <1>1. /\ pc = "idle" /\ quiet' = quiet /\ UNCHANGED <<term_row, term_column>>
        /\ pc' \in {"row?", "idle", "cls", "column>"}
    BY DEF Calls, Write, ReadLine, List, Cls, SetScroll, Draw, Title, Start, cursor
  <1>2. ~List /\ UNCHANGED <<cells, lines, plain>>
    BY DEF Calls, Write, ReadLine, List, Cls, SetScroll, Draw, Title, screen, Track
  <1>3. quiet /\ Settled(cells, lines, term_row, term_column)
    BY <1>1, <1>2 DEF TextInv, PlainInv
  <1>4. Settled(cells', lines', term_row', term_column')
    BY <1>1, <1>2, <1>3
  <1>5. call' # "ls" /\ (pc' = "row?" => call' \in Prints)
    BY <1>2 DEF Calls, Write, ReadLine, Cls, SetScroll, Draw, Title, Start, Prints
  <1>6. call' = "title" /\ pc' = "column>" => target' = <<Width - Len(text'), 0>>
    <2>1. ASSUME NEW n \in Titles, Title(n) PROVE target' = <<Width - Len(text'), 0>>
      <3>1. n \in Nat
        BY TextAssumption, SizeFacts
      <3>2. text' = [i \in 1 .. n |-> "#"] /\ target' = <<Width - n, 0>>
        BY <2>1 DEF Title
      <3>3. Len(text') = n
        BY <3>1, <3>2
      <3> QED
        BY <3>2, <3>3
    <2> QED
      BY <1>2, <2>1 DEF Calls, Write, ReadLine, Cls, SetScroll, Draw, Start
  <1> QED
    BY <1>1, <1>3, <1>4, <1>5, <1>6 DEF PlainInv, PutInv, SavedInv, TitleInv, Putting, Behind, Prints, Moves

\* The steps of a title or a drawing around term_putchar, and of term_cls.
LEMMA MoveText ==
    ASSUME TextInv, CursorInv, plain',
           \/ SaveColumn \/ SaveRow \/ MoveRow \/ MoveColumn \/ RowBack \/ ColumnBack
           \/ UndoNl \/ UndoColumn \/ ClsRow
    PROVE  quiet' /\ PlainInv'
  <1>1. /\ quiet' = quiet /\ UNCHANGED <<cells, lines, plain>> /\ text' = text
        /\ call' = IF pc' = "idle" THEN "none" ELSE call
    BY DEF SaveColumn, SaveRow, MoveRow, MoveColumn, RowBack, ColumnBack, UndoNl, UndoColumn, ClsRow,
       Goto, screen
  <1>2. quiet /\ PlainInv
    BY <1>1 DEF TextInv
  <1>3. ASSUME NEW r, NEW c, Settled(cells, lines, r, c) PROVE Settled(cells', lines', r, c)
    BY <1>1, <1>3
  <1>4. CASE SaveColumn
    <2>1. /\ pc = "column>" /\ pc' = "row>" /\ call \in Moves /\ lastcol' = term_column
          /\ UNCHANGED <<term_row, term_column, target>>
      BY <1>4 DEF SaveColumn, Goto, cursor, CursorInv, CallInv
    <2>2. Settled(cells', lines', term_row', term_column')
      BY <1>2, <1>3, <2>1 DEF PlainInv
    <2> QED
      BY <1>1, <1>2, <2>1, <2>2 DEF PlainInv, PutInv, SavedInv, TitleInv, Putting, Behind, Prints, Moves
  <1>5. CASE SaveRow
    <2>1. /\ pc = "row>" /\ pc' = "moverow" /\ call \in Moves /\ lastrow' = term_row
          /\ UNCHANGED <<term_row, term_column, lastcol, target>>
      BY <1>5 DEF SaveRow, Goto, cursor, CursorInv, CallInv
    <2>2. Settled(cells', lines', lastrow', lastcol')
      BY <1>2, <1>3, <2>1 DEF PlainInv, SavedInv
    <2> QED
      BY <1>1, <1>2, <2>1, <2>2 DEF PlainInv, PutInv, SavedInv, TitleInv, Putting, Behind, Prints, Moves
  <1>6. CASE MoveRow
    <2>1. /\ pc = "moverow" /\ pc' = "movecolumn" /\ call \in Moves /\ term_row' = target[2]
          /\ UNCHANGED <<lastrow, lastcol, target>>
      BY <1>6 DEF MoveRow, Goto, saved, CursorInv, CallInv
    <2>2. Settled(cells', lines', lastrow', lastcol')
      BY <1>2, <1>3, <2>1 DEF PlainInv, SavedInv
    <2>3. call = "title" => target = <<Width - Len(text), 0>>
      BY <1>2, <2>1 DEF PlainInv, TitleInv
    <2> QED
      BY <1>1, <1>2, <2>1, <2>2, <2>3 DEF PlainInv, PutInv, SavedInv, TitleInv, Putting, Behind, Prints,
         Moves
  <1>7. CASE MoveColumn
    <2>1. /\ pc = "movecolumn" /\ pc' = "row?" /\ call \in Moves /\ term_column' = target[1]
          /\ UNCHANGED <<term_row, lastrow, lastcol>>
      BY <1>7 DEF MoveColumn, Goto, CursorInv, CallInv
    <2>2. Settled(cells', lines', lastrow', lastcol')
      BY <1>2, <1>3, <2>1 DEF PlainInv, SavedInv
    <2>3. call = "title" => target = <<Width - Len(text), 0>> /\ term_row = 0
      BY <1>2, <2>1 DEF PlainInv, TitleInv
    <2> QED
      BY <1>1, <1>2, <2>1, <2>2, <2>3 DEF PlainInv, PutInv, SavedInv, TitleInv, Putting, Behind, Prints,
         Moves
  <1>8. CASE RowBack
    <2>1. /\ pc = "row<" /\ call \in Moves /\ term_row' = lastrow
          /\ pc' = IF call = "draw" THEN "idle" ELSE "column<"
          /\ UNCHANGED <<term_column, lastcol>>
      BY <1>8 DEF RowBack, Goto, CursorInv, CallInv
    <2>2. Settled(cells', lines', term_row', IF call = "draw" THEN term_column' ELSE lastcol')
      <3>1. Settled(cells, lines, lastrow, IF call = "draw" THEN term_column ELSE lastcol)
        BY <1>2, <2>1 DEF PlainInv, SavedInv
      <3> QED
        BY <1>3, <2>1, <3>1
    <2> QED
      BY <1>1, <1>2, <2>1, <2>2 DEF PlainInv, PutInv, SavedInv, TitleInv, Putting, Behind, Prints, Moves
  <1>9. CASE ColumnBack
    <2>1. /\ pc = "column<" /\ call \in Moves /\ term_column' = lastcol
          /\ pc' = IF call = "draw" THEN "row<" ELSE "idle"
          /\ UNCHANGED <<term_row, lastrow>>
      BY <1>9 DEF ColumnBack, Goto, CursorInv, CallInv
    <2>2. Settled(cells', lines', IF call = "draw" THEN lastrow' ELSE term_row', term_column')
      <3>1. Settled(cells, lines, IF call = "draw" THEN lastrow ELSE term_row, lastcol)
        BY <1>2, <2>1 DEF PlainInv, SavedInv
      <3> QED
        BY <1>3, <2>1, <3>1
    <2> QED
      BY <1>1, <1>2, <2>1, <2>2 DEF PlainInv, PutInv, SavedInv, TitleInv, Putting, Behind, Prints, Moves
  <1>10. CASE UndoNl \/ UndoColumn
    <2>1. pc \in {"undo", "undo2"} /\ call = "ls"
      BY <1>10 DEF UndoNl, UndoColumn, Goto, CursorInv, CallInv
    <2> QED
      BY <1>2, <2>1 DEF PlainInv
  <1>11. CASE ClsRow
    <2>1. pc' = "cls2"
      BY <1>11 DEF ClsRow, Goto
    <2> QED
      BY <1>1, <1>2, <2>1 DEF PlainInv, PutInv, SavedInv, TitleInv, Putting, Behind
  <1> QED
    BY <1>4, <1>5, <1>6, <1>7, <1>8, <1>9, <1>10, <1>11

\* The loads before term_putentryat.
LEMMA FetchText ==
    ASSUME TextInv, plain', FetchRow \/ FetchColumn
    PROVE  quiet' /\ PlainInv'
  <1>1. /\ pc \in {"row?", "column?"} /\ pc' \in {"column?", "entry"}
        /\ UNCHANGED <<quiet, call, text, cells, lines, plain, term_row, term_column, lastrow, lastcol>>
    BY DEF FetchRow, FetchColumn, Goto, cursor, saved, screen
  <1>2. quiet /\ PlainInv
    BY <1>1 DEF TextInv
  <1>3. call \in Prints => Settled(cells', lines', term_row', term_column')
    BY <1>1, <1>2 DEF PlainInv, PutInv, Putting, Behind
  <1>4. call \in Moves => Settled(cells', lines', lastrow', lastcol')
    BY <1>1, <1>2 DEF PlainInv, SavedInv, Putting
  <1>5. call = "title" => term_row = 0 /\ term_column = Width - Len(text)
    BY <1>1, <1>2 DEF PlainInv, TitleInv, Putting, Behind
  <1>6. call # "ls"
    BY <1>1, <1>2 DEF PlainInv, Putting
  <1> QED
    BY <1>1, <1>2, <1>3, <1>4, <1>5, <1>6 DEF PlainInv, PutInv, SavedInv, TitleInv, Putting, Behind

\* The steps behind it take the cursor to the place it is coming to.
LEMMA ComingStays ==
    ASSUME CursorInv, Newline \/ Inc \/ Wrap \/ Home \/ NextRow \/ Test
    PROVE  Coming' = Coming /\ pc \in Behind /\ pc' \in Behind
  <1>1. term_column \in Int /\ reg \in Int
    BY DEF CursorInv, ColumnInv
  <1>2. CASE Newline
    BY <1>2, SizeFacts DEF Newline, Goto, Coming, Advanced, cursor, Behind, Putting
  <1>3. CASE Inc
    BY <1>1, <1>3, SizeFacts DEF Inc, Goto, Coming, Advanced, cursor, Behind, Putting
  <1>4. CASE Wrap
    BY <1>1, <1>4, SizeFacts DEF Wrap, Goto, Coming, cursor, regs, Behind, Putting
  <1>5. CASE Home
    BY <1>5 DEF Home, Goto, Coming, cursor, Behind, Putting
  <1>6. CASE NextRow
    BY <1>6 DEF NextRow, Goto, Coming, cursor, Behind, Putting
  <1>7. CASE Test
    BY <1>7 DEF Test, Goto, Coming, cursor, Behind, Putting
  <1> QED
    BY <1>2, <1>3, <1>4, <1>5, <1>6, <1>7

LEMMA BehindText ==
    ASSUME TextInv, CursorInv, plain', Newline \/ Inc \/ Wrap \/ Home \/ NextRow \/ Test
    PROVE  quiet' /\ PlainInv'
  <1>1. UNCHANGED <<quiet, text, cells, lines, plain, lastrow, lastcol, scroll_term>>
    BY DEF Newline, Inc, Wrap, Home, NextRow, Test, Goto, saved, screen
  <1>2. Coming' = Coming /\ pc \in Behind /\ pc' \in Behind
    BY ComingStays
  <1>3. call' = call
    BY DEF Newline, Inc, Wrap, Home, NextRow, Test, Goto
  <1>4. quiet /\ PlainInv
    BY <1>1 DEF TextInv
  <1>5. call \in Prints => Pending(cells', lines', Coming') /\ scroll_term'
    BY <1>1, <1>2, <1>4 DEF PlainInv, PutInv
  <1>6. call \in Moves => Settled(cells', lines', lastrow', lastcol') /\ Coming[1] \in {0, 1}
    BY <1>1, <1>2, <1>4 DEF PlainInv, SavedInv, Behind
  <1>7. call = "title" /\ Len(text) > 1 => Coming = <<0, Width - Len(text) + 1>>
    BY <1>2, <1>4 DEF PlainInv, TitleInv
  <1>8. call # "ls"
    BY <1>2, <1>4 DEF PlainInv, Behind
  <1> QED
    BY <1>1, <1>2, <1>3, <1>4, <1>5, <1>6, <1>7, <1>8 DEF PlainInv, PutInv, SavedInv, TitleInv, Behind,
       Putting

\* A store in the status bar leaves the text alone.
LEMMA StatusBarApart ==
    ASSUME NEW f \in [Places -> AllGlyphs], NEW ls, NEW r, NEW c, Settled(f, ls, r, c),
           NEW g, NEW d \in 0 .. Width - 1
    PROVE  Settled([f EXCEPT ![Index(d, 0)] = g], ls, r, c)
  <1> DEFINE h == [f EXCEPT ![Index(d, 0)] = g]
  <1>1. Index(d, 0) = d /\ d < Width /\ d \in Int /\ Width \in Nat
    BY SizeFacts DEF Index
  <1>2. ASSUME NEW s \in 1 .. Height, NEW k \in 0 .. Width - 1 PROVE h[Index(k, s)] = f[Index(k, s)]
    <2>1. Index(k, s) \in Places /\ Index(k, s) >= Width
      BY IndexFacts
    <2>2. Index(k, s) # d
      BY <1>1, <2>1 DEF Places
    <2> QED
      BY <1>1, <2>1, <2>2
  <1>3. Shows(h, ls)
    BY <1>2 DEF Settled, Shows
  <1> QED
    BY <1>3 DEF Settled, h

\* term_putentryat.
LEMMA EntryText ==
    ASSUME TextInv, CursorInv, ScreenInv, plain', Entry
    PROVE  quiet' /\ PlainInv'
  <1> DEFINE ch == Head(text)
  <1>1. /\ pc = "entry" /\ pc' = IF ch = NL THEN "newline" ELSE "inc"
        /\ UNCHANGED <<quiet, text, call, scroll_term, term_column, lastrow, lastcol>>
        /\ term_row' = IF ch = NL THEN term_row + 1 ELSE term_row
    BY DEF Entry, Goto, saved
  <1>2. /\ plain /\ cells' = Shown(cells, ch, x, y)
        /\ lines' = IF call \in Prints THEN Printed(lines, ch) ELSE lines
        /\ (call = "draw" => y = 0) /\ (call \in Prints => scroll_term)
    BY DEF Entry, Track, Prints
  <1>3. quiet /\ PlainInv /\ y = term_row /\ x = term_column
    BY <1>1, <1>2 DEF TextInv, LoadInv
  <1>4. call \in Prints \cup Moves /\ call # "ls" /\ text # <<>> /\ text \in Seq(AllGlyphs \cup {NL})
    BY <1>1, <1>3 DEF CursorInv, CallInv, Putting, PlainInv, Writes, Prints
  <1>5. ch \in AllGlyphs \cup {NL} /\ ch # BS /\ ch = text[1] /\ Len(text) \in Nat /\ Len(text) >= 1
    <2>1. ch \in AllGlyphs \cup {NL} /\ ch = text[1] /\ Len(text) \in Nat /\ Len(text) >= 1
      BY <1>4
    <2>2. BS \notin AllGlyphs \cup {NL}
      BY TextAssumption DEF AllGlyphs, BLANK, Prompt, NL, BS
    <2> QED
      BY <2>1, <2>2
  <1> HIDE DEF ch
  <1>6. CASE call \in Prints
    <2>1. Settled(cells, lines, term_row, term_column)
      BY <1>1, <1>3, <1>6 DEF PlainInv, PutInv, Putting, Behind
    <2>2. Pending(Shown(cells, ch, term_column, term_row), Printed(lines, ch),
                  Advanced(Entered(ch, <<term_row, term_column>>)))
      BY <1>5, <2>1, CharacterShown DEF ScreenInv, Chars
    <2>3. Coming' = Advanced(Entered(ch, <<term_row, term_column>>))
      <3>1. CASE ch = NL
        <4>1. Entered(ch, <<term_row, term_column>>) = <<term_row + 1, -1>>
          BY <3>1 DEF Entered, NL, BS
        <4> QED
          BY <1>1, <3>1, <4>1, SizeFacts DEF Coming, Advanced
      <3>2. CASE ch # NL
        <4>1. Entered(ch, <<term_row, term_column>>) = <<term_row, term_column>>
          BY <1>5, <3>2 DEF Entered
        <4>2. pc' = "inc" /\ cursor' = <<term_row, term_column>>
          BY <1>1, <3>2 DEF cursor
        <4> QED
          BY <4>1, <4>2 DEF Coming, Advanced
      <3> QED
        BY <3>1, <3>2
    <2>4. Pending(cells', lines', Coming')
      BY <1>2, <1>3, <1>6, <2>2, <2>3
    <2>5. call \notin Moves /\ call # "title"
      BY <1>6 DEF Prints, Moves
    <2> QED
      BY <1>1, <1>2, <1>3, <1>4, <1>6, <2>4, <2>5 DEF PlainInv, PutInv, Behind, Putting
  <1>7. CASE call \in Moves
    <2>1. ch \notin {NL, BS} /\ ch \in AllGlyphs
      <3>1. \A j \in 1 .. Len(text) : text[j] # NL
        BY <1>7 DEF CursorInv, CallInv
      <3>2. 1 \in 1 .. Len(text)
        BY <1>5
      <3> QED
        BY <1>5, <3>1, <3>2
    <2>2. call = "title" => term_row = 0 /\ term_column = Width - Len(text)
      BY <1>1, <1>3 DEF PlainInv, TitleInv, Putting, Behind
    <2>3. y = 0 /\ term_row = 0
      BY <1>2, <1>3, <1>7, <2>2 DEF Moves
    <2>4. term_column \in 0 .. Width - 1
      BY <1>1, <1>3, SizeFacts DEF CursorInv, ColumnInv
    <2>5. Settled(cells', lines', lastrow', lastcol')
      <3>1. Settled(cells, lines, lastrow, lastcol)
        BY <1>1, <1>3, <1>7 DEF PlainInv, SavedInv, Putting
      <3>2. cells' = [cells EXCEPT ![Index(term_column, 0)] = ch] /\ lines' = lines
        BY <1>2, <1>3, <1>7, <2>1, <2>3 DEF Shown, Prints, Moves
      <3>3. Settled([cells EXCEPT ![Index(term_column, 0)] = ch], lines, lastrow, lastcol)
        BY <2>4, <3>1, StatusBarApart DEF ScreenInv
      <3> QED
        BY <1>1, <3>2, <3>3
    <2>6. pc' = "inc" /\ cursor' = <<0, term_column>>
      BY <1>1, <2>1, <2>3 DEF cursor
    <2>7. Coming' = IF term_column + 1 = Width THEN <<0 + 1, 0>> ELSE <<0, term_column + 1>>
      BY <2>6 DEF Coming, Advanced
    <2>8. Coming'[1] \in {0, 1}
      BY <2>7
    <2>9. call = "title" /\ Len(text) > 1 => Coming' = <<0, Width - Len(text) + 1>>
      <3> SUFFICES ASSUME call = "title", Len(text) > 1 PROVE Coming' = <<0, Width - Len(text) + 1>>
        OBVIOUS
      <3>1. term_column = Width - Len(text) /\ term_column + 1 # Width
        BY <1>5, <2>2, SizeFacts
      <3> QED
        BY <2>7, <3>1
    <2>10. call \notin Prints
      BY <1>7 DEF Prints, Moves
    <2> QED
      BY <1>1, <1>3, <1>4, <2>5, <2>6, <2>8, <2>9, <2>10 DEF PlainInv, SavedInv, TitleInv, Behind, Putting
  <1> QED
    BY <1>4, <1>6, <1>7

\* The end of term_putchar.
LEMMA RaiseText ==
    ASSUME TextInv, CursorInv, plain', Raise
    PROVE  quiet' /\ PlainInv'
  <1>1. /\ pc = "raise" /\ pc' = AfterText /\ text' = Tail(text)
        /\ call' = IF pc' = "idle" THEN "none" ELSE call
        /\ UNCHANGED <<quiet, scroll_term, term_column, lastrow, lastcol>>
        /\ IF reg > Height - 1
           THEN term_row' \in {reg - 1, term_row - 1} /\ Track(Scrolled(cells), lines, scroll_term)
           ELSE UNCHANGED <<term_row, screen>>
    BY DEF Raise, Goto, saved
  <1>2. plain
    BY <1>1 DEF Track, screen
  <1>3. quiet /\ PlainInv /\ reg = term_row /\ Coming = <<term_row, term_column>>
    BY <1>1, <1>2 DEF TextInv, LoadInv, Coming, cursor
  <1>4. call \in Prints \cup Moves /\ call # "ls" /\ text # <<>> /\ text \in Seq(AllGlyphs \cup {NL})
    BY <1>1, <1>3 DEF CursorInv, CallInv, Putting, PlainInv, Writes, Prints
  <1>5. CASE call \in Prints
    <2>1. Pending(cells, lines, <<term_row, term_column>>)
      BY <1>1, <1>3, <1>5 DEF PlainInv, PutInv, Behind, Putting
    <2>2. Settled(cells', lines', term_row', term_column')
      <3>1. CASE term_row > Height - 1
        <4>1. term_row' = term_row - 1 /\ cells' = Scrolled(cells) /\ lines' = lines
          BY <1>1, <1>3, <3>1 DEF Track
        <4>2. Settled(Scrolled(cells), lines, term_row - 1, term_column)
          BY <2>1, <3>1 DEF Pending
        <4> QED
          BY <1>1, <4>1, <4>2
      <3>2. CASE ~(term_row > Height - 1)
        <4>1. UNCHANGED <<term_row, cells, lines>>
          BY <1>1, <1>3, <3>2 DEF screen
        <4>2. Settled(cells, lines, term_row, term_column)
          BY <2>1, <3>2 DEF Pending
        <4> QED
          BY <1>1, <4>1, <4>2
      <3> QED
        BY <3>1, <3>2
    <2>3. pc' \in {"row?", "read", "idle"} /\ call' \notin Moves \cup {"ls"}
      BY <1>1, <1>5 DEF AfterText, Prints, Moves
    <2> QED
      BY <1>1, <1>3, <2>2, <2>3 DEF PlainInv, PutInv, Putting, Behind, Moves
  <1>6. CASE call \in Moves
    <2>1. /\ Settled(cells, lines, lastrow, lastcol) /\ term_row \in {0, 1}
      BY <1>1, <1>3, <1>6 DEF PlainInv, SavedInv, Behind, Putting
    <2>2. UNCHANGED <<term_row, cells, lines>>
      <3>1. ~(reg > Height - 1)
        BY <1>3, <2>1, SizeFacts
      <3> QED
        BY <1>1, <3>1 DEF screen
    <2>3. Settled(cells', lines', lastrow', lastcol')
      BY <1>1, <2>1, <2>2
    <2>4. /\ call' = call /\ call' \notin Prints \cup {"ls"}
          /\ pc' = IF Len(text) > 1 THEN "row?" ELSE IF call = "draw" THEN "column<" ELSE "row<"
      BY <1>1, <1>6 DEF AfterText, Moves, Prints
    <2>5. call = "title" /\ Len(text) > 1 => term_row' = 0 /\ term_column' = Width - Len(text')
      <3> SUFFICES ASSUME call = "title", Len(text) > 1
                   PROVE  term_row' = 0 /\ term_column' = Width - Len(text')
        OBVIOUS
      <3>1. <<term_row, term_column>> = <<0, Width - Len(text) + 1>>
        BY <1>1, <1>3 DEF PlainInv, TitleInv, Behind, Putting
      <3>2. Len(text') = Len(text) - 1 /\ Len(text) \in Nat
        BY <1>1, <1>4, HeadTailProperties
      <3>3. Width - (Len(text) - 1) = Width - Len(text) + 1
        BY <3>2, SizeFacts
      <3> QED
        BY <1>1, <2>2, <3>1, <3>2, <3>3
    <2> QED
      BY <1>1, <1>3, <1>6, <2>3, <2>4, <2>5 DEF PlainInv, SavedInv, TitleInv, Putting, Behind
  <1> QED
    BY <1>4, <1>5, <1>6

\* A cleared screen shows one empty line.
LEMMA ClearedShows ==
    ASSUME NEW f, \A r \in 1 .. Height, c \in 0 .. Width - 1 : f[Index(c, r)] = BLANK
    PROVE  Settled(f, <<<<>>>>, SCREEN_START, 0)
  <1>1. Len(<<<<>>>>) = 1 /\ Last(<<<<>>>>) = <<>> /\ Len(<<>>) = 0 /\ <<<<>>>>[1] = <<>>
    BY DEF Last
  <1>2. ASSUME NEW r \in 1 .. Height, NEW c \in 0 .. Width - 1 PROVE LineCell(<<<<>>>>, r, c) = BLANK
    <2>1. r \in Nat /\ c \in Nat /\ r >= 1
      BY SizeFacts
    <2>2. CASE r = 1
      <3>1. ~(c < Len(<<<<>>>>[r]))
        BY <1>1, <2>1, <2>2
      <3> QED
        BY <3>1 DEF LineCell
    <2>3. CASE r > 1
      <3>1. ~(r <= Len(<<<<>>>>))
        BY <1>1, <2>1, <2>3
      <3> QED
        BY <3>1 DEF LineCell
    <2> QED
      BY <2>1, <2>2, <2>3
  <1>3. Shows(f, <<<<>>>>)
    BY <1>2 DEF Shows
  <1> QED
    BY <1>1, <1>3, SizeFacts DEF Settled, SCREEN_START

LEMMA ClsText ==
    ASSUME TextInv, plain', ClsRest
    PROVE  quiet' /\ PlainInv'
  <1>1. /\ pc = "cls2" /\ pc' = "idle" /\ call' = "none" /\ quiet' = quiet /\ plain' = quiet
        /\ UNCHANGED term_row /\ term_column' = 0 /\ lines' = <<<<>>>>
        /\ cells' = [p \in Places |-> IF p < Index(0, SCREEN_START) THEN cells[p] ELSE BLANK]
    BY DEF ClsRest, Goto
  <1>2. term_row = SCREEN_START
    BY <1>1 DEF TextInv, LoadInv
  <1>3. ASSUME NEW r \in 1 .. Height, NEW c \in 0 .. Width - 1 PROVE cells'[Index(c, r)] = BLANK
    <2>1. /\ Index(c, r) \in Places /\ Index(c, r) >= Index(0, SCREEN_START)
          /\ Index(0, SCREEN_START) = Width /\ Width \in Nat
      BY IndexFacts, SizeFacts
    <2>2. ~(Index(c, r) < Index(0, SCREEN_START))
      BY <2>1 DEF Places
    <2> QED
      BY <1>1, <2>1, <2>2
  <1>4. Settled(cells', <<<<>>>>, SCREEN_START, 0)
    BY <1>3, ClearedShows
  <1>5. Settled(cells', lines', term_row', term_column')
    BY <1>1, <1>2, <1>4
  <1> QED
    BY <1>1, <1>5 DEF PlainInv, Putting, Prints, Moves

LEMMA InitText == Init => TextInv
  <1> SUFFICES ASSUME Init PROVE TextInv
    OBVIOUS
  <1>1. /\ pc = "idle" /\ call = "none" /\ term_row = SCREEN_START /\ term_column = 0 /\ plain = quiet
        /\ cells = Blank /\ lines = <<<<>>>>
    BY DEF Init
  <1>2. \A r \in 1 .. Height, c \in 0 .. Width - 1 : cells[Index(c, r)] = BLANK
    BY <1>1, IndexFacts DEF Blank
  <1>3. Settled(cells, lines, term_row, term_column)
    BY <1>1, <1>2, ClearedShows
  <1> QED
    BY <1>1, <1>3 DEF TextInv, LoadInv, PlainInv, Putting, Prints, Moves

LEMMA StepText == CursorInv /\ ScreenInv /\ TextInv /\ [Next]_vars => TextInv'
  <1> SUFFICES ASSUME CursorInv, ScreenInv, TextInv, [Next]_vars PROVE TextInv'
    OBVIOUS
  <1>1. CASE UNCHANGED vars
    <2>1. /\ UNCHANGED <<cells, lines, plain, quiet, pc, call, text, term_row, term_column, target>>
          /\ UNCHANGED <<lastrow, lastcol, x, y, reg, scroll_term>>
      BY <1>1 DEF vars, cursor, saved, regs, screen
    <2>2. Coming' = Coming
      BY <2>1 DEF Coming, cursor
    <2> QED
      BY <2>1, <2>2 DEF TextInv, LoadInv, PlainInv, PutInv, SavedInv, TitleInv
  <1>2. CASE Thread
    <2>1. ASSUME plain' PROVE quiet' /\ PlainInv'
      BY <1>2, <2>1, CallText, MoveText, FetchText, BehindText, EntryText, RaiseText, ClsText
         DEF Thread, Putchar
    <2> QED
      BY <1>2, <2>1, ThreadLoads DEF TextInv
  <1> QED
    BY <1>1, <1>2, KeyText DEF Next

\* On every screen, whatever is printed and typed, as long as no key comes while the
\* thread prints and nothing is drawn over the text: the text rows show the last lines
\* of the text, and the cursor is at their end.
THEOREM ScreenAlwaysShowsText == Spec => []ScreenShowsText
  <1>1. Spec => [](CursorInv /\ ScreenInv)
    BY InitScreen, StepScreen, CursorInvariance, PTL DEF Spec
  <1>2. Spec => []TextInv
    BY <1>1, InitText, StepText, PTL DEF Spec
  <1>3. TextInv => ScreenShowsText
    <2> SUFFICES ASSUME Settled(cells, lines, term_row, term_column)
                 PROVE  /\ term_row = Len(lines) + SCREEN_START - 1
                        /\ term_column = Len(Last(lines))
                        /\ \A r \in TextRows, c \in 0 .. Width - 1 :
                              cells[Index(c, r)] =
                                 LET i == r - SCREEN_START + 1
                                 IN  IF i <= Len(lines) /\ c < Len(lines[i]) THEN lines[i][c + 1]
                                                                             ELSE BLANK
      BY DEF TextInv, PlainInv, ScreenShowsText
    <2>1. Len(lines) + SCREEN_START - 1 = term_row
      BY DEF Settled, SCREEN_START
    <2>2. ASSUME NEW r \in TextRows, NEW c \in 0 .. Width - 1
          PROVE  cells[Index(c, r)] =
                    LET i == r - SCREEN_START + 1
                    IN  IF i <= Len(lines) /\ c < Len(lines[i]) THEN lines[i][c + 1] ELSE BLANK
      <3>1. r \in 1 .. Height /\ r - SCREEN_START + 1 = r
        BY SizeFacts DEF SCREEN_START
      <3>2. cells[Index(c, r)] = LineCell(lines, r, c)
        BY <3>1 DEF Settled, Shows
      <3> QED
        BY <3>1, <3>2 DEF LineCell
    <2> QED
      BY <2>1, <2>2 DEF Settled
  <1> QED
    BY <1>2, <1>3, PTL
=============================================================================
