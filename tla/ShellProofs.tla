---------------------------- MODULE ShellProofs -----------------------------
(***************************************************************************)
(* Proofs about the shell and the programs it runs, for every heap, every  *)
(* set of files, every length of a line and every number of commands.      *)
(*                                                                         *)
(* ShellInv is the heap's own invariant with four parts about the shell:   *)
(* what text is where (TextInv), who owns which chunk (OwnInv), where the  *)
(* last store went (StoreInv) and what has been listed (ListInv).  Each    *)
(* part has its own induction step; the owners' needs the heap's.          *)
(*                                                                         *)
(* Relative to it, RoomInv says that a stretch of the heap stays in        *)
(* reserve for the read buffer, and SinkInv how many bytes hb->used may be *)
(* short of those in use.  Together they make BufferAvailable.             *)
(***************************************************************************)
EXTENDS Shell, HeapProofs, FiniteSetTheorems, SequenceTheorems, WellFoundedInduction

-----------------------------------------------------------------------------
(* Strings in buffers.                                                     *)

\* A set of numbers that is not empty has a least one, and Min finds it.
LEMMA MinLeast ==
    ASSUME NEW S \in SUBSET Nat, S # {}
    PROVE  Min(S) \in S /\ \A y \in S : Min(S) <= y
  <1>1. PICK x \in S : \A y \in S : ~(<<y, x>> \in OpToRel(<, Nat))
    BY WFMin, NatLessThanWellFounded
  <1>2. ASSUME NEW y \in S PROVE x <= y
    <2>1. x \in Nat /\ y \in Nat
      OBVIOUS
    <2>2. y < x => <<y, x>> \in OpToRel(<, Nat)
      BY <2>1 DEF OpToRel
    <2>3. ~(y < x)
      BY <1>1, <2>2, Zenon
    <2> QED
      BY <2>1, <2>3
  <1> QED
    BY <1>2 DEF Min

Bytes == Chars \cup {SPACE, NUL}

\* A buffer with a terminator in it.
Terminated(b) == b \in [Places -> Bytes] /\ b[InputSize - 1] = NUL

\* strlen finds the first terminator.
LEMMA StrLenFirst ==
    ASSUME NEW b, Terminated(b)
    PROVE  /\ StrLen(b) \in Places
           /\ b[StrLen(b)] = NUL
           /\ \A i \in Places : i < StrLen(b) => b[i] # NUL
  <1> DEFINE S == {i \in Places : b[i] = NUL}
  <1>1. S \in SUBSET Nat /\ InputSize - 1 \in S
    BY InputAssumption DEF Places, Terminated
  <1>2. Min(S) \in S /\ \A y \in S : Min(S) <= y
    BY <1>1, MinLeast
  <1>3. StrLen(b) = Min(S)
    BY DEF StrLen
  <1> HIDE DEF S
  <1>4. \A i \in Places : i \in Int /\ (i \in S <=> b[i] = NUL)
    BY DEF S, Places
  <1>5. \A i \in S : i \in Places
    BY DEF S
  <1> QED
    BY <1>2, <1>3, <1>4, <1>5

\* And there is no other place with these properties.
LEMMA StrLenIs ==
    ASSUME NEW b, Terminated(b), NEW n \in Places, b[n] = NUL,
           \A i \in Places : i < n => b[i] # NUL
    PROVE  StrLen(b) = n
  BY StrLenFirst, InputAssumption DEF Places

\* The string in a buffer has no terminator and is shorter than the buffer.
LEMMA StrIsLine ==
    ASSUME NEW b, Terminated(b)
    PROVE  /\ Str(b) \in Seq(Chars \cup {SPACE})
           /\ Len(Str(b)) = StrLen(b)
           /\ \A i \in 1 .. StrLen(b) : Str(b)[i] = b[i - 1]
  <1>1. StrLen(b) \in Nat /\ StrLen(b) < InputSize
    BY StrLenFirst, InputAssumption DEF Places
  <1>2. \A i \in 1 .. StrLen(b) : b[i - 1] \in Chars \cup {SPACE}
    <2> SUFFICES ASSUME NEW i \in 1 .. StrLen(b) PROVE b[i - 1] \in Chars \cup {SPACE}
      OBVIOUS
    <2>1. i - 1 \in Places /\ i - 1 < StrLen(b)
      BY <1>1, InputAssumption DEF Places
    <2> QED
      BY <2>1, StrLenFirst DEF Terminated, Bytes
  <1> QED
    BY <1>1, <1>2 DEF Str

\* clearchar ends the string at its first byte and leaves what is behind it.
LEMMA ClearCharFacts ==
    ASSUME NEW b, Terminated(b)
    PROVE  /\ Terminated(ClearChar(b))
           /\ StrLen(ClearChar(b)) = 0
  <1>1. StrLen(b) \in Places /\ b[StrLen(b)] = NUL
    BY StrLenFirst
  <1>2. Terminated(ClearChar(b))
    BY <1>1, InputAssumption DEF Terminated, ClearChar, Bytes, Places
  <1>3. 0 \in Places /\ ClearChar(b)[0] = NUL /\ \A i \in Places : ~(i < 0)
    BY <1>1, InputAssumption DEF ClearChar, Places
  <1> QED
    BY <1>2, <1>3, StrLenIs

\* strcpy leaves the string it copied.
LEMMA StrCpyFacts ==
    ASSUME NEW b, Terminated(b), NEW s \in Seq(Chars \cup {SPACE}), Len(s) < InputSize
    PROVE  Terminated(StrCpy(b, s)) /\ Str(StrCpy(b, s)) = s
  <1> DEFINE c == StrCpy(b, s)
  <1>1. /\ Len(s) \in Places
        /\ \A i \in Places : i < Len(s) => i + 1 \in 1 .. Len(s) /\ s[i + 1] \in Chars \cup {SPACE}
    BY InputAssumption DEF Places
  <1>2. /\ \A i \in Places : i < Len(s) => c[i] = s[i + 1]
        /\ c[Len(s)] = NUL
        /\ \A i \in Places : i > Len(s) => c[i] = b[i]
        /\ DOMAIN c = Places /\ c = [i \in Places |-> c[i]]
    BY <1>1 DEF StrCpy, Places
  <1> HIDE DEF c
  <1>3. Terminated(c)
    <2>1. \A i \in Places : c[i] \in Bytes
      BY <1>1, <1>2 DEF Terminated, Bytes, Places
    <2>2. c[InputSize - 1] = NUL
      BY <1>1, <1>2, InputAssumption DEF Terminated, Places
    <2> QED
      BY <1>2, <2>1, <2>2 DEF Terminated
  <1>4. StrLen(c) = Len(s)
    <2>1. \A i \in Places : i < Len(s) => c[i] # NUL
      BY <1>1, <1>2, LineAssumption DEF SPACE, NUL
    <2> QED
      BY <1>1, <1>2, <1>3, <2>1, StrLenIs
  <1>5. Str(c) = s
    <2>1. /\ Str(c) \in Seq(Chars \cup {SPACE}) /\ Len(Str(c)) = Len(s)
          /\ \A i \in 1 .. Len(s) : Str(c)[i] = c[i - 1]
      BY <1>3, <1>4, StrIsLine
    <2>2. \A i \in 1 .. Len(s) : c[i - 1] = s[i]
      <3> SUFFICES ASSUME NEW i \in 1 .. Len(s) PROVE c[i - 1] = s[i]
        OBVIOUS
      <3>1. i - 1 \in Places /\ i - 1 < Len(s) /\ (i - 1) + 1 = i
        BY <1>1, InputAssumption DEF Places
      <3> QED
        BY <1>2, <3>1
    <2> QED
      BY <2>1, <2>2, SeqEqual
  <1> QED
    BY <1>3, <1>5 DEF c

\* strshl and the substr behind it leave the string without its first amt characters.
LEMMA StrshlFacts ==
    ASSUME NEW b, Terminated(b), NEW amt \in Nat \ {0}, amt <= StrLen(b)
    PROVE  /\ Terminated(Strshl(b, amt))
           /\ StrLen(Strshl(b, amt)) = StrLen(b) - amt
           /\ \A i \in Places : i < StrLen(b) - amt => Strshl(b, amt)[i] = b[i + amt]
  <1> DEFINE n == StrLen(b)
  <1>1. /\ n \in Nat /\ n < InputSize /\ InputSize \in Nat /\ b[n] = NUL
        /\ \A i \in Places : i < n => b[i] # NUL
        /\ \A i \in Places : b[i] \in Bytes
        /\ b[InputSize - 1] = NUL
    BY StrLenFirst, InputAssumption DEF Places, Terminated
  <1> HIDE DEF n
  <1>2. CASE amt >= n
    <2>1. Strshl(b, amt) = ClearChar(b) /\ n - amt = 0
      BY <1>1, <1>2 DEF Strshl, n
    <2> QED
      BY <2>1, ClearCharFacts DEF n, Places
  <1>3. CASE amt < n
    <2> DEFINE moved == [i \in Places |-> IF i < n - amt THEN b[i + amt]
                                           ELSE IF i >= amt /\ i < n THEN NUL ELSE b[i]]
               m == n - amt
               r == Strshl(b, amt)
    <2>1. /\ \A i \in Places : i < m => moved[i] = b[i + amt]
          /\ \A i \in Places : i < m => i + amt \in Places /\ i + amt < n
          /\ DOMAIN moved = Places
          /\ moved[InputSize - 1] = NUL
          /\ m \in Places /\ m < InputSize - 1
      BY <1>1, <1>3 DEF Places
    <2>2. \A i \in Places : moved[i] \in Bytes
      BY <1>1, <1>3 DEF Places, Bytes
    <2>3. Terminated(moved)
      BY <2>1, <2>2 DEF Terminated
    <2>4. r = IF StrLen(moved) > m THEN [moved EXCEPT ![m] = NUL] ELSE moved
      BY <1>1, <1>3 DEF Strshl, n
    <2> HIDE DEF moved
    <2>5. /\ StrLen(moved) \in Nat /\ moved[StrLen(moved)] = NUL /\ StrLen(moved) \in Places
      BY <2>3, StrLenFirst DEF Places
    <2>6. \A i \in Places : i < m => moved[i] # NUL
      BY <1>1, <2>1
    <2>7. StrLen(moved) >= m
      BY <1>1, <2>1, <2>5, <2>6 DEF Places
    <2>8. /\ Terminated(r)
          /\ r[m] = NUL
          /\ \A i \in Places : i < m => r[i] = moved[i]
      <3> HIDE DEF r
      <3>1. CASE StrLen(moved) > m
        <4>1. r = [moved EXCEPT ![m] = NUL]
          BY <2>4, <3>1
        <4> QED
          BY <1>1, <2>1, <2>3, <4>1 DEF Terminated, Bytes, Places
      <3>2. CASE StrLen(moved) <= m
        <4>1. r = moved /\ StrLen(moved) = m
          BY <1>1, <2>4, <2>5, <2>7, <3>2
        <4> QED
          BY <2>3, <2>5, <4>1
      <3> QED
        BY <1>1, <2>5, <3>1, <3>2
    <2> HIDE DEF r
    <2>9. StrLen(r) = m
      BY <2>1, <2>6, <2>8, StrLenIs
    <2> QED
      BY <2>1, <2>8, <2>9 DEF r, n
  <1> QED
    BY <1>1, <1>2, <1>3

\* A word ends at a space or at the string's end, whichever comes first.
LEMMA TokenLenFacts ==
    ASSUME NEW b, Terminated(b)
    PROVE  /\ TokenLen(b) \in Places /\ TokenLen(b) <= StrLen(b)
           /\ b[TokenLen(b)] \in {SPACE, NUL}
           /\ \A i \in Places : i < TokenLen(b) => b[i] \notin {SPACE, NUL}
           /\ HasSpace(b) => b[TokenLen(b)] = SPACE /\ TokenLen(b) < StrLen(b)
  <1> DEFINE S == {i \in Places : b[i] \in {SPACE, NUL}}
             n == StrLen(b)
  <1>1. /\ n \in Places /\ b[n] = NUL /\ \A i \in Places : i < n => b[i] # NUL
    BY StrLenFirst
  <1>2. S \in SUBSET Nat /\ n \in S
    BY <1>1 DEF Places
  <1>3. Min(S) \in S /\ \A y \in S : Min(S) <= y
    BY <1>2, MinLeast
  <1>4. TokenLen(b) = Min(S)
    BY DEF TokenLen
  <1> HIDE DEF n
  <1>5. /\ TokenLen(b) \in Places /\ TokenLen(b) <= n
        /\ b[TokenLen(b)] \in {SPACE, NUL}
        /\ \A i \in Places : b[i] \in {SPACE, NUL} => TokenLen(b) <= i
    BY <1>2, <1>3, <1>4
  <1> HIDE DEF S
  <1>6. \A i \in Places : i < TokenLen(b) => b[i] \notin {SPACE, NUL}
    BY <1>5 DEF Places
  <1>7. ASSUME HasSpace(b) PROVE b[TokenLen(b)] = SPACE /\ TokenLen(b) < n
    <2>1. PICK i \in 0 .. n - 1 : b[i] = SPACE
      BY <1>7 DEF HasSpace, n
    <2>2. i \in Places /\ i < n
      BY <1>1, InputAssumption DEF Places
    <2>3. TokenLen(b) <= i
      BY <1>5, <2>1, <2>2
    <2>4. TokenLen(b) < n
      BY <1>1, <1>5, <2>2, <2>3 DEF Places
    <2> QED
      BY <1>1, <1>5, <2>4
  <1> QED
    BY <1>5, <1>6, <1>7 DEF n

\* strtok's word, in a buffer that clearchar has seen before.
LEMMA TokenFacts ==
    ASSUME NEW d, Terminated(d), NEW b, Terminated(b)
    PROVE  LET w == Token(ClearChar(d), b)
           IN  /\ Terminated(w)
               /\ \A i \in Places : i < TokenLen(b) => w[i] = b[i]
               /\ \A i \in Places : i >= TokenLen(b) => w[i] = ClearChar(ClearChar(d))[i]
               /\ w[0] # NUL <=> TokenLen(b) > 0
  <1> DEFINE c == ClearChar(ClearChar(d))
             w == Token(ClearChar(d), b)
             t == TokenLen(b)
  <1>1. /\ Terminated(c) /\ StrLen(c) = 0
    BY ClearCharFacts
  <1>2. c[0] = NUL
    BY <1>1, StrLenFirst
  <1>3. /\ t \in Places
        /\ \A i \in Places : i < t => b[i] \notin {SPACE, NUL}
    BY TokenLenFacts
  <1>4. w = [i \in Places |-> IF i < t THEN b[i] ELSE c[i]]
    BY DEF Token
  <1> HIDE DEF c, w, t
  <1>5. Terminated(w)
    BY <1>1, <1>3, <1>4, InputAssumption DEF Terminated, Places
  <1>6. 0 \in Places
    BY InputAssumption DEF Places
  <1>7. w[0] # NUL <=> t > 0
    BY <1>2, <1>3, <1>4, <1>6 DEF Places
  <1> QED
    BY <1>3, <1>4, <1>5, <1>7 DEF c, w, t, Places

-----------------------------------------------------------------------------
(* malloc and free as the shell uses them.                                 *)

\* Address 0 is nobody's chunk.
LEMMA NotLiveZero == HeapInv => 0 \notin DOMAIN live
  BY DEF HeapInv, HeapTypes, OwnedChunks, HDR

\* What a successful malloc returns is new and as long as was asked for.
LEMMA MallocGot ==
    ASSUME HeapInv, NEW size \in Nat, Malloc(size)
    PROVE  /\ HeapInv' /\ Got \in Nat \ {0}
           /\ Got \notin DOMAIN live /\ DOMAIN live' = DOMAIN live \cup {Got}
           /\ live'[Got] = size
           /\ \A q \in DOMAIN live : live'[q] = live[q]
  <1>1. HeapInv' /\ \E p \in Nat \ {0} : p \notin DOMAIN live /\ live' = Put(live, p, size)
    BY MallocInv
  <1>2. PICK p \in Nat \ {0} : p \notin DOMAIN live /\ live' = Put(live, p, size)
    BY <1>1
  <1>3. /\ DOMAIN live' = DOMAIN live \cup {p} /\ live'[p] = size
        /\ \A q \in DOMAIN live : live'[q] = live[q]
    BY <1>2 DEF Put
  <1>4. \A q \in DOMAIN live' : q \notin DOMAIN live <=> q = p
    BY <1>2, <1>3
  <1>5. Got = p
    BY <1>2, <1>3, <1>4 DEF Got
  <1> QED
    BY <1>1, <1>2, <1>3, <1>5

\* malloc without a check: a chunk, or 0 and nothing has changed.
LEMMA AllocGot ==
    ASSUME HeapInv, NEW size \in Nat, Alloc(size)
    PROVE  /\ HeapInv' /\ Got \in Nat
           /\ Got = 0 => live' = live
           /\ Got # 0 => live'[Got] = size
           /\ Got \notin DOMAIN live
           /\ DOMAIN live' \ {Got} = DOMAIN live
           /\ Got # 0 => Got \in DOMAIN live'
           /\ \A q \in DOMAIN live : q \in DOMAIN live' /\ live'[q] = live[q]
  <1>1. CASE Malloc(size)
    BY <1>1, MallocGot
  <1>2. CASE MallocFails(size)
    <2>1. UNCHANGED vars
      BY <1>2 DEF MallocFails
    <2>2. live' = live /\ HeapInv'
      BY <2>1 DEF vars, HeapInv, HeapTypes, Tiling, OwnedChunks, BackLinksReach, Behind
    <2> QED
      BY <2>2, NotLiveZero DEF Got
  <1> QED
    BY <1>1, <1>2 DEF Alloc

\* The second free of a chunk leaves every owner's chunk alone.
LEMMA FreeAgainFacts ==
    ASSUME HeapInv, NEW p \in Nat, p - HDR \in DOMAIN hdrs, ~hdrs[p - HDR].taken, FreeAgain(p)
    PROVE  HeapInv' /\ live' = live
  <1>1. PICK back \in BackMerges(p - HDR) : Release(p - HDR, back)
    BY DEF FreeAgain
  <1>2. back \in BOOLEAN
    BY <1>1 DEF BackMerges
  <1>3. (p - HDR) + HDR = p
    BY DEF HDR
  <1>4. p \notin DOMAIN live /\ live' = live
    BY DEF FreeAgain, HeapInv, OwnedChunks
  <1>5. live = Restrict(live, DOMAIN live \ {p})
    BY <1>4 DEF Restrict, HeapInv, HeapTypes
  <1> QED
    BY <1>1, <1>2, <1>3, <1>4, <1>5, ReleaseInv

\* Nothing of the heap's invariant is about the shell.
LEMMA HeapStutters == HeapInv /\ UNCHANGED vars => HeapInv'
  BY DEF vars, HeapInv, HeapTypes, Tiling, OwnedChunks, BackLinksReach, Behind

-----------------------------------------------------------------------------
(* The inductive invariant, in four parts.                                 *)

PCs == {"boot", "ata", "fname", "load", "unload", "save", "cmd", "tbuf",
        "prompt", "execute", "name", "exec", "return", "program", "cat", "catfails",
        "catagain", "catends", "read", "copy", "readends", "ls", "hung",
        "newcmd", "newtbuf", "lost"}

\* What the buffers hold: where the line typed is, and that strtok's buffer has nothing
\* behind its terminator if it had nothing at first.
TextInv ==
    /\ pc \in PCs
    /\ Terminated(cmd) /\ Terminated(tbuf)
    /\ name \in Seq(Chars \cup {SPACE})
    /\ pc = "execute" => Str(cmd) = line
    /\ clean => \A i \in Places : i >= StrLen(tbuf) => tbuf[i] = NUL
    /\ SplitExact

\* Where the kernel's read buffer, the program's chunks and the name's may be taken.
Reading == {"unload", "cat", "catfails", "catagain", "catends", "read", "copy", "readends"}
Running == {"program", "ls", "cat", "catfails", "catagain", "catends", "read", "copy",
            "readends", "hung"}
Named   == Running \cup {"exec", "return"}

\* The chunks that outlive a command, and how many there are.  A shell that is started
\* from a shell leaves the name's chunk behind and takes two of its own; one that does
\* not get them is not counted.
Permanent == DOMAIN live \ ({bin_name, buf} \cup ToSet(held))

Stage == CASE pc = "boot"                        -> 0
           [] pc = "ata"                         -> 1
           [] pc = "fname"                       -> 2
           [] pc \in {"load", "unload", "save"}  -> 3
           [] pc \in {"cmd", "newcmd"}           -> 4
           [] pc \in {"tbuf", "newtbuf"}         -> 5
           [] OTHER                              -> 6

PermanentCount == Stage + 3 * shells

\* Who owns which chunk.
Ownership ==
    /\ bin_name \in Nat /\ buf \in Nat /\ again \in Nat /\ held \in Seq(Nat)
    /\ shells \in Nat /\ (pc \in {"newcmd", "newtbuf"} => shells # 0)
    /\ pc \notin Named => bin_name = 0
    /\ pc \notin Running => held = <<>>
    /\ pc \notin Reading => buf = 0
    /\ pc = "unload" => buf # 0
    /\ bin_name # 0 => bin_name \in DOMAIN live
    /\ buf # 0 => buf # bin_name
    /\ buf # 0 /\ pc # "catagain" => buf \in DOMAIN live /\ live[buf] = BufferSize
    /\ pc = "catagain" => /\ buf - HDR \in DOMAIN hdrs
                          /\ ~hdrs[buf - HDR].taken
    /\ ToSet(held) \subseteq DOMAIN live \ {bin_name, buf}
    /\ \A i, j \in DOMAIN held : held[i] = held[j] => i = j

\* No chunk is forgotten.
Counted == /\ IsFiniteSet(Permanent)
           /\ pc # "lost" => Cardinality(Permanent) = PermanentCount

OwnInv == Ownership /\ Counted

\* Where the last store went, at the places from which a chunk may be freed.
StoreInv ==
    /\ stores \in Nat \X Nat
    /\ StoresOwned
    /\ pc \in {"exec", "program", "ls"} => stores[2] = 0 \/ stores[1] = bin_name
    /\ pc = "catfails" => stores[2] = 0

\* What ls_initrd has printed.
Entry(i) == [name |-> Readdir(i), directory |-> IsDirectory(Readdir(i))]

ListInv ==
    /\ listed \in Seq([name : Files \cup {"mtp"}, directory : BOOLEAN])
    /\ Len(listed) <= Len(FileOrder) + 1
    /\ \A i \in 1 .. Len(listed) : listed[i] = Entry(i - 1)
    /\ pc # "ls" => listed = <<>> \/ Len(listed) = Len(FileOrder) + 1

ShellInv == HeapInv /\ TextInv /\ OwnInv /\ StoreInv /\ ListInv

-----------------------------------------------------------------------------
(* The text in the buffers.                                                *)

\* Where the first space of a line is, in the buffer it was typed to.
LEMMA CutAtSpace ==
    ASSUME NEW b, Terminated(b), HasSpace(b)
    PROVE  LET t    == TokenLen(b)
               l    == Str(b)
               rest == SubSeq(l, t + 2, Len(l))
           IN  Cut(l) = IF t > 0 THEN <<SubSeq(l, 1, t), <<rest>>>> ELSE <<rest, <<>>>>
  <1> DEFINE t == TokenLen(b)
             l == Str(b)
             n == StrLen(b)
             S == {i \in DOMAIN l : l[i] = SPACE}
  <1>1. /\ t \in Nat /\ n \in Nat /\ t < n /\ n < InputSize /\ b[t] = SPACE
        /\ \A i \in Places : i < t => b[i] # SPACE
    BY TokenLenFacts, StrLenFirst, InputAssumption DEF Places
  <1>2. /\ l \in Seq(Chars \cup {SPACE}) /\ Len(l) = n /\ DOMAIN l = 1 .. n
        /\ \A i \in 1 .. n : l[i] = b[i - 1]
    BY StrIsLine
  <1> HIDE DEF t, l, n
  <1>3. t + 1 \in S
    BY <1>1, <1>2
  <1>4. ASSUME NEW i \in S PROVE t + 1 <= i
    <2>1. i \in 1 .. n /\ b[i - 1] = SPACE /\ i - 1 \in Places
      BY <1>1, <1>2, <1>4, InputAssumption DEF Places
    <2> QED
      BY <1>1, <2>1
  <1>5. Min(S) = t + 1
    <2>1. S \in SUBSET Nat /\ S # {}
      BY <1>1, <1>2, <1>3
    <2>2. Min(S) \in S /\ \A y \in S : Min(S) <= y
      BY <2>1, MinLeast
    <2> QED
      BY <1>1, <1>3, <1>4, <2>1, <2>2
  <1>6. ~(\A i \in DOMAIN l : l[i] # SPACE)
    BY <1>3
  <1>7. Cut(l) = IF Min(S) > 1
                 THEN <<SubSeq(l, 1, Min(S) - 1), <<SubSeq(l, Min(S) + 1, Len(l))>>>>
                 ELSE <<SubSeq(l, Min(S) + 1, Len(l)), <<>>>>
    BY <1>6, Zenon DEF Cut, S
  <1> HIDE DEF S
  <1>8. (Min(S) > 1 <=> t > 0) /\ Min(S) - 1 = t /\ Min(S) + 1 = t + 2
    BY <1>1, <1>5
  <1>9. Cut(l) = IF t > 0 THEN <<SubSeq(l, 1, t), <<SubSeq(l, t + 2, Len(l))>>>>
                 ELSE <<SubSeq(l, t + 2, Len(l)), <<>>>>
    BY <1>7, <1>8
  <1> QED
    BY <1>9 DEF t, l

\* What strshl leaves of a line.
LEMMA StrOfStrshl ==
    ASSUME NEW b, Terminated(b), NEW amt \in Nat \ {0}, amt <= StrLen(b)
    PROVE  Str(Strshl(b, amt)) = SubSeq(Str(b), amt + 1, Len(Str(b)))
  <1> DEFINE r == Strshl(b, amt)
             n == StrLen(b)
             C == Chars \cup {SPACE}
             sub == SubSeq(Str(b), amt + 1, n)
  <1>1. /\ Terminated(r) /\ StrLen(r) = n - amt
        /\ \A i \in Places : i < n - amt => r[i] = b[i + amt]
    BY StrshlFacts
  <1>2. n \in Nat /\ n < InputSize /\ InputSize \in Nat
    BY StrLenFirst, InputAssumption DEF Places
  <1>3. /\ Str(b) \in Seq(C) /\ Len(Str(b)) = n
        /\ \A i \in 1 .. n : Str(b)[i] = b[i - 1]
    BY StrIsLine
  <1>4. /\ Str(r) \in Seq(C) /\ Len(Str(r)) = n - amt
        /\ \A i \in 1 .. n - amt : Str(r)[i] = r[i - 1]
    BY <1>1, StrIsLine
  <1> HIDE DEF r, n
  <1>5. \A i \in amt + 1 .. n : Str(b)[i] \in C
    BY <1>2, <1>3
  <1>6. /\ sub \in Seq(C)
        /\ Len(sub) = n - amt
        /\ \A i \in 1 .. n - amt : sub[i] = Str(b)[amt + i]
    <2>1. /\ sub \in Seq(C)
          /\ Len(sub) = IF amt + 1 <= n THEN n - (amt + 1) + 1 ELSE 0
          /\ \A i \in 1 .. n - (amt + 1) + 1 : sub[i] = Str(b)[(amt + 1) + i - 1]
      BY <1>2, <1>5, SubSeqProperties
    <2> HIDE DEF sub
    <2>2. amt <= n
      BY DEF n
    <2> QED
      BY <1>2, <2>1, <2>2
  <1> HIDE DEF sub
  <1>7. ASSUME NEW i \in 1 .. n - amt PROVE Str(r)[i] = sub[i]
    <2>1. i - 1 \in Places /\ i - 1 < n - amt /\ (i - 1) + amt = (amt + i) - 1
      BY <1>2 DEF Places
    <2>2. Str(r)[i] = b[(i - 1) + amt]
      BY <1>1, <1>4, <2>1
    <2>3. amt + i \in 1 .. n
      BY <1>2
    <2> QED
      BY <1>3, <1>6, <2>1, <2>2, <2>3
  <1> QED
    BY <1>3, <1>4, <1>6, <1>7, SeqEqual DEF r, n, sub

\* The line is cut at its first space, whatever the buffers held.
LEMMA ExecuteSplits ==
    ASSUME TextInv, Execute
    PROVE  TextInv'
  <1> DEFINE clear == ClearChar(tbuf)
             w == Token(clear, cmd)
             r == Strshl(cmd, TokenLen(cmd) + 1)
             t == TokenLen(cmd)
             C == Chars \cup {SPACE}
  <1>1. /\ Terminated(cmd) /\ Terminated(tbuf) /\ Str(cmd) = line
        /\ clean => \A i \in Places : i >= StrLen(tbuf) => tbuf[i] = NUL
        /\ pc' = "name" /\ line' = line /\ clean' = clean
    BY DEF TextInv, Execute, typing
  <1>2. Terminated(clear) /\ StrLen(clear) = 0
    BY <1>1, ClearCharFacts
  <1>3. clean => \A i \in Places : clear[i] = NUL
    <2>1. StrLen(tbuf) \in Nat
      BY <1>1, StrLenFirst DEF Places
    <2> QED
      BY <1>1, <2>1 DEF ClearChar, Places
  <1>4. CASE ~HasSpace(cmd)
    <2>1. tbuf' = clear /\ name' = Str(cmd) /\ arg' = <<>> /\ cmd' = cmd
      BY <1>4 DEF Execute
    <2>2. /\ Str(cmd) \in Seq(C) /\ Len(Str(cmd)) = StrLen(cmd) /\ StrLen(cmd) \in Nat
          /\ \A i \in 1 .. StrLen(cmd) : Str(cmd)[i] = cmd[i - 1]
      <3>1. StrLen(cmd) \in Nat
        BY <1>1, StrLenFirst DEF Places
      <3> QED
        BY <1>1, <3>1, StrIsLine
    <2>3. \A i \in DOMAIN line : line[i] # SPACE
      <3>1. DOMAIN line = 1 .. StrLen(cmd)
        BY <1>1, <2>2
      <3>2. \A i \in 1 .. StrLen(cmd) : i - 1 \in 0 .. StrLen(cmd) - 1
        BY <2>2
      <3> QED
        BY <1>1, <1>4, <2>2, <3>1, <3>2 DEF HasSpace
    <2>4. Cut(line) = <<line, <<>>>>
      BY <2>3 DEF Cut
    <2> QED
      BY <1>1, <1>2, <1>3, <2>1, <2>2, <2>4 DEF TextInv, SplitExact, PCs
  <1>5. CASE HasSpace(cmd)
    <2>1. /\ tbuf' = w /\ cmd' = r
          /\ IF w[0] # NUL THEN name' = Str(w) /\ arg' = <<Str(r)>>
                           ELSE name' = Str(r) /\ arg' = <<>>
      BY <1>5 DEF Execute
    <2>2. /\ t \in Places /\ t \in Nat /\ t < StrLen(cmd) /\ cmd[t] = SPACE
          /\ StrLen(cmd) \in Nat
          /\ \A i \in Places : i < t => cmd[i] \notin {SPACE, NUL}
      BY <1>1, <1>5, TokenLenFacts, StrLenFirst DEF Places
    <2>3. /\ Terminated(w)
          /\ \A i \in Places : i < t => w[i] = cmd[i]
          /\ \A i \in Places : i >= t => w[i] = ClearChar(clear)[i]
          /\ w[0] # NUL <=> t > 0
      BY <1>1, TokenFacts
    <2>4. Terminated(r) /\ Str(r) = SubSeq(line, t + 2, Len(line))
      <3>1. t + 1 \in Nat \ {0} /\ t + 1 <= StrLen(cmd) /\ (t + 1) + 1 = t + 2
        BY <2>2
      <3> QED
        BY <1>1, <3>1, StrshlFacts, StrOfStrshl
    <2>5. Cut(line) = IF t > 0 THEN <<SubSeq(line, 1, t), <<Str(r)>>>> ELSE <<Str(r), <<>>>>
      BY <1>1, <1>5, <2>4, CutAtSpace
    <2> HIDE DEF t, w, r
    <2>6. ASSUME clean PROVE /\ \A i \in Places : i >= t => w[i] = NUL
                             /\ StrLen(w) = t
      <3>1. \A i \in Places : clear[i] = NUL /\ ClearChar(clear)[i] = NUL
        <4>1. \A i \in Places : ~(i < 0)
          BY DEF Places
        <4> QED
          BY <1>2, <1>3, <2>6, <4>1 DEF ClearChar
      <3>2. \A i \in Places : i >= t => w[i] = NUL
        BY <2>3, <3>1
      <3>3. w[t] = NUL /\ \A i \in Places : i < t => w[i] # NUL
        BY <2>2, <2>3, <3>2
      <3> QED
        BY <2>2, <2>3, <3>2, <3>3, StrLenIs
    <2>7. ASSUME clean PROVE Str(w) = SubSeq(line, 1, t)
      <3> DEFINE sub == SubSeq(line, 1, t)
      <3>1. /\ line \in Seq(C) /\ Len(line) = StrLen(cmd)
            /\ \A i \in 1 .. StrLen(cmd) : line[i] = cmd[i - 1]
        BY <1>1, StrIsLine
      <3>2. \A i \in 1 .. t : line[i] \in C
        BY <2>2, <3>1
      <3>3. /\ sub \in Seq(C) /\ Len(sub) = IF 1 <= t THEN t - 1 + 1 ELSE 0
            /\ \A i \in 1 .. t - 1 + 1 : sub[i] = line[1 + i - 1]
        BY <2>2, <3>2, SubSeqProperties
      <3> HIDE DEF sub
      <3>4. Len(sub) = t /\ \A i \in 1 .. t : sub[i] = line[i]
        BY <2>2, <3>3
      <3>5. /\ Str(w) \in Seq(C) /\ Len(Str(w)) = t
            /\ \A i \in 1 .. t : Str(w)[i] = w[i - 1]
        BY <2>3, <2>6, <2>7, StrIsLine
      <3>6. ASSUME NEW i \in 1 .. t PROVE Str(w)[i] = sub[i]
        <4>1. i - 1 \in Places /\ i - 1 < t /\ i \in 1 .. StrLen(cmd)
          BY <2>2, InputAssumption DEF Places
        <4> QED
          BY <2>3, <3>1, <3>4, <3>5, <4>1
      <3> QED
        BY <3>3, <3>4, <3>5, <3>6, SeqEqual DEF sub
    <2>8. name' \in Seq(C)
      BY <2>1, <2>3, <2>4, StrIsLine
    <2>9. SplitExact'
      <3> SUFFICES ASSUME clean PROVE <<name', arg'>> = Cut(line)
        BY <1>1 DEF SplitExact
      <3>1. CASE t > 0
        BY <2>1, <2>3, <2>5, <2>7, <3>1
      <3>2. CASE ~(t > 0)
        BY <2>1, <2>3, <2>5, <3>2
      <3> QED
        BY <3>1, <3>2
    <2>10. clean => \A i \in Places : i >= StrLen(w) => w[i] = NUL
      BY <2>6
    <2> QED
      BY <1>1, <2>1, <2>3, <2>4, <2>8, <2>9, <2>10 DEF TextInv, PCs
  <1> QED
    BY <1>4, <1>5

\* A step that does not touch the buffers keeps the text, unless it goes where the text
\* is looked at.
LEMMA TextKept ==
    ASSUME TextInv, pc' \in PCs \ {"execute", "name"}, UNCHANGED <<cmd, tbuf, clean, line>>,
           name' \in Seq(Chars \cup {SPACE}),
           pc' = "exec" => pc = "name" /\ UNCHANGED <<name, arg>>
    PROVE  TextInv'
  BY DEF TextInv, SplitExact, PCs, Terminated, StrLen, Str

\* The first state.
LEMMA InitText == ShellInit => TextInv
  <1> SUFFICES ASSUME ShellInit PROVE TextInv
    OBVIOUS
  <1>1. Terminated(cmd) /\ Terminated(tbuf)
    BY LeftoverAssumption DEF ShellInit, Terminated, Bytes
  <1>2. clean => \A i \in Places : tbuf[i] = NUL
    BY DEF ShellInit
  <1> QED
    BY <1>1, <1>2 DEF ShellInit, TextInv, SplitExact, PCs

LEMMA StepText == TextInv /\ [ShellNext]_<<vars, shellVars>> => TextInv'
  <1> SUFFICES ASSUME TextInv, [ShellNext]_<<vars, shellVars>> PROVE TextInv'
    OBVIOUS
  <1>0. pc \in PCs /\ name \in Seq(Chars \cup {SPACE})
    BY DEF TextInv
  <1>1. CASE Boot
    <2>1. pc' \in PCs \ {"execute", "name", "exec"} /\ UNCHANGED <<cmd, tbuf, clean, line, name>>
      BY <1>1 DEF Boot, ReadBuffer, NewATA, ShellFname, LoadShell, UnloadShell, ShellBuf,
                  AllocCmd, AllocTbuf, Keep, FreePtr, buffers, command, typing, PCs
    <2> QED
      BY <1>0, <2>1, TextKept
  <1>2. ASSUME NEW l \in Lines, GetString(l) PROVE TextInv'
    <2>1. /\ l \in Seq(Chars \cup {SPACE}) /\ Len(l) < InputSize
      BY LineAssumption
    <2>2. /\ cmd' = StrCpy(cmd, l) /\ line' = l /\ pc' = "execute"
          /\ UNCHANGED <<tbuf, name, arg, clean>>
      BY <1>2 DEF GetString, command
    <2>3. Terminated(cmd)' /\ Str(cmd)' = line'
      BY <2>1, <2>2, StrCpyFacts DEF TextInv
    <2> QED
      BY <2>2, <2>3 DEF TextInv, SplitExact, PCs, Terminated, StrLen
  <1>3. CASE Execute
    BY <1>3, ExecuteSplits
  <1>4. CASE MakeName
    BY <1>0, <1>4, TextKept DEF MakeName, buffers, typing, PCs
  <1>5. CASE ExecInitrd
    BY <1>0, <1>5, TextKept DEF ExecInitrd, buffers, command, typing, PCs
  <1>6. CASE FreeName
    <2>1. <<>> \in Seq(Chars \cup {SPACE})
      OBVIOUS
    <2> QED
      BY <1>0, <1>6, <2>1, TextKept DEF FreeName, FreePtr, buffers, typing, PCs
  <1>9. CASE ExecShell
    <2>1. <<>> \in Seq(Chars \cup {SPACE})
      OBVIOUS
    <2> QED
      BY <1>0, <1>9, <2>1, TextKept DEF ExecShell, buffers, typing, PCs
  <1>10. CASE NewCmd \/ NewTbuf
    <2>1. \A b \in Leftover : Terminated(b)
      BY LeftoverAssumption DEF Terminated, Bytes
    <2>2. /\ pc' \in {"newtbuf", "prompt", "lost"} /\ UNCHANGED name
          /\ cmd' \in Leftover \/ cmd' = cmd
          /\ \/ tbuf' \in Leftover /\ clean' = (tbuf' = [i \in Places |-> NUL])
             \/ UNCHANGED <<tbuf, clean>>
      BY <1>10 DEF NewCmd, NewTbuf, command, typing
    <2>3. Terminated(cmd') /\ Terminated(tbuf')
      BY <2>1, <2>2 DEF TextInv
    <2>4. clean' => \A i \in Places : i >= StrLen(tbuf') => tbuf'[i] = NUL
      BY <2>2 DEF TextInv
    <2> QED
      BY <1>0, <2>2, <2>3, <2>4 DEF TextInv, SplitExact, PCs, Terminated, StrLen
  <1>7. CASE Program
    <2>1. UNCHANGED <<cmd, tbuf, clean, line, name>> /\ pc' \in PCs \ {"execute", "name", "exec"}
      <3>1. ASSUME NEW size \in Sizes, ProgramMalloc(size)
            PROVE  At("program") /\ pc' = "program"
        BY <3>1 DEF ProgramMalloc, Asks, Step
      <3>2. ASSUME NEW f, Cat(f) \/ Read(f)
            PROVE  At("program") /\ pc' \in {"program", "cat", "read"}
        BY <3>2 DEF Cat, Read, Open, Asks, Step
      <3>3. CASE ProgramFree \/ ProgramReturns \/ Ls \/ LsEntry \/ LsEnds
        BY <3>3 DEF ProgramFree, ProgramReturns, Ls, LsEntry, LsEnds, Asks, Step, At,
                    buffers, command, typing, PCs
      <3>4. CASE CatReads \/ ReadReads \/ Copy
        BY <3>4 DEF CatReads, ReadReads, Reads, Copy, Step, At, buffers, command, typing, PCs
      <3>5. CASE CatFails \/ CatAgain \/ CatEnds \/ ReadEnds
        BY <3>5 DEF CatFails, CatAgain, CatEnds, ReadEnds, FreePtr, At,
                    buffers, command, typing, PCs
      <3> QED
        BY <1>7, <3>1, <3>2, <3>3, <3>4, <3>5 DEF Program, At, buffers, command, typing, PCs
    <2> QED
      BY <1>0, <2>1, TextKept
  <1>8. CASE UNCHANGED <<vars, shellVars>>
    <2>1. UNCHANGED <<pc, cmd, tbuf, name, arg, clean, line>>
      BY <1>8 DEF shellVars, buffers, command, typing
    <2> QED
      BY <2>1 DEF TextInv, SplitExact, Terminated, StrLen, Str
  <1> QED
    BY <1>1, <1>2, <1>3, <1>4, <1>5, <1>6, <1>7, <1>8, <1>9, <1>10 DEF ShellNext

-----------------------------------------------------------------------------
(* Who owns which chunk.                                                   *)

LEMMA ToSetCons ==
    ASSUME NEW S, NEW s \in Seq(S), NEW x \in S
    PROVE  /\ <<x>> \o s \in Seq(S)
           /\ Len(<<x>> \o s) = Len(s) + 1
           /\ (<<x>> \o s)[1] = x
           /\ \A i \in 2 .. Len(s) + 1 : (<<x>> \o s)[i] = s[i - 1]
           /\ ToSet(<<x>> \o s) = {x} \cup ToSet(s)
  <1> DEFINE c == <<x>> \o s
  <1>1. /\ c \in Seq(S) /\ Len(c) = Len(s) + 1 /\ c[1] = x
        /\ \A i \in 2 .. Len(s) + 1 : c[i] = s[i - 1]
    OBVIOUS
  <1>2. DOMAIN c = 1 .. Len(s) + 1 /\ DOMAIN s = 1 .. Len(s) /\ Len(s) \in Nat
    BY <1>1
  <1> HIDE DEF c
  <1>3. ToSet(c) \subseteq {x} \cup ToSet(s)
    <2> SUFFICES ASSUME NEW i \in 1 .. Len(s) + 1, i # 1 PROVE c[i] \in ToSet(s)
      BY <1>1, <1>2 DEF ToSet
    <2>1. i \in 2 .. Len(s) + 1 /\ i - 1 \in DOMAIN s
      BY <1>2
    <2> QED
      BY <1>1, <2>1 DEF ToSet
  <1>4. {x} \cup ToSet(s) \subseteq ToSet(c)
    <2>1. x \in ToSet(c)
      <3>1. 1 \in DOMAIN c
        BY <1>2
      <3> QED
        BY <1>1, <3>1 DEF ToSet
    <2>2. ASSUME NEW i \in DOMAIN s PROVE s[i] \in ToSet(c)
      <3>1. i + 1 \in 2 .. Len(s) + 1 /\ (i + 1) - 1 = i /\ i + 1 \in DOMAIN c
        BY <1>2
      <3> QED
        BY <1>1, <3>1 DEF ToSet
    <2> QED
      BY <2>1, <2>2 DEF ToSet
  <1> QED
    BY <1>1, <1>3, <1>4 DEF c

\* The first chunk of a list without repetitions is not in the rest.
LEMMA ToSetTail ==
    ASSUME NEW S, NEW s \in Seq(S), s # <<>>, \A i, j \in DOMAIN s : s[i] = s[j] => i = j
    PROVE  /\ Tail(s) \in Seq(S)
           /\ Head(s) \in ToSet(s)
           /\ ToSet(Tail(s)) = ToSet(s) \ {Head(s)}
           /\ \A i, j \in DOMAIN Tail(s) : Tail(s)[i] = Tail(s)[j] => i = j
  <1> DEFINE r == Tail(s)
             n == Len(s)
  <1>1. /\ r \in Seq(S) /\ Head(s) = s[1] /\ Len(r) = n - 1 /\ n \in Nat /\ n >= 1
        /\ \A i \in 1 .. n - 1 : r[i] = s[i + 1]
    OBVIOUS
  <1>2. DOMAIN s = 1 .. n /\ DOMAIN r = 1 .. n - 1
    BY <1>1
  <1> HIDE DEF r, n
  <1>3. 1 \in DOMAIN s /\ \A i \in DOMAIN r : i + 1 \in DOMAIN s /\ i + 1 # 1 /\ i \in Int
    BY <1>1, <1>2
  <1>4. \A i, j \in DOMAIN r : r[i] = r[j] => i = j
    <2> SUFFICES ASSUME NEW i \in DOMAIN r, NEW j \in DOMAIN r, r[i] = r[j] PROVE i = j
      OBVIOUS
    <2>1. i + 1 = j + 1
      BY <1>1, <1>2, <1>3
    <2> QED
      BY <1>3, <2>1
  <1>5. \A i \in DOMAIN r : r[i] \in ToSet(s) \ {s[1]}
    BY <1>1, <1>2, <1>3 DEF ToSet
  <1>6. ASSUME NEW i \in DOMAIN s, i # 1 PROVE s[i] \in ToSet(r)
    <2>1. i - 1 \in DOMAIN r /\ (i - 1) + 1 = i
      BY <1>1, <1>2, <1>6
    <2> QED
      BY <1>1, <1>2, <2>1 DEF ToSet
  <1>7. ToSet(r) = ToSet(s) \ {s[1]}
    <2>1. ToSet(r) \subseteq ToSet(s) \ {s[1]}
      BY <1>5 DEF ToSet
    <2>2. ASSUME NEW x \in ToSet(s) \ {s[1]} PROVE x \in ToSet(r)
      <3>1. PICK i \in DOMAIN s : x = s[i]
        BY DEF ToSet
      <3> QED
        BY <1>6, <2>2, <3>1
    <2> QED
      BY <2>1, <2>2
  <1>8. s[1] \in ToSet(s)
    BY <1>3 DEF ToSet
  <1> QED
    BY <1>1, <1>4, <1>7, <1>8 DEF r

\* What is read of a file fits into the read buffer.
LEMMA ReadFits == \A f : ReadFs(f, BufferSize) \in 0 .. BufferSize
  BY DiskAssumption DEF ReadFs, InitrdRead, IsFile

\* A program's step starts where a program runs and leaves the shell alone.
LEMMA ProgramAt == Program => \E from \in Running : At(from)
  <1> SUFFICES ASSUME Program PROVE \E from \in Running : At(from)
    OBVIOUS
  <1>1. CASE \E size \in Sizes : ProgramMalloc(size)
    BY <1>1 DEF ProgramMalloc, Asks, Step, Running
  <1>2. CASE \E f \in Files \cup {"mtp", "none"} : Cat(f) \/ Read(f)
    BY <1>2 DEF Cat, Read, Open, Asks, Step, Running
  <1>3. CASE \/ ProgramFree \/ ProgramReturns \/ Ls \/ LsEntry \/ LsEnds
             \/ CatReads \/ ReadReads \/ Copy \/ CatFails \/ CatAgain \/ CatEnds \/ ReadEnds
    BY <1>3 DEF ProgramFree, ProgramReturns, Ls, LsEntry, LsEnds, Asks, Step, Running,
                CatReads, ReadReads, Reads, Copy, CatFails, CatAgain, CatEnds, ReadEnds
  <1> QED
    BY <1>1, <1>2, <1>3 DEF Program

\* A step that leaves the heap and its owners alone.
LEMMA SameOwners ==
    ASSUME OwnInv, live' = live, UNCHANGED <<bin_name, buf, held, again, shells>>,
           pc \notin {"catagain", "lost"},
           pc' \notin {"catagain", "unload", "newcmd", "newtbuf"},
           pc' \notin Named => bin_name = 0, pc' \notin Running => held = <<>>,
           pc' \notin Reading => buf = 0, Stage' = Stage
    PROVE  OwnInv'
  <1>1. Ownership'
    BY DEF OwnInv, Ownership
  <1>2. Permanent' = Permanent
    BY DEF Permanent
  <1> QED
    BY <1>1, <1>2 DEF OwnInv, Counted, PermanentCount

\* A chunk that is never freed.
LEMMA KeepOwns ==
    ASSUME HeapInv, OwnInv, NEW from, NEW to, NEW size \in Nat, Keep(from, to, size),
           from \notin {"newcmd", "newtbuf", "lost"}, to \notin {"newcmd", "newtbuf"},
           from \notin Named \cup Running \cup Reading, to \notin Named \cup Running \cup Reading,
           Stage' = Stage + 1, Stage \in Nat
    PROVE  HeapInv' /\ OwnInv'
  <1>1. /\ pc = from /\ pc' = to /\ UNCHANGED <<bin_name, buf, held, again, shells>> /\ Malloc(size)
    BY DEF Keep, command, kernel, chunks
  <1>2. /\ HeapInv' /\ Got \in Nat \ {0}
        /\ Got \notin DOMAIN live /\ DOMAIN live' = DOMAIN live \cup {Got}
        /\ \A q \in DOMAIN live : live'[q] = live[q]
    BY <1>1, MallocGot
  <1>3. bin_name = 0 /\ buf = 0 /\ held = <<>> /\ again \in Nat /\ shells \in Nat
    BY <1>1 DEF OwnInv, Ownership
  <1>4. Ownership'
    BY <1>1, <1>3 DEF Ownership, ToSet, Reading
  <1>5. Permanent' = Permanent \cup {Got} /\ Got \notin Permanent
    BY <1>1, <1>2, <1>3 DEF Permanent, ToSet
  <1>6. Counted'
    BY <1>1, <1>3, <1>5, FS_AddElement DEF OwnInv, Counted, PermanentCount
  <1> QED
    BY <1>2, <1>4, <1>6 DEF OwnInv

\* The chunks of kmain and owshell_main, and the one that is freed.
LEMMA BootOwns ==
    ASSUME HeapInv, OwnInv, Boot
    PROVE  HeapInv' /\ OwnInv'
  <1>0. /\ BufferSize \in Nat /\ ATA \in Nat /\ FNAME \in Nat /\ ShellSize \in Nat
        /\ InputSize \in Nat
    BY DiskAssumption, ShellAssumption, InputAssumption DEF ATA, FNAME
  <1>1. CASE ReadBuffer
    <2>1. Stage' = Stage + 1 /\ Stage \in Nat /\ Keep("boot", "ata", BufferSize)
      BY <1>1 DEF ReadBuffer, Keep, Stage
    <2> QED
      BY <1>0, <2>1, KeepOwns DEF Named, Running, Reading
  <1>2. CASE NewATA
    <2>1. Stage' = Stage + 1 /\ Stage \in Nat /\ Keep("ata", "fname", ATA)
      BY <1>2 DEF NewATA, Keep, Stage
    <2> QED
      BY <1>0, <2>1, KeepOwns DEF Named, Running, Reading
  <1>3. CASE ShellFname
    <2>1. Stage' = Stage + 1 /\ Stage \in Nat /\ Keep("fname", "load", FNAME)
      BY <1>3 DEF ShellFname, Keep, Stage
    <2> QED
      BY <1>0, <2>1, KeepOwns DEF Named, Running, Reading
  <1>4. CASE ShellBuf
    <2>1. Stage' = Stage + 1 /\ Stage \in Nat /\ Keep("save", "cmd", ShellSize)
      BY <1>4 DEF ShellBuf, Keep, Stage
    <2> QED
      BY <1>0, <2>1, KeepOwns DEF Named, Running, Reading
  <1>5. CASE AllocCmd
    <2>1. Stage' = Stage + 1 /\ Stage \in Nat /\ Keep("cmd", "tbuf", InputSize)
      BY <1>5 DEF AllocCmd, Keep, Stage
    <2> QED
      BY <1>0, <2>1, KeepOwns DEF Named, Running, Reading
  <1>6. CASE AllocTbuf
    <2>1. Stage' = Stage + 1 /\ Stage \in Nat /\ Keep("tbuf", "prompt", InputSize)
      BY <1>6 DEF AllocTbuf, Keep, Stage
    <2> QED
      BY <1>0, <2>1, KeepOwns DEF Named, Running, Reading
  <1>7. CASE LoadShell
    <2>1. /\ pc = "load" /\ pc' = "unload" /\ Malloc(BufferSize) /\ buf' = Got
          /\ UNCHANGED <<bin_name, held, again, shells>>
      BY <1>7 DEF LoadShell, command, chunks
    <2>2. /\ HeapInv' /\ Got \in Nat \ {0} /\ live'[Got] = BufferSize
          /\ Got \notin DOMAIN live /\ DOMAIN live' = DOMAIN live \cup {Got}
      BY <1>0, <2>1, MallocGot
    <2>3. bin_name = 0 /\ buf = 0 /\ held = <<>> /\ again \in Nat /\ shells \in Nat
      BY <2>1 DEF OwnInv, Ownership, Named, Running, Reading
    <2>4. Ownership'
      BY <2>1, <2>2, <2>3 DEF Ownership, ToSet, Reading
    <2>5. Permanent' = Permanent
      BY <2>1, <2>2, <2>3, NotLiveZero DEF Permanent, ToSet
    <2>6. Stage' = Stage
      BY <2>1 DEF Stage
    <2> QED
      BY <2>1, <2>2, <2>4, <2>5, <2>6 DEF OwnInv, Counted, PermanentCount
  <1>8. CASE UnloadShell
    <2>1. /\ pc = "unload" /\ FreePtr(buf, "save") /\ buf' = 0
          /\ UNCHANGED <<bin_name, held, again, shells>>
      BY <1>8 DEF UnloadShell, command, chunks
    <2>2. /\ bin_name = 0 /\ buf \in DOMAIN live /\ held = <<>> /\ again \in Nat /\ shells \in Nat /\ buf # 0
      BY <2>1 DEF OwnInv, Ownership, Named, Running, Reading
    <2>3. pc' = "save" /\ Free(buf)
      BY <2>1, <2>2 DEF FreePtr
    <2>4. HeapInv' /\ DOMAIN live' = DOMAIN live \ {buf}
      BY <2>2, <2>3, FreeInv
    <2>5. Ownership'
      BY <2>1, <2>2, <2>3 DEF Ownership, ToSet, Reading
    <2>6. Permanent' = Permanent
      BY <2>1, <2>2, <2>4, NotLiveZero DEF Permanent, ToSet
    <2>7. Stage' = Stage
      BY <2>1, <2>3 DEF Stage
    <2> QED
      BY <2>1, <2>4, <2>5, <2>6, <2>7 DEF OwnInv, Counted, PermanentCount
  <1> QED
    BY <1>1, <1>2, <1>3, <1>4, <1>5, <1>6, <1>7, <1>8 DEF Boot

\* bin_file_exec's buffer for the name.
LEMMA NameOwns ==
    ASSUME HeapInv, TextInv, OwnInv, MakeName \/ FreeName
    PROVE  HeapInv' /\ OwnInv'
  <1>1. CASE MakeName
    <2>1. /\ pc = "name" /\ pc' = "exec" /\ Alloc(NameSize(name)) /\ bin_name' = Got
          /\ UNCHANGED <<buf, held, again, shells>>
      BY <1>1 DEF MakeName, kernel, chunks
    <2>2. NameSize(name) \in Nat
      BY DEF TextInv, NameSize, BIN_EXT
    <2>3. /\ HeapInv' /\ Got \in Nat
          /\ DOMAIN live' \ {Got} = DOMAIN live /\ (Got # 0 => Got \in DOMAIN live')
      BY <2>1, <2>2, AllocGot
    <2>4. bin_name = 0 /\ buf = 0 /\ held = <<>> /\ again \in Nat /\ shells \in Nat
      BY <2>1 DEF OwnInv, Ownership, Named, Running, Reading
    <2>5. Ownership'
      BY <2>1, <2>3, <2>4 DEF Ownership, ToSet, Named, Running, Reading
    <2>6. Permanent' = Permanent
      <3>1. 0 \notin DOMAIN live /\ (0 \notin DOMAIN live)'
        BY <2>3, NotLiveZero, PTL
      <3> QED
        BY <2>1, <2>3, <2>4, <3>1 DEF Permanent, ToSet
    <2>7. Stage' = Stage
      BY <2>1 DEF Stage
    <2> QED
      BY <2>1, <2>3, <2>5, <2>6, <2>7 DEF OwnInv, Counted, PermanentCount
  <1>2. CASE FreeName
    <2>1. /\ pc = "return" /\ FreePtr(bin_name, "prompt") /\ bin_name' = 0
          /\ UNCHANGED <<buf, held, again, shells>>
      BY <1>2 DEF FreeName, kernel, chunks
    <2>2. /\ buf = 0 /\ held = <<>> /\ again \in Nat /\ shells \in Nat
          /\ bin_name # 0 => bin_name \in DOMAIN live
      BY <2>1 DEF OwnInv, Ownership, Named, Running, Reading
    <2>3. pc' \in {"prompt", "hung"}
      BY <2>1 DEF FreePtr
    <2>4. HeapInv' /\ DOMAIN live' = DOMAIN live \ {bin_name}
      <3>1. CASE bin_name = 0
        BY <2>1, <3>1, HeapStutters, NotLiveZero DEF FreePtr, vars
      <3>2. CASE bin_name # 0
        BY <2>1, <2>2, <3>2, FreeInv DEF FreePtr
      <3> QED
        BY <3>1, <3>2
    <2>5. Ownership'
      BY <2>1, <2>2, <2>3 DEF Ownership, ToSet, Named, Running, Reading
    <2>6. Permanent' = Permanent
      BY <2>1, <2>2, <2>4, NotLiveZero DEF Permanent, ToSet
    <2>7. Stage' = Stage
      BY <2>1, <2>3 DEF Stage
    <2> QED
      BY <2>1, <2>4, <2>5, <2>6, <2>7 DEF OwnInv, Counted, PermanentCount
  <1> QED
    BY <1>1, <1>2

\* A chunk the program gets comes to the front of its list, if there is one.
LEMMA HoldingOwns ==
    ASSUME HeapInv, OwnInv, NEW size \in Nat, Alloc(size), held' = Holding,
           UNCHANGED <<bin_name, buf, again, shells>>, pc \in Running \ {"catagain"},
           pc' \in Running \ {"catagain"}, pc' \notin Reading => buf = 0
    PROVE  HeapInv' /\ OwnInv'
  <1>1. /\ HeapInv' /\ Got \in Nat
        /\ DOMAIN live' \ {Got} = DOMAIN live /\ (Got # 0 => Got \in DOMAIN live')
        /\ Got \notin DOMAIN live /\ (Got = 0 => live' = live)
        /\ \A q \in DOMAIN live : q \in DOMAIN live' /\ live'[q] = live[q]
    BY AllocGot
  <1>2. /\ bin_name \in Nat /\ buf \in Nat /\ again \in Nat /\ shells \in Nat /\ held \in Seq(Nat)
        /\ bin_name # 0 => bin_name \in DOMAIN live
        /\ buf # 0 => buf # bin_name
        /\ buf # 0 => buf \in DOMAIN live /\ live[buf] = BufferSize
        /\ ToSet(held) \subseteq DOMAIN live \ {bin_name, buf}
        /\ \A i, j \in DOMAIN held : held[i] = held[j] => i = j
    BY DEF OwnInv, Ownership, Running
  <1>3. Stage' = Stage
    BY DEF Stage, Running
  <1>4. /\ pc # "lost" /\ pc' \in Named
        /\ pc' \notin {"unload", "newcmd", "newtbuf"}
    BY DEF Named, Running
  <1>5. CASE Got = 0
    <2>1. held' = held /\ live' = live
      BY <1>1, <1>5 DEF Holding
    <2> QED
      BY <1>1, <1>3, <1>4, <2>1, SameOwners
  <1>6. CASE Got # 0
    <2>1. /\ held' \in Seq(Nat) /\ Len(held') = Len(held) + 1 /\ held'[1] = Got
          /\ \A i \in 2 .. Len(held) + 1 : held'[i] = held[i - 1]
          /\ ToSet(held') = {Got} \cup ToSet(held)
      BY <1>1, <1>2, <1>6, ToSetCons DEF Holding
    <2>2. \A i \in DOMAIN held : held[i] # Got
      BY <1>1, <1>2 DEF ToSet
    <2>3. \A i, j \in DOMAIN held' : held'[i] = held'[j] => i = j
      <3> SUFFICES ASSUME NEW i \in DOMAIN held', NEW j \in DOMAIN held', held'[i] = held'[j]
                   PROVE  i = j
        OBVIOUS
      <3>1. DOMAIN held' = 1 .. Len(held) + 1 /\ DOMAIN held = 1 .. Len(held) /\ Len(held) \in Nat
        BY <1>2, <2>1
      <3>2. i = 1 \/ (i \in 2 .. Len(held) + 1 /\ i - 1 \in DOMAIN held)
        BY <3>1
      <3>3. j = 1 \/ (j \in 2 .. Len(held) + 1 /\ j - 1 \in DOMAIN held)
        BY <3>1
      <3> QED
        BY <1>2, <2>1, <2>2, <3>1, <3>2, <3>3, SMTT(30)
    <2>4. Got # bin_name /\ Got # buf
      BY <1>1, <1>2, <1>6
    <2>5. Ownership'
      <3>1. ToSet(held') \subseteq DOMAIN live' \ {bin_name, buf}
        BY <1>1, <1>2, <1>6, <2>1, <2>4
      <3> QED
        BY <1>1, <1>2, <1>4, <2>1, <2>3, <3>1 DEF Ownership
    <2>6. Permanent' = Permanent
      BY <1>1, <2>1 DEF Permanent
    <2> QED
      BY <1>1, <1>3, <1>4, <2>5, <2>6 DEF OwnInv, Counted, PermanentCount
  <1> QED
    BY <1>5, <1>6

\* cat_initrd and read_initrd take their buffer.
LEMMA OpenOwns ==
    ASSUME HeapInv, OwnInv, NEW f, NEW to \in {"cat", "read"}, Open(f, to)
    PROVE  HeapInv' /\ OwnInv'
  <1>1. pc = "program" /\ UNCHANGED <<bin_name, held, again, shells>>
    BY DEF Open, Asks, Step, At, command
  <1>2. buf = 0
    BY <1>1 DEF OwnInv, Ownership, Reading
  <1>3. CASE Finds(f)
    <2>1. pc' = to /\ Alloc(BufferSize) /\ buf' = Got
      BY <1>3 DEF Open, Asks, Step
    <2>2. /\ HeapInv' /\ Got \in Nat /\ (Got # 0 => live'[Got] = BufferSize)
          /\ DOMAIN live' \ {Got} = DOMAIN live /\ (Got # 0 => Got \in DOMAIN live')
          /\ Got \notin DOMAIN live
          /\ \A q \in DOMAIN live : q \in DOMAIN live' /\ live'[q] = live[q]
      BY <2>1, DiskAssumption, AllocGot
    <2>3. /\ bin_name \in Nat /\ again \in Nat /\ shells \in Nat /\ held \in Seq(Nat)
          /\ bin_name # 0 => bin_name \in DOMAIN live
          /\ ToSet(held) \subseteq DOMAIN live \ {bin_name, buf}
          /\ \A i, j \in DOMAIN held : held[i] = held[j] => i = j
      BY DEF OwnInv, Ownership
    <2>4. pc' \in Named /\ pc' \in Running /\ pc' \in Reading /\ pc' # "catagain" /\ pc' # "unload"
      BY <2>1 DEF Named, Running, Reading
    <2>5. ToSet(held') \subseteq DOMAIN live' \ {bin_name', buf'}
      BY <1>1, <2>1, <2>2, <2>3
    <2>6. buf' # 0 => buf' # bin_name'
      BY <1>1, <2>1, <2>2, <2>3
    <2>7. Ownership'
      BY <1>1, <2>1, <2>2, <2>3, <2>4, <2>5, <2>6 DEF Ownership
    <2>8. Permanent' = Permanent
      <3>1. 0 \notin DOMAIN live
        BY NotLiveZero
      <3> QED
        BY <1>1, <1>2, <2>1, <2>2, <3>1 DEF Permanent
    <2>9. Stage' = Stage
      BY <1>1, <2>1 DEF Stage
    <2> QED
      BY <1>1, <2>2, <2>7, <2>8, <2>9 DEF OwnInv, Counted, PermanentCount
  <1>4. CASE ~Finds(f)
    <2>1. pc' = "program" /\ UNCHANGED <<vars, buf>>
      BY <1>4 DEF Open, Asks, Step
    <2>2. Stage' = Stage
      BY <1>1, <2>1 DEF Stage
    <2> QED
      BY <1>1, <1>2, <2>1, <2>2, SameOwners, HeapStutters DEF vars, Named, Running
  <1> QED
    BY <1>3, <1>4

\* The kernel's read buffer is freed, or the free does not return.
LEMMA FreeBufOwns ==
    ASSUME HeapInv, OwnInv, NEW to \in {"program", "catagain"}, FreePtr(buf, to),
           pc \in Running \cap Reading, pc # "catagain", UNCHANGED <<bin_name, held, again, shells>>,
           buf' = IF to = "catagain" THEN buf ELSE 0
    PROVE  HeapInv' /\ OwnInv'
  <1>1. /\ bin_name \in Nat /\ buf \in Nat /\ again \in Nat /\ shells \in Nat /\ held \in Seq(Nat)
        /\ bin_name # 0 => bin_name \in DOMAIN live
        /\ buf # 0 => buf # bin_name /\ buf \in DOMAIN live
        /\ ToSet(held) \subseteq DOMAIN live \ {bin_name, buf}
        /\ \A i, j \in DOMAIN held : held[i] = held[j] => i = j
    BY DEF OwnInv, Ownership
  <1>2. CASE buf = 0
    <2>1. pc' = "hung" /\ UNCHANGED vars /\ buf' = 0
      BY <1>2 DEF FreePtr
    <2>2. Stage' = Stage
      BY <2>1 DEF Stage, Running, Reading
    <2> QED
      BY <1>2, <2>1, <2>2, SameOwners, HeapStutters DEF vars, Named, Running
  <1>3. CASE buf # 0
    <2>1. pc' = to /\ Free(buf)
      BY <1>3 DEF FreePtr
    <2>2. /\ HeapInv' /\ DOMAIN live' = DOMAIN live \ {buf}
          /\ \A q \in DOMAIN live' : live'[q] = live[q]
          /\ buf - HDR \in DOMAIN hdrs' /\ ~hdrs'[buf - HDR].taken
      BY <1>1, <1>3, <2>1, FreeInv
    <2>3. ToSet(held') \subseteq DOMAIN live' \ {bin_name', buf'}
      <3>1. 0 \notin DOMAIN live
        BY NotLiveZero
      <3> QED
        BY <1>1, <2>2, <3>1
    <2>4. /\ pc # "lost" /\ pc' \in Named /\ pc' \in Running
          /\ pc' \notin {"unload", "newcmd", "newtbuf"} /\ (pc' \in Reading <=> to = "catagain")
      BY <2>1 DEF Named, Running, Reading
    <2>5. Ownership'
      BY <1>1, <1>3, <2>1, <2>2, <2>3, <2>4 DEF Ownership
    <2>6. Permanent' = Permanent
      <3>1. 0 \notin DOMAIN live
        BY NotLiveZero
      <3> QED
        BY <2>1, <2>2, <3>1 DEF Permanent
    <2>7. Stage' = Stage
      BY <2>1 DEF Stage, Running, Reading
    <2> QED
      BY <2>2, <2>4, <2>5, <2>6, <2>7 DEF OwnInv, Counted, PermanentCount
  <1> QED
    BY <1>2, <1>3

\* The second free of cat_initrd.
LEMMA CatAgainOwns ==
    ASSUME HeapInv, OwnInv, CatAgain
    PROVE  HeapInv' /\ OwnInv'
  <1>1. /\ pc = "catagain" /\ pc' = "program" /\ FreeAgain(buf) /\ again' = again + 1
        /\ buf' = 0 /\ UNCHANGED <<bin_name, held, shells>>
    BY DEF CatAgain, At, Ends, command
  <1>2. /\ bin_name \in Nat /\ buf \in Nat /\ again \in Nat /\ shells \in Nat /\ held \in Seq(Nat)
        /\ bin_name # 0 => bin_name \in DOMAIN live
        /\ buf - HDR \in DOMAIN hdrs /\ ~hdrs[buf - HDR].taken
        /\ ToSet(held) \subseteq DOMAIN live \ {bin_name, buf}
        /\ \A i, j \in DOMAIN held : held[i] = held[j] => i = j
    BY <1>1 DEF OwnInv, Ownership
  <1>3. HeapInv' /\ live' = live
    BY <1>1, <1>2, FreeAgainFacts
  <1>4. 0 \notin DOMAIN live /\ buf \notin DOMAIN live
    BY <1>2, NotLiveZero DEF HeapInv, OwnedChunks
  <1>5. ToSet(held') \subseteq DOMAIN live' \ {bin_name', buf'}
    BY <1>1, <1>2, <1>3, <1>4
  <1>6. pc' \in Named /\ pc' \in Running /\ pc' # "unload" /\ pc' # "catagain"
    BY <1>1 DEF Named, Running
  <1>7. Ownership'
    BY <1>1, <1>2, <1>3, <1>5, <1>6 DEF Ownership
  <1>8. Permanent' = Permanent
    BY <1>1, <1>3, <1>4 DEF Permanent
  <1>9. Stage' = Stage
    BY <1>1 DEF Stage
  <1> QED
    BY <1>1, <1>3, <1>7, <1>8, <1>9 DEF OwnInv, Counted, PermanentCount

\* The program frees the chunk it got last.
LEMMA FreeHeadOwns ==
    ASSUME HeapInv, OwnInv, ProgramFree
    PROVE  /\ HeapInv' /\ OwnInv'
           /\ Head(held) \in DOMAIN live \ {bin_name}
           /\ DOMAIN live' = DOMAIN live \ {Head(held)}
           /\ \A q \in DOMAIN live' : live'[q] = live[q]
  <1>1. /\ pc = "program" /\ pc' = "program" /\ held # <<>> /\ Free(Head(held))
        /\ held' = Tail(held) /\ UNCHANGED <<bin_name, buf, again, shells>>
    BY DEF ProgramFree, Step, At, command, kernel
  <1>2. /\ bin_name \in Nat /\ buf = 0 /\ again \in Nat /\ shells \in Nat /\ held \in Seq(Nat)
        /\ bin_name # 0 => bin_name \in DOMAIN live
        /\ ToSet(held) \subseteq DOMAIN live \ {bin_name, buf}
        /\ \A i, j \in DOMAIN held : held[i] = held[j] => i = j
    BY <1>1 DEF OwnInv, Ownership, Reading
  <1>3. /\ Tail(held) \in Seq(Nat)
        /\ Head(held) \in ToSet(held)
        /\ ToSet(Tail(held)) = ToSet(held) \ {Head(held)}
        /\ \A i, j \in DOMAIN Tail(held) : Tail(held)[i] = Tail(held)[j] => i = j
    BY <1>1, <1>2, ToSetTail
  <1>4. /\ HeapInv' /\ DOMAIN live' = DOMAIN live \ {Head(held)}
        /\ \A q \in DOMAIN live' : live'[q] = live[q]
    BY <1>1, <1>2, <1>3, FreeInv
  <1>5. ToSet(held') \subseteq DOMAIN live' \ {bin_name', buf'}
    BY <1>1, <1>2, <1>3, <1>4
  <1>6. pc' \in Named /\ pc' \in Running /\ pc' # "unload" /\ pc' # "catagain"
    BY <1>1 DEF Named, Running
  <1>7. Ownership'
    BY <1>1, <1>2, <1>3, <1>4, <1>5, <1>6 DEF Ownership
  <1>8. Permanent' = Permanent
    BY <1>1, <1>3, <1>4 DEF Permanent
  <1>9. Stage' = Stage
    BY <1>1 DEF Stage
  <1> QED
    BY <1>1, <1>2, <1>3, <1>4, <1>7, <1>8, <1>9 DEF OwnInv, Counted, PermanentCount

\* The shell is started from the shell: the name's chunk stays, and its own two come to it.
LEMMA ShellOwns ==
    ASSUME HeapInv, OwnInv, ExecShell \/ NewCmd \/ NewTbuf
    PROVE  HeapInv' /\ OwnInv'
  <1>0. shells \in Nat /\ again \in Nat
    BY DEF OwnInv, Ownership
  <1>1. CASE ExecShell
    <2>1. /\ pc = "exec" /\ pc' = "newcmd" /\ bin_name # 0 /\ bin_name' = 0 /\ shells' = shells + 1
          /\ UNCHANGED <<vars, buf, held, again>>
      BY <1>1 DEF ExecShell, kernel
    <2>2. buf = 0 /\ held = <<>> /\ bin_name \in DOMAIN live /\ 0 \notin DOMAIN live
      BY <2>1, NotLiveZero DEF OwnInv, Ownership, Running, Reading
    <2>3. HeapInv' /\ live' = live
      BY <2>1, HeapStutters DEF vars
    <2>4. Ownership'
      BY <1>0, <2>1, <2>2 DEF Ownership, ToSet, Reading
    <2>5. Permanent' = Permanent \cup {bin_name} /\ bin_name \notin Permanent
      BY <2>1, <2>2, <2>3 DEF Permanent, ToSet
    <2>6. Cardinality(Permanent) = 6 + 3 * shells /\ IsFiniteSet(Permanent)
      BY <2>1 DEF OwnInv, Counted, PermanentCount, Stage
    <2>7. Cardinality(Permanent') = 6 + 3 * shells + 1 /\ IsFiniteSet(Permanent')
      BY <2>5, <2>6, FS_AddElement
    <2>8. PermanentCount' = 4 + 3 * (shells + 1)
      BY <2>1 DEF PermanentCount, Stage
    <2>9. Counted'
      BY <1>0, <2>7, <2>8 DEF Counted
    <2> QED
      BY <2>3, <2>4, <2>9 DEF OwnInv
  <1>2. CASE NewCmd \/ NewTbuf
    <2>1. /\ pc \in {"newcmd", "newtbuf"} /\ Alloc(InputSize)
          /\ UNCHANGED <<bin_name, buf, held, again, shells>>
          /\ pc' = IF Got = 0 THEN "lost" ELSE IF pc = "newcmd" THEN "newtbuf" ELSE "prompt"
      BY <1>2 DEF NewCmd, NewTbuf, command, chunks, kernel
    <2>2. /\ HeapInv' /\ (Got = 0 => live' = live) /\ Got \notin DOMAIN live
          /\ DOMAIN live' \ {Got} = DOMAIN live /\ (Got # 0 => Got \in DOMAIN live')
      BY <2>1, InputAssumption, AllocGot
    <2>3. bin_name = 0 /\ buf = 0 /\ held = <<>> /\ shells # 0 /\ 0 \notin DOMAIN live
      BY <2>1, NotLiveZero DEF OwnInv, Ownership, Named, Running, Reading
    <2>4. Ownership'
      BY <1>0, <2>1, <2>3 DEF Ownership, ToSet, Reading
    <2>5. IsFiniteSet(Permanent) /\ Cardinality(Permanent) = Stage + 3 * shells
      BY <2>1 DEF OwnInv, Counted, PermanentCount
    <2>6. CASE Got = 0
      <3>1. Permanent' = Permanent /\ pc' = "lost"
        BY <2>1, <2>2, <2>6 DEF Permanent
      <3> QED
        BY <2>2, <2>4, <2>5, <3>1 DEF OwnInv, Counted
    <2>7. CASE Got # 0
      <3>1. Permanent' = Permanent \cup {Got} /\ Got \notin Permanent
        BY <2>1, <2>2, <2>3, <2>7 DEF Permanent, ToSet
      <3>2. IsFiniteSet(Permanent') /\ Cardinality(Permanent') = Stage + 3 * shells + 1
        BY <2>5, <3>1, FS_AddElement
      <3>3. Stage \in Nat /\ Stage' = Stage + 1 /\ shells' = shells
        BY <2>1, <2>7 DEF Stage
      <3>4. Counted'
        BY <1>0, <3>2, <3>3 DEF Counted, PermanentCount
      <3> QED
        BY <2>2, <2>4, <3>4 DEF OwnInv
    <2> QED
      BY <2>6, <2>7
  <1> QED
    BY <1>1, <1>2

LEMMA InitOwn == ShellInit => HeapInv /\ OwnInv
  <1> SUFFICES ASSUME ShellInit PROVE HeapInv /\ OwnInv
    OBVIOUS
  <1>1. HeapInv
    BY InitInv DEF ShellInit, IInv
  <1>2. /\ DOMAIN live = {} /\ pc = "boot" /\ bin_name = 0 /\ buf = 0 /\ held = <<>>
        /\ again = 0 /\ shells = 0
    BY DEF ShellInit, Init
  <1>3. Ownership
    BY <1>2 DEF Ownership, ToSet
  <1>4. Permanent = {} /\ Stage = 0 /\ shells = 0
    BY <1>2 DEF Permanent, Stage
  <1> QED
    BY <1>1, <1>3, <1>4, FS_EmptySet DEF OwnInv, Counted, PermanentCount

\* The steps that do not ask the heap for anything.
LEMMA QuietOwns ==
    ASSUME HeapInv, TextInv, OwnInv,
           \/ \E l \in Lines : GetString(l)
           \/ Execute \/ ExecInitrd \/ ProgramReturns \/ CatReads \/ ReadReads
           \/ Ls \/ LsEntry \/ LsEnds
    PROVE  HeapInv' /\ OwnInv' /\ live' = live
  <1>1. CASE (\E l \in Lines : GetString(l)) \/ Execute
    <2>1. /\ pc \in {"prompt", "execute"} /\ pc' \in {"execute", "name"}
          /\ UNCHANGED <<vars, bin_name, held, buf, again, shells>>
      BY <1>1 DEF GetString, Execute, command, kernel, chunks
    <2>2. bin_name = 0 /\ held = <<>> /\ buf = 0
      BY <2>1 DEF OwnInv, Ownership, Named, Running, Reading
    <2>3. Stage' = Stage
      BY <2>1 DEF Stage
    <2> QED
      BY <2>1, <2>2, <2>3, SameOwners, HeapStutters DEF vars
  <1>2. CASE ExecInitrd
    <2>1. /\ pc = "exec" /\ pc' \in {"program", "return"}
          /\ UNCHANGED <<vars, bin_name, held, buf, again, shells>>
      BY <1>2 DEF ExecInitrd, command, kernel, chunks
    <2>2. held = <<>> /\ buf = 0
      BY <2>1 DEF OwnInv, Ownership, Named, Running, Reading
    <2>3. Stage' = Stage
      BY <2>1 DEF Stage
    <2> QED
      BY <2>1, <2>2, <2>3, SameOwners, HeapStutters DEF vars, Named, Running
  <1>3. CASE CatReads \/ ReadReads
    <2>1. /\ pc \in {"cat", "read"} /\ pc' \in {"catfails", "catends", "readends", "copy"}
          /\ UNCHANGED <<vars, bin_name, held, buf, again, shells>>
      BY <1>3 DEF CatReads, ReadReads, Reads, Step, At, command, kernel
    <2>2. Stage' = Stage
      BY <2>1 DEF Stage
    <2> QED
      BY <2>1, <2>2, SameOwners, HeapStutters DEF vars, Named, Running, Reading
  <1>4. CASE ProgramReturns \/ Ls \/ LsEntry \/ LsEnds
    <2>1. /\ pc \in {"program", "ls"} /\ pc' \in {"program", "ls", "return"}
          /\ pc' = "return" => held = <<>>
          /\ UNCHANGED <<vars, bin_name, held, buf, again, shells>>
      BY <1>4 DEF ProgramReturns, Ls, LsEntry, LsEnds, Asks, Step, At, command, kernel
    <2>2. buf = 0
      BY <2>1 DEF OwnInv, Ownership, Reading
    <2>3. Stage' = Stage
      BY <2>1 DEF Stage
    <2> QED
      BY <2>1, <2>2, <2>3, SameOwners, HeapStutters DEF vars, Named, Running
  <1> QED
    BY <1>1, <1>2, <1>3, <1>4

LEMMA StepOwn ==
    HeapInv /\ TextInv /\ OwnInv /\ [ShellNext]_<<vars, shellVars>> => HeapInv' /\ OwnInv'
  <1> SUFFICES ASSUME HeapInv, TextInv, OwnInv, [ShellNext]_<<vars, shellVars>>
               PROVE  HeapInv' /\ OwnInv'
    OBVIOUS
  <1>1. CASE Boot
    BY <1>1, BootOwns
  <1>2. CASE MakeName \/ FreeName
    BY <1>2, NameOwns
  <1>3. CASE \/ \E l \in Lines : GetString(l)
             \/ Execute \/ ExecInitrd \/ ProgramReturns \/ CatReads \/ ReadReads
             \/ Ls \/ LsEntry \/ LsEnds
    BY <1>3, QuietOwns
  <1>4. ASSUME NEW size \in Sizes, ProgramMalloc(size) PROVE HeapInv' /\ OwnInv'
    <2>1. /\ pc = "program" /\ pc' = "program" /\ Alloc(size) /\ held' = Holding
          /\ UNCHANGED <<bin_name, buf, again, shells>>
      BY <1>4 DEF ProgramMalloc, Asks, Step, At, command, kernel
    <2>2. buf = 0 /\ size \in Nat
      BY <2>1, SizesAssumption DEF OwnInv, Ownership, Reading
    <2> QED
      BY <2>1, <2>2, HoldingOwns DEF Running
  <1>5. ASSUME NEW f, Cat(f) \/ Read(f) PROVE HeapInv' /\ OwnInv'
    BY <1>5, OpenOwns DEF Cat, Read
  <1>6. CASE ProgramFree
    BY <1>6, FreeHeadOwns
  <1>7. CASE CatFails
    BY <1>7, FreeBufOwns DEF CatFails, At, command, kernel, Running, Reading
  <1>8. CASE CatEnds \/ ReadEnds
    BY <1>8, FreeBufOwns DEF CatEnds, ReadEnds, Ends, At, command, Running, Reading
  <1>9. CASE CatAgain
    BY <1>9, CatAgainOwns
  <1>10. CASE Copy
    <2> DEFINE sz == ReadFs(file, BufferSize)
    <2>1. /\ pc = "copy" /\ pc' = "readends" /\ Alloc(sz) /\ held' = Holding
          /\ UNCHANGED <<bin_name, buf, again, shells>>
      BY <1>10 DEF Copy, Step, At, command, kernel
    <2>2. sz \in Nat
      BY ReadFits
    <2> QED
      BY <2>1, <2>2, HoldingOwns DEF Running, Reading
  <1>11. CASE UNCHANGED <<vars, shellVars>>
    <2>1. UNCHANGED <<pc, vars, bin_name, buf, held, again, shells>>
      BY <1>11 DEF shellVars, command, kernel, chunks
    <2> QED
      BY <2>1, HeapStutters DEF vars, OwnInv, Ownership, Counted, Permanent, PermanentCount, Stage
  <1>12. CASE ExecShell \/ NewCmd \/ NewTbuf
    BY <1>12, ShellOwns
  <1> QED
    BY <1>1, <1>2, <1>3, <1>4, <1>5, <1>6, <1>7, <1>8, <1>9, <1>10, <1>11, <1>12
       DEF ShellNext, Program

-----------------------------------------------------------------------------
(* Where the kernel and the shell store.                                   *)

\* A step that frees nothing and stores nothing.
LEMMA StoreKept ==
    ASSUME StoreInv, UNCHANGED stores,
           \A q \in DOMAIN live : q \in DOMAIN live' /\ live'[q] = live[q],
           pc' \in {"exec", "program", "ls"} =>
               pc \in {"exec", "program", "ls"} /\ UNCHANGED bin_name,
           pc' # "catfails"
    PROVE  StoreInv'
  BY DEF StoreInv, StoresOwned

\* A step after which the last store is forgotten, its chunk being free.
LEMMA StoreForgotten ==
    ASSUME stores' = <<0, 0>>
    PROVE  StoreInv'
  BY DEF StoreInv, StoresOwned

\* A step that stores what fits.
LEMMA StoreFits ==
    ASSUME NEW p \in Nat, NEW n \in Nat, stores' = <<p, n>>,
           n > 0 /\ p # 0 => p \in DOMAIN live' /\ n <= live'[p],
           pc' \in {"exec", "program", "ls"} => p = bin_name',
           pc' = "catfails" => n = 0
    PROVE  StoreInv'
  BY DEF StoreInv, StoresOwned

LEMMA StepStore ==
    HeapInv /\ TextInv /\ OwnInv /\ StoreInv /\ [ShellNext]_<<vars, shellVars>> => StoreInv'
  <1> SUFFICES ASSUME HeapInv, TextInv, OwnInv, StoreInv, [ShellNext]_<<vars, shellVars>>
               PROVE  StoreInv'
    OBVIOUS
  <1>0. /\ BufferSize \in Nat /\ ATA \in Nat /\ FNAME \in Nat /\ ShellSize \in 0 .. BufferSize
        /\ InputSize \in Nat
    BY DiskAssumption, ShellAssumption, InputAssumption DEF ATA, FNAME
  <1>1. CASE ReadBuffer \/ NewATA \/ ShellFname \/ ShellBuf \/ AllocCmd \/ AllocTbuf
    <2>1. /\ \E size \in Nat : Malloc(size)
          /\ pc' \in {"ata", "fname", "load", "cmd", "tbuf", "prompt"} /\ UNCHANGED stores
      BY <1>0, <1>1 DEF ReadBuffer, NewATA, ShellFname, ShellBuf, AllocCmd, AllocTbuf, Keep
    <2>2. \A q \in DOMAIN live : q \in DOMAIN live' /\ live'[q] = live[q]
      BY <2>1, MallocGot
    <2> QED
      BY <2>1, <2>2, StoreKept
  <1>2. CASE LoadShell
    <2>1. Malloc(BufferSize) /\ stores' = <<Got, ShellSize>> /\ pc' = "unload"
      BY <1>2 DEF LoadShell
    <2>2. Got \in Nat /\ Got \in DOMAIN live' /\ live'[Got] = BufferSize
      BY <1>0, <2>1, MallocGot
    <2> QED
      BY <1>0, <2>1, <2>2, StoreFits
  <1>3. CASE UnloadShell \/ FreeName \/ ExecShell \/ CatAgain \/ CatEnds \/ ReadEnds
    <2>1. stores' = <<0, 0>>
      BY <1>3 DEF UnloadShell, FreeName, ExecShell, CatAgain, CatEnds, ReadEnds, Ends
    <2> QED
      BY <2>1, StoreForgotten
  <1>4. CASE MakeName
    <2>1. /\ pc' = "exec" /\ Alloc(NameSize(name)) /\ bin_name' = Got
          /\ stores' = <<Got, NameSize(name)>>
      BY <1>4 DEF MakeName, NameSize
    <2>2. NameSize(name) \in Nat
      BY DEF TextInv, NameSize, BIN_EXT
    <2>3. Got \in Nat /\ (Got # 0 => Got \in DOMAIN live' /\ live'[Got] = NameSize(name))
      BY <2>1, <2>2, AllocGot
    <2> QED
      BY <2>1, <2>2, <2>3, StoreFits
  <1>5. CASE \/ \E l \in Lines : GetString(l)
             \/ Execute \/ ExecInitrd \/ ProgramReturns \/ Ls \/ LsEntry \/ LsEnds
    <2>1. /\ live' = live /\ UNCHANGED stores /\ pc' # "catfails"
          /\ pc' \in {"exec", "program", "ls"} =>
                 pc \in {"exec", "program", "ls"} /\ UNCHANGED bin_name
      BY <1>5 DEF GetString, Execute, ExecInitrd, ProgramReturns, Ls, LsEntry, LsEnds, Asks,
                  Step, At, command, vars
    <2> QED
      BY <2>1, StoreKept
  <1>6. CASE CatReads \/ ReadReads
    <2> DEFINE n == ReadFs(file, BufferSize)
    <2>1. /\ stores' = <<buf, n>> /\ live' = live /\ pc \in {"cat", "read"}
          /\ pc' \in {"catfails", "catends", "readends", "copy"}
          /\ pc' = "catfails" => n = 0
      BY <1>6 DEF CatReads, ReadReads, Reads, Step, At, vars
    <2>2. n \in Nat /\ n <= BufferSize
      BY <1>0, ReadFits
    <2>3. buf \in Nat /\ (buf # 0 => buf \in DOMAIN live /\ live[buf] = BufferSize)
      BY <2>1 DEF OwnInv, Ownership
    <2> HIDE DEF n
    <2> QED
      BY <2>1, <2>2, <2>3, StoreFits
  <1>7. ASSUME NEW size \in Sizes, ProgramMalloc(size) PROVE StoreInv'
    <2>1. pc = "program" /\ pc' = "program" /\ Alloc(size) /\ UNCHANGED <<stores, bin_name>>
      BY <1>7 DEF ProgramMalloc, Asks, Step, At, command
    <2>2. \A q \in DOMAIN live : q \in DOMAIN live' /\ live'[q] = live[q]
      BY <2>1, SizesAssumption, AllocGot
    <2> QED
      BY <2>1, <2>2, StoreKept
  <1>8. ASSUME NEW f, Cat(f) \/ Read(f) PROVE StoreInv'
    <2>1. /\ pc = "program" /\ pc' \in {"program", "cat", "read"} /\ UNCHANGED <<stores, bin_name>>
          /\ Alloc(BufferSize) \/ UNCHANGED vars
      BY <1>8 DEF Cat, Read, Open, Asks, Step, At, command
    <2>2. \A q \in DOMAIN live : q \in DOMAIN live' /\ live'[q] = live[q]
      BY <1>0, <2>1, AllocGot DEF vars
    <2> QED
      BY <2>1, <2>2, StoreKept
  <1>9. CASE ProgramFree
    <2>1. /\ Head(held) \in DOMAIN live \ {bin_name} /\ DOMAIN live' = DOMAIN live \ {Head(held)}
          /\ \A q \in DOMAIN live' : live'[q] = live[q]
      BY <1>9, FreeHeadOwns
    <2>2. pc = "program" /\ pc' = "program" /\ UNCHANGED <<stores, bin_name>>
      BY <1>9 DEF ProgramFree, Step, At, command
    <2> QED
      BY <2>1, <2>2 DEF StoreInv, StoresOwned
  <1>10. CASE CatFails
    <2>1. pc = "catfails" /\ pc' \in {"hung", "catagain"} /\ UNCHANGED stores
      BY <1>10 DEF CatFails, At, FreePtr
    <2> QED
      BY <2>1 DEF StoreInv, StoresOwned
  <1>11. CASE Copy
    <2> DEFINE sz == ReadFs(file, BufferSize)
    <2>1. pc' = "readends" /\ Alloc(sz) /\ stores' = <<Got, sz>>
      BY <1>11 DEF Copy, Step
    <2>2. sz \in Nat
      BY <1>0, ReadFits
    <2> HIDE DEF sz
    <2>3. Got \in Nat /\ (Got # 0 => Got \in DOMAIN live' /\ live'[Got] = sz)
      BY <2>1, <2>2, AllocGot
    <2> QED
      BY <2>1, <2>2, <2>3, StoreFits
  <1>12. CASE UNCHANGED <<vars, shellVars>>
    BY <1>12 DEF shellVars, vars, command, StoreInv, StoresOwned
  <1>13. CASE NewCmd \/ NewTbuf
    <2>1. Alloc(InputSize) /\ UNCHANGED stores /\ pc' \in {"newtbuf", "prompt", "lost"}
      BY <1>13 DEF NewCmd, NewTbuf
    <2>2. \A q \in DOMAIN live : q \in DOMAIN live' /\ live'[q] = live[q]
      BY <1>0, <2>1, AllocGot
    <2> QED
      BY <2>1, <2>2, StoreKept
  <1> QED
    BY <1>1, <1>2, <1>3, <1>4, <1>5, <1>6, <1>7, <1>8, <1>9, <1>10, <1>11, <1>12, <1>13
       DEF ShellNext, Boot, Program

-----------------------------------------------------------------------------
(* The listing.                                                            *)

\* initrd_readdir ends the list behind the last file and never before.
LEMMA ReaddirFacts ==
    ASSUME NEW i \in Nat
    PROVE  /\ Len(FileOrder) \in Nat
           /\ Readdir(i) = "null" <=> i > Len(FileOrder)
           /\ i <= Len(FileOrder) => Readdir(i) \in Files \cup {"mtp"}
           /\ 0 < i /\ i <= Len(FileOrder) => Readdir(i) = FileOrder[i] /\ Readdir(i) \in Files
           /\ Readdir(0) = "mtp"
  <1>1. /\ Len(FileOrder) \in Nat
        /\ \A j \in 1 .. Len(FileOrder) : FileOrder[j] \in Files
        /\ "mtp" \notin Files /\ "null" \notin Files
    BY FileAssumption
  <1> QED
    BY <1>1 DEF Readdir

\* One more entry.
LEMMA LsEntryLists ==
    ASSUME ListInv, LsEntry
    PROVE  ListInv'
  <1> DEFINE n == Len(listed)
             X == [name : Files \cup {"mtp"}, directory : BOOLEAN]
  <1>1. /\ listed \in Seq(X) /\ n \in Nat /\ pc' = "ls"
        /\ listed' = Append(listed, Entry(n)) /\ Readdir(n) # "null"
    BY DEF ListInv, LsEntry, Step, Entry
  <1>2. n <= Len(FileOrder) /\ Len(FileOrder) \in Nat /\ Readdir(n) \in Files \cup {"mtp"}
    BY <1>1, ReaddirFacts
  <1>3. Entry(n) \in X
    BY <1>2 DEF Entry, IsDirectory
  <1>4. /\ listed' \in Seq(X) /\ Len(listed') = n + 1
        /\ \A i \in 1 .. n : listed'[i] = listed[i]
        /\ listed'[n + 1] = Entry(n)
    BY <1>1, <1>3, AppendProperties
  <1>5. \A i \in 1 .. n : listed[i] = Entry(i - 1)
    BY DEF ListInv
  <1> HIDE DEF n
  <1>6. ASSUME NEW i \in 1 .. Len(listed') PROVE listed'[i] = Entry(i - 1)
    <2>1. CASE i = n + 1
      <3>1. i - 1 = n
        BY <1>1, <2>1
      <3> QED
        BY <1>4, <2>1, <3>1
    <2>2. CASE i \in 1 .. n
      BY <1>4, <1>5, <2>2
    <2> QED
      BY <1>1, <1>4, <2>1, <2>2
  <1> QED
    BY <1>1, <1>2, <1>4, <1>6 DEF ListInv, Entry, Readdir, IsDirectory

LEMMA StepList ==
    ListInv /\ [ShellNext]_<<vars, shellVars>> => ListInv'
  <1> SUFFICES ASSUME ListInv, [ShellNext]_<<vars, shellVars>> PROVE ListInv'
    OBVIOUS
  <1>1. ASSUME UNCHANGED listed, pc' = "ls" \/ pc # "ls" PROVE ListInv'
    BY <1>1 DEF ListInv, Entry, Readdir, IsDirectory
  <1>2. ASSUME listed' = <<>> PROVE ListInv'
    <2>1. Len(FileOrder) \in Nat
      BY FileAssumption
    <2> QED
      BY <1>2, <2>1 DEF ListInv
  <1>3. CASE LsEntry
    BY <1>3, LsEntryLists
  <1>4. CASE LsEnds
    <2>1. pc' = "program" /\ UNCHANGED listed /\ Readdir(Len(listed)) = "null"
      BY <1>4 DEF LsEnds, Step, kernel
    <2>2. Len(listed) > Len(FileOrder) /\ Len(listed) \in Nat /\ Len(FileOrder) \in Nat
      BY <2>1, ReaddirFacts DEF ListInv
    <2>3. Len(listed) = Len(FileOrder) + 1
      BY <2>2 DEF ListInv
    <2> QED
      BY <2>1, <2>3 DEF ListInv, Entry, Readdir, IsDirectory
  <1>5. CASE ProgramReturns \/ Ls
    BY <1>2, <1>5 DEF ProgramReturns, Ls
  <1>6. CASE \/ Boot \/ MakeName \/ ExecInitrd \/ FreeName \/ Execute \/ \E l \in Lines : GetString(l)
             \/ ExecShell \/ NewCmd \/ NewTbuf
    <2>1. UNCHANGED listed /\ pc # "ls"
      BY <1>6 DEF Boot, ReadBuffer, NewATA, ShellFname, LoadShell, UnloadShell, ShellBuf,
                  AllocCmd, AllocTbuf, Keep, MakeName, ExecInitrd, FreeName, Execute, GetString,
                  ExecShell, NewCmd, NewTbuf, kernel
    <2> QED
      BY <1>1, <2>1
  <1>7. ASSUME \/ \E size \in Sizes : ProgramMalloc(size)
               \/ \E f \in Files \cup {"mtp", "none"} : Cat(f) \/ Read(f)
               \/ ProgramFree \/ CatReads \/ CatFails \/ CatAgain \/ CatEnds
               \/ ReadReads \/ Copy \/ ReadEnds
        PROVE  ListInv'
    <2>1. UNCHANGED listed /\ pc # "ls"
      <3>1. ASSUME NEW f, Cat(f) \/ Read(f) PROVE UNCHANGED listed /\ pc # "ls"
        BY <3>1 DEF Cat, Read, Open, Asks, Step, At
      <3>2. ASSUME NEW size, ProgramMalloc(size) PROVE UNCHANGED listed /\ pc # "ls"
        BY <3>2 DEF ProgramMalloc, Asks, Step, At, kernel
      <3> QED
        BY <1>7, <3>1, <3>2 DEF ProgramFree, CatReads, CatFails, CatAgain, CatEnds, ReadReads,
           Copy, ReadEnds, Reads, Ends, Step, At, kernel
    <2> QED
      BY <1>1, <2>1
  <1>8. CASE UNCHANGED <<vars, shellVars>>
    BY <1>8, <1>1 DEF shellVars, kernel
  <1> QED
    BY <1>3, <1>4, <1>5, <1>6, <1>7, <1>8 DEF ShellNext, Program

-----------------------------------------------------------------------------
(* What holds of every shell.                                              *)

LEMMA ShellInitInv == ShellInit => ShellInv
  <1> SUFFICES ASSUME ShellInit PROVE ShellInv
    OBVIOUS
  <1>1. StoreInv
    BY DEF ShellInit, StoreInv, StoresOwned
  <1>2. ListInv
    <2>1. Len(FileOrder) \in Nat /\ listed = <<>>
      BY FileAssumption DEF ShellInit
    <2> QED
      BY <2>1 DEF ListInv
  <1> QED
    BY <1>1, <1>2, InitText, InitOwn DEF ShellInv

LEMMA ShellStepInv == ShellInv /\ [ShellNext]_<<vars, shellVars>> => ShellInv'
  BY StepText, StepOwn, StepStore, StepList DEF ShellInv

\* The inductive invariant.
THEOREM ShellInvariance == ShellSpec => []ShellInv
  BY ShellInitInv, ShellStepInv, PTL DEF ShellSpec

\* The shell's variables always have their types; in particular both buffers always end
\* with a terminator, so that no string function runs off them (strings.h:7-165).
THEOREM ShellTypeCorrect == ShellSpec => []ShellTypeOK
  <1>1. ShellInv => ShellTypeOK
    <2> SUFFICES ASSUME ShellInv PROVE ShellTypeOK
      OBVIOUS
    <2>1. ToSet(held) \subseteq Nat
      BY DEF ShellInv, OwnInv, Ownership, ToSet
    <2>2. Chars \cup {SPACE, NUL} = Bytes
      BY DEF Bytes
    <2> QED
      BY <2>1, <2>2 DEF ShellInv, TextInv, OwnInv, Ownership, ShellTypeOK, PCs, Terminated
  <1> QED
    BY <1>1, ShellInvariance, PTL

\* Every line is split at its first space, whatever lines were typed before and however
\* long the buffers are (owshell.c:42-48, strings.h:134-165).
THEOREM SplitAlwaysExact == ShellSpec => []SplitExact
  <1>1. ShellInv => SplitExact
    BY DEF ShellInv, TextInv
  <1> QED
    BY <1>1, ShellInvariance, PTL

\* No store of the kernel or the shell goes to a chunk that was freed, or behind its end,
\* for any files and any use a program makes of the calls.
THEOREM StoresAlwaysOwned == ShellSpec => []StoresOwned
  <1>1. ShellInv => StoresOwned
    BY DEF ShellInv, StoreInv
  <1> QED
    BY <1>1, ShellInvariance, PTL

\* The heap survives every second free of cat_initrd, and nothing a command takes is
\* still taken at the next prompt, but for the shell itself: each one that is started from
\* a shell has taken three chunks for good, the name's and its own two, and no command
\* takes a fourth.
THEOREM HeapAlwaysKept == ShellSpec => []HeapKept
  <1>1. ShellInv => HeapKept
    <2> SUFFICES ASSUME ShellInv PROVE HeapKept
      OBVIOUS
    <2>1. Tiling /\ OwnedChunks /\ PayloadsClear
      BY PayloadsClearLemma DEF ShellInv, HeapInv
    <2>2. ASSUME pc = "prompt" PROVE Cardinality(DOMAIN live) = 6 + 3 * shells
      <3>1. bin_name = 0 /\ buf = 0 /\ held = <<>> /\ 0 \notin DOMAIN live
        BY <2>2, NotLiveZero DEF ShellInv, OwnInv, Ownership, Named, Running, Reading
      <3>2. Permanent = DOMAIN live
        BY <3>1, SMTT(30) DEF Permanent, ToSet
      <3>3. PermanentCount = 6 + 3 * shells
        BY <2>2 DEF PermanentCount, Stage
      <3> QED
        BY <2>2, <3>2, <3>3 DEF ShellInv, OwnInv, Counted
    <2> QED
      BY <2>1, <2>2 DEF HeapKept
  <1> QED
    BY <1>1, ShellInvariance, PTL

\* Every listing is complete, in order and without an entry the lookup does not find.
THEOREM AlwaysListsAll == ShellSpec => []ListsAll
  <1>1. ShellInv => ListsAll
    <2> SUFFICES ASSUME ShellInv, pc = "program", listed # <<>>
                 PROVE  /\ [i \in DOMAIN listed |-> listed[i].name] = <<"mtp">> \o FileOrder
                        /\ \A i \in DOMAIN listed :
                             Finds(listed[i].name) /\ (listed[i].directory <=> i = 1)
      BY DEF ListsAll
    <2> DEFINE n == Len(FileOrder)
               all == <<"mtp">> \o FileOrder
               names == [i \in DOMAIN listed |-> listed[i].name]
    <2>1. n \in Nat /\ FileOrder \in Seq(Files) /\ "mtp" \notin Files
      BY FileAssumption
    <2>2. /\ Len(listed) = n + 1 /\ DOMAIN listed = 1 .. n + 1
          /\ \A i \in 1 .. n + 1 : listed[i] = Entry(i - 1)
      BY DEF ShellInv, ListInv
    <2>3. /\ Len(all) = n + 1 /\ all[1] = "mtp" /\ DOMAIN all = 1 .. n + 1
          /\ \A i \in 2 .. n + 1 : all[i] = FileOrder[i - 1]
          /\ all \in Seq(Files \cup {"mtp"})
      <3>1. FileOrder \in Seq(Files \cup {"mtp"})
        BY <2>1
      <3> QED
        BY <2>1, <3>1
    <2> HIDE DEF n, all
    <2>4. ASSUME NEW i \in 1 .. n + 1
          PROVE  /\ listed[i].name = all[i] /\ Finds(listed[i].name)
                 /\ listed[i].directory <=> i = 1
      <3>1. /\ listed[i].name = Readdir(i - 1)
            /\ listed[i].directory = IsDirectory(Readdir(i - 1))
        BY <2>2 DEF Entry
      <3>2. CASE i = 1
        <4>1. Readdir(i - 1) = "mtp"
          BY <3>2 DEF Readdir
        <4> QED
          BY <2>3, <3>1, <3>2, <4>1 DEF IsDirectory, Finds
      <3>3. CASE i # 1
        <4>1. i - 1 \in Nat /\ 0 < i - 1 /\ i - 1 <= n /\ i \in 2 .. n + 1
          BY <2>1, <3>3
        <4>2. Readdir(i - 1) = FileOrder[i - 1] /\ Readdir(i - 1) \in Files
          BY <4>1, ReaddirFacts DEF n
        <4> QED
          BY <2>1, <2>3, <3>1, <3>3, <4>1, <4>2 DEF IsDirectory, IsFile, Finds
      <3> QED
        BY <3>2, <3>3
    <2>5. names = all
      <3>1. all = [i \in 1 .. n + 1 |-> all[i]]
        BY <2>3
      <3> QED
        BY <2>2, <2>4, <3>1
    <2> QED
      BY <2>2, <2>4, <2>5 DEF all
  <1> QED
    BY <1>1, ShellInvariance, PTL

-----------------------------------------------------------------------------
(* Room for the read buffer.  There is always a stretch of the block, the   *)
(* reserve, that would be free if the command gave back what it holds: its  *)
(* chunks are taken from the bottom up, the older ones first, and only what *)
(* is behind them is free.  Since the youngest is freed first, each free    *)
(* merges with what is free behind it and none leaves a gap.  While the     *)
(* kernel has a read buffer the stretch may be cut, but the buffer's own    *)
(* chunk is the next reserve.                                               *)

\* This is about the first shell, the one that the kernel starts: as long as no other is
\* started from it, its steps are these.
FirstNext == \/ Boot
             \/ \E l \in Lines : GetString(l)
             \/ Execute \/ MakeName \/ ExecInitrd \/ FreeName
             \/ Program

LEMMA FirstSteps ==
    ASSUME OwnInv, [ShellNext]_<<vars, shellVars>>, shells' = 0
    PROVE  shells = 0 /\ [FirstNext]_<<vars, shellVars>>
  <1>0. shells \in Nat /\ (pc \in {"newcmd", "newtbuf"} => shells # 0)
    BY DEF OwnInv, Ownership
  <1>1. ~ExecShell
    BY <1>0 DEF ExecShell
  <1>2. ~NewCmd /\ ~NewTbuf
    BY <1>0 DEF NewCmd, NewTbuf, chunks
  <1>3. [FirstNext]_<<vars, shellVars>>
    BY <1>1, <1>2 DEF ShellNext, FirstNext
  <1>4. shells = 0
    <2>1. CASE \/ Boot \/ \E l \in Lines : GetString(l)
               \/ Execute \/ MakeName \/ ExecInitrd \/ FreeName
      BY <2>1 DEF Boot, ReadBuffer, NewATA, ShellFname, LoadShell, UnloadShell, ShellBuf,
                  AllocCmd, AllocTbuf, Keep, GetString, Execute, MakeName, ExecInitrd, FreeName,
                  chunks
    <2>2. CASE Program
      BY <2>2, ProgramAt DEF At
    <2>3. CASE UNCHANGED <<vars, shellVars>>
      BY <2>3 DEF shellVars, chunks
    <2> QED
      BY <1>3, <2>1, <2>2, <2>3 DEF FirstNext
  <1> QED
    BY <1>3, <1>4

\* What a command gives back before the next prompt.
Transient == (ToSet(held) \cup {bin_name}) \ {0}

\* p was allocated before q, of the name's buffer n and the program's chunks s.
Older(n, s, p, q) == \/ p = n /\ q \in ToSet(s)
                     \/ \E i, j \in DOMAIN s : j < i /\ s[i] = p /\ s[j] = q

Reserve(a, b) ==
    /\ a \in DOMAIN hdrs /\ b \in DOMAIN hdrs \cup {BlockSize}
    /\ a + HDR + BufferSize <= b
    /\ \A h \in DOMAIN hdrs : a <= h /\ h < b =>
         /\ Behind(hdrs, h) <= b
         /\ hdrs[h].taken => h + HDR \in Transient
         /\ Behind(hdrs, h) < b =>
               /\ hdrs[h].taken
               /\ hdrs[Behind(hdrs, h)].taken => Older(bin_name, held, h + HDR, Behind(hdrs, h) + HDR)

Reserved == \E a, b : Reserve(a, b)

LEMMA Chunks ==
    ASSUME HeapInv
    PROVE  /\ BlockSize \in Nat /\ BufferSize \in Nat /\ HDR = 8
           /\ \A g \in DOMAIN hdrs :
                /\ g \in Nat /\ hdrs[g].size \in Nat /\ hdrs[g].taken \in BOOLEAN
                /\ Behind(hdrs, g) = g + 8 + hdrs[g].size
                /\ Behind(hdrs, g) \in DOMAIN hdrs \cup {BlockSize}
                /\ First <= g /\ g < BlockSize /\ Behind(hdrs, g) <= BlockSize
                /\ \A h \in DOMAIN hdrs : h < g => Behind(hdrs, h) <= g
  <1>1. BlockSize \in Nat /\ BufferSize \in Nat /\ HDR = 8
    BY BlockAssumption, DiskAssumption DEF HDR
  <1>2. \A g \in DOMAIN hdrs : g \in Nat /\ hdrs[g].size \in Nat /\ hdrs[g].taken \in BOOLEAN
    BY HeaderFields DEF HeapInv
  <1>3. \A g \in DOMAIN hdrs : Behind(hdrs, g) = g + 8 + hdrs[g].size
    BY DEF Behind, HDR
  <1>4. \A g \in DOMAIN hdrs : /\ Behind(hdrs, g) \in DOMAIN hdrs \cup {BlockSize}
                              /\ First <= g /\ g < BlockSize
                              /\ \A h \in DOMAIN hdrs : h < g => Behind(hdrs, h) <= g
    BY DEF HeapInv, Tiling
  <1>5. \A g \in DOMAIN hdrs : Behind(hdrs, g) <= BlockSize
    BY <1>1, <1>2, <1>4
  <1> QED
    BY <1>1, <1>2, <1>3, <1>4, <1>5

\* What malloc does to the headers.
Takes(h, size) ==
    /\ h \in DOMAIN hdrs /\ ~hdrs[h].taken /\ hdrs[h].size >= size
    /\ \A g \in FreeFits(size) : h <= g
    /\ h \in DOMAIN hdrs' /\ hdrs'[h].taken
    /\ \A g \in DOMAIN hdrs \ {h} : /\ g \in DOMAIN hdrs' /\ hdrs'[g] = hdrs[g]
                                    /\ Behind(hdrs', g) = Behind(hdrs, g)
    /\ \/ /\ hdrs[h].size <= size + 24
          /\ DOMAIN hdrs' = DOMAIN hdrs /\ Behind(hdrs', h) = Behind(hdrs, h)
       \/ /\ hdrs[h].size > size + 24
          /\ DOMAIN hdrs' = DOMAIN hdrs \cup {h + 8 + size} /\ h + 8 + size \notin DOMAIN hdrs
          /\ Behind(hdrs', h) = h + 8 + size
          /\ ~hdrs'[h + 8 + size].taken
          /\ Behind(hdrs', h + 8 + size) = Behind(hdrs, h)

LEMMA MallocTakes ==
    ASSUME HeapInv, NEW size \in Nat, Malloc(size)
    PROVE  \E h : Takes(h, size) /\ Got = h + HDR
  <1>1. PICK h \in DOMAIN hdrs :
          /\ FirstFit(h, size)
          /\ IF WorthSplitting(h, size) THEN Split(h, size) ELSE TakeWhole(h, size)
          /\ live' = Put(live, h + HDR, size)
    BY DEF Malloc
  <1>2. h \in FreeFits(size) /\ \A g \in FreeFits(size) : h <= g
    BY <1>1 DEF FirstFit
  <1>3. ~hdrs[h].taken /\ hdrs[h].size >= size /\ h + HDR \notin DOMAIN live
    BY <1>2, FitIsUnowned
  <1>4. Got = h + HDR
    <2>1. DOMAIN live' = DOMAIN live \cup {h + HDR}
      BY <1>1 DEF Put
    <2>2. \A q \in DOMAIN live' : q \notin DOMAIN live <=> q = h + HDR
      BY <1>3, <2>1
    <2> QED
      BY <1>3, <2>1, <2>2 DEF Got
  <1>5. h \in Nat /\ hdrs[h].size \in Nat
    BY Chunks
  <1>6. CASE WorthSplitting(h, size)
    <2> DEFINE rest == h + 8 + size
    <2>1. Split(h, size) /\ hdrs[h].size > size + 24 /\ h + HDR + size = rest
      BY <1>1, <1>5, <1>6 DEF WorthSplitting, HDR, SPARE
    <2>2. /\ DOMAIN hdrs' = DOMAIN hdrs \cup {rest} /\ rest \notin DOMAIN hdrs
          /\ hdrs'[h].taken /\ hdrs'[h].size = size /\ ~hdrs'[rest].taken
          /\ \A g \in DOMAIN hdrs \ {h} : hdrs'[g] = hdrs[g]
      BY <1>6, <2>1, SplitTiles DEF HeapInv
    <2>3. hdrs'[rest].size = hdrs[h].size - (size + 8)
      BY <2>1 DEF Split, Put, Hdr, HDR
    <2>4. Behind(hdrs', h) = rest /\ Behind(hdrs', rest) = h + 8 + hdrs[h].size
      BY <1>5, <2>2, <2>3 DEF Behind, HDR
    <2>5. Behind(hdrs, h) = h + 8 + hdrs[h].size
      BY DEF Behind, HDR
    <2>6. \A g \in DOMAIN hdrs \ {h} : Behind(hdrs', g) = Behind(hdrs, g)
      BY <2>2 DEF Behind
    <2> HIDE DEF rest
    <2>7. Takes(h, size)
      BY <1>2, <1>3, <2>1, <2>2, <2>4, <2>5, <2>6 DEF Takes, rest
    <2> QED
      BY <1>4, <2>7
  <1>7. CASE ~WorthSplitting(h, size)
    <2>1. TakeWhole(h, size) /\ hdrs[h].size <= size + 24
      BY <1>1, <1>5, <1>7 DEF WorthSplitting, HDR, SPARE
    <2>2. /\ DOMAIN hdrs' = DOMAIN hdrs
          /\ hdrs'[h].taken /\ hdrs'[h].size = hdrs[h].size
          /\ \A g \in DOMAIN hdrs \ {h} : hdrs'[g] = hdrs[g]
      BY <2>1, TakeTiles DEF HeapInv
    <2>3. \A g \in DOMAIN hdrs : Behind(hdrs', g) = Behind(hdrs, g)
      BY <2>2 DEF Behind
    <2>4. Takes(h, size)
      BY <1>2, <1>3, <2>1, <2>2, <2>3 DEF Takes
    <2> QED
      BY <1>4, <2>4
  <1> QED
    BY <1>6, <1>7

\* A chunk that is allocated is the youngest, at the end of the reserve or outside of it.
LEMMA ReserveMalloc ==
    ASSUME HeapInv, NEW size \in Nat, Malloc(size), NEW a, NEW b, Reserve(a, b),
           NEW new, new = Got, Transient \cup {new} \subseteq Transient',
           \A p, q : Older(bin_name, held, p, q) => Older(bin_name', held', p, q),
           \A p \in Transient : Older(bin_name', held', p, new)
    PROVE  Reserve(a, b)'
  <1>1. PICK h : Takes(h, size) /\ new = h + HDR
    BY MallocTakes
  <1> DEFINE rest == h + 8 + size
  <1>2. /\ h \in DOMAIN hdrs /\ ~hdrs[h].taken /\ hdrs[h].size >= size
        /\ h \in DOMAIN hdrs' /\ hdrs'[h].taken
        /\ \A g \in DOMAIN hdrs \ {h} : /\ g \in DOMAIN hdrs' /\ hdrs'[g] = hdrs[g]
                                        /\ Behind(hdrs', g) = Behind(hdrs, g)
    BY <1>1 DEF Takes
  <1>3. \/ DOMAIN hdrs' = DOMAIN hdrs /\ Behind(hdrs', h) = Behind(hdrs, h)
        \/ /\ hdrs[h].size > size + 24
           /\ DOMAIN hdrs' = DOMAIN hdrs \cup {rest} /\ rest \notin DOMAIN hdrs
           /\ Behind(hdrs', h) = rest /\ ~hdrs'[rest].taken
           /\ Behind(hdrs', rest) = Behind(hdrs, h)
    BY <1>1 DEF Takes
  <1>4. /\ a \in DOMAIN hdrs /\ b \in DOMAIN hdrs \cup {BlockSize} /\ a + HDR + BufferSize <= b
        /\ \A g \in DOMAIN hdrs : a <= g /\ g < b =>
             /\ Behind(hdrs, g) <= b
             /\ hdrs[g].taken => g + HDR \in Transient
             /\ Behind(hdrs, g) < b =>
                   /\ hdrs[g].taken
                   /\ hdrs[Behind(hdrs, g)].taken => Older(bin_name, held, g + HDR, Behind(hdrs, g) + HDR)
    BY DEF Reserve
  <1>5. /\ BlockSize \in Nat /\ HDR = 8
        /\ \A g \in DOMAIN hdrs :
                /\ g \in Nat /\ hdrs[g].size \in Nat
                /\ Behind(hdrs, g) = g + 8 + hdrs[g].size
                /\ Behind(hdrs, g) \in DOMAIN hdrs \cup {BlockSize}
                /\ g < BlockSize /\ \A f \in DOMAIN hdrs : f < g => Behind(hdrs, f) <= g
    BY Chunks
  <1>6. a \in Nat /\ b \in Nat /\ b <= BlockSize
    BY <1>4, <1>5
  <1>7. a <= h /\ h < b => Behind(hdrs, h) = b
    BY <1>2, <1>4, <1>5, <1>6
  <1> HIDE DEF rest
  <1>8. DOMAIN hdrs' = DOMAIN hdrs \/ DOMAIN hdrs' = DOMAIN hdrs \cup {rest}
    BY <1>3
  <1>9. a \in DOMAIN hdrs' /\ b \in DOMAIN hdrs' \cup {BlockSize}
    BY <1>4, <1>8
  <1>10. ASSUME NEW g \in DOMAIN hdrs', a <= g, g < b
         PROVE  /\ Behind(hdrs', g) <= b
                /\ hdrs'[g].taken => g + HDR \in Transient'
                /\ Behind(hdrs', g) < b =>
                     /\ hdrs'[g].taken
                     /\ hdrs'[Behind(hdrs', g)].taken => Older(bin_name', held', g + HDR, Behind(hdrs', g) + HDR)
    <2>1. CASE g = h
      <3>1. Behind(hdrs, h) = b /\ b \in Nat
        BY <1>6, <1>7, <1>10, <2>1
      <3>2. h + HDR \in Transient' /\ hdrs'[h].taken
        BY <1>1, <1>2
      <3>3. CASE Behind(hdrs', h) = Behind(hdrs, h)
        BY <2>1, <3>1, <3>2, <3>3
      <3>4. CASE hdrs[h].size > size + 24 /\ Behind(hdrs', h) = rest /\ ~hdrs'[rest].taken
        <4>1. rest <= b
          BY <1>2, <1>5, <3>1, <3>4 DEF rest
        <4> QED
          BY <2>1, <3>2, <3>4, <4>1
      <3> QED
        BY <1>3, <3>3, <3>4
    <2>2. CASE g \notin DOMAIN hdrs
      <3>1. /\ g = rest /\ hdrs[h].size > size + 24 /\ ~hdrs'[rest].taken
            /\ Behind(hdrs', rest) = Behind(hdrs, h)
        BY <1>3, <2>2
      <3>2. h < g /\ g < Behind(hdrs, h)
        BY <1>2, <1>5, <3>1 DEF rest
      <3>3. a <= h /\ h < b
        BY <1>2, <1>4, <1>5, <1>6, <1>10, <3>1, <3>2 DEF rest
      <3> QED
        BY <1>6, <1>7, <3>1, <3>3
    <2>3. CASE g \in DOMAIN hdrs \ {h}
      <3> DEFINE n == Behind(hdrs, g)
      <3>1. hdrs'[g] = hdrs[g] /\ Behind(hdrs', g) = n
        BY <1>2, <2>3
      <3>2. n <= b /\ (hdrs[g].taken => g + HDR \in Transient)
        BY <1>4, <1>10, <2>3
      <3>3. ASSUME n < b, hdrs'[n].taken
            PROVE  Older(bin_name', held', g + HDR, n + HDR)
        <4>1. hdrs[g].taken /\ (hdrs[n].taken => Older(bin_name, held, g + HDR, n + HDR))
          BY <1>4, <1>10, <2>3, <3>3
        <4>2. n \in DOMAIN hdrs
          BY <1>5, <1>6, <2>3, <3>3
        <4> HIDE DEF n
        <4>3. CASE n = h
          BY <1>1, <3>2, <4>1, <4>3
        <4>4. CASE n # h
          <5>1. hdrs'[n] = hdrs[n]
            BY <1>2, <4>2, <4>4
          <5> QED
            BY <3>3, <4>1, <5>1
        <4> QED
          BY <4>3, <4>4
      <3>4. n < b => hdrs[g].taken
        BY <1>4, <1>10, <2>3
      <3> HIDE DEF n
      <3> QED
        BY <3>1, <3>2, <3>3, <3>4
    <2> QED
      BY <2>1, <2>2, <2>3
  <1> QED
    BY <1>4, <1>9, <1>10 DEF Reserve

\* What free does to the headers.
LEMMA ReleaseShape ==
    ASSUME HeapInv, NEW h \in DOMAIN hdrs, hdrs' = FreedHeaders(h)
    PROVE  LET n == Behind(hdrs, h)
           IN  /\ h \in DOMAIN hdrs' /\ ~hdrs'[h].taken
               /\ \A g \in DOMAIN hdrs : g \in DOMAIN hdrs' \/ (MergesForward(h) /\ g = n)
               /\ \A g \in DOMAIN hdrs' : g \in DOMAIN hdrs
               /\ \A g \in DOMAIN hdrs' \ {h} : /\ hdrs'[g].taken = hdrs[g].taken
                                                /\ Behind(hdrs', g) = Behind(hdrs, g)
               /\ \/ MergesForward(h) /\ n \in DOMAIN hdrs /\ ~hdrs[n].taken
                     /\ Behind(hdrs', h) = Behind(hdrs, n)
                  \/ /\ ~MergesForward(h) /\ (n \in DOMAIN hdrs => hdrs[n].taken)
                     /\ Behind(hdrs', h) = n
               /\ Behind(hdrs', h) \in DOMAIN hdrs' \cup {BlockSize}
               /\ \A g \in DOMAIN hdrs' : h < g => Behind(hdrs', h) <= g
               /\ hdrs'[h].size >= hdrs[h].size
  <1> DEFINE n == Behind(hdrs, h)
  <1>1. /\ DOMAIN hdrs' = DOMAIN hdrs \ (IF MergesForward(h) THEN {n} ELSE {})
        /\ h \in DOMAIN hdrs'
        /\ ~hdrs'[h].taken /\ hdrs'[h].size = FreedSize(h)
        /\ \A g \in DOMAIN hdrs' \ {h} : /\ hdrs'[g].taken = hdrs[g].taken
                                         /\ hdrs'[g].size = hdrs[g].size
        /\ Tiling'
    BY ReleaseTiles DEF HeapInv
  <1>2. \A g \in DOMAIN hdrs : g \in Nat /\ hdrs[g].size \in Nat /\ Behind(hdrs, g) = g + 8 + hdrs[g].size
    BY Chunks
  <1>3. \A g \in DOMAIN hdrs' \ {h} : Behind(hdrs', g) = Behind(hdrs, g)
    BY <1>1 DEF Behind
  <1>4. /\ Behind(hdrs', h) \in DOMAIN hdrs' \cup {BlockSize}
        /\ \A g \in DOMAIN hdrs' : h < g => Behind(hdrs', h) <= g
    BY <1>1 DEF Tiling
  <1>5. CASE MergesForward(h)
    <2>1. n \in DOMAIN hdrs /\ ~hdrs[n].taken
      BY <1>5 DEF MergesForward
    <2>2. FreedSize(h) = hdrs[h].size + 8 + hdrs[n].size
      BY <1>5 DEF FreedSize, HDR
    <2>3. Behind(hdrs', h) = h + 8 + FreedSize(h)
      BY <1>1 DEF Behind, HDR
    <2>4. n = h + 8 + hdrs[h].size
      BY <1>2
    <2> HIDE DEF n
    <2>5. Behind(hdrs', h) = Behind(hdrs, n) /\ hdrs'[h].size >= hdrs[h].size
      BY <1>1, <1>2, <2>1, <2>2, <2>3, <2>4
    <2> QED
      BY <1>1, <1>3, <1>4, <1>5, <2>1, <2>5 DEF n
  <1>6. CASE ~MergesForward(h)
    <2>1. n \in DOMAIN hdrs => hdrs[n].taken
      BY <1>6 DEF MergesForward
    <2>2. Behind(hdrs', h) = n /\ hdrs'[h].size = hdrs[h].size
      BY <1>1, <1>6 DEF Behind, FreedSize
    <2> QED
      BY <1>1, <1>2, <1>3, <1>4, <1>6, <2>1, <2>2
  <1> QED
    BY <1>5, <1>6

\* When the youngest chunk is freed there is still a reserve, grown if the chunk was next
\* to it.
LEMMA ReserveFree ==
    ASSUME HeapInv, NEW p \in DOMAIN live, Free(p), NEW a, NEW b, Reserve(a, b),
           \A q : ~Older(bin_name, held, p, q),
           Transient \ {p} \subseteq Transient',
           \A x, y : Older(bin_name, held, x, y) /\ x # p /\ y # p => Older(bin_name', held', x, y)
    PROVE  Reserved'
  <1> DEFINE h == p - HDR
             n == Behind(hdrs, h)
             m == Behind(hdrs', h)
  <1>1. h \in DOMAIN hdrs /\ p = h + HDR /\ hdrs' = FreedHeaders(h)
    BY DEF HeapInv, OwnedChunks, HeapTypes, HDR, Free, Release
  <1>2. /\ h \in DOMAIN hdrs' /\ ~hdrs'[h].taken
        /\ \A g \in DOMAIN hdrs : g \in DOMAIN hdrs' \/ (MergesForward(h) /\ g = n)
        /\ \A g \in DOMAIN hdrs' : g \in DOMAIN hdrs
        /\ \A g \in DOMAIN hdrs' \ {h} : /\ hdrs'[g].taken = hdrs[g].taken
                                         /\ Behind(hdrs', g) = Behind(hdrs, g)
        /\ \/ MergesForward(h) /\ n \in DOMAIN hdrs /\ ~hdrs[n].taken /\ m = Behind(hdrs, n)
           \/ ~MergesForward(h) /\ (n \in DOMAIN hdrs => hdrs[n].taken) /\ m = n
        /\ m \in DOMAIN hdrs' \cup {BlockSize}
        /\ \A g \in DOMAIN hdrs' : h < g => m <= g
    BY <1>1, ReleaseShape
  <1>3. /\ a \in DOMAIN hdrs /\ b \in DOMAIN hdrs \cup {BlockSize} /\ a + HDR + BufferSize <= b
        /\ \A g \in DOMAIN hdrs : a <= g /\ g < b =>
             /\ Behind(hdrs, g) <= b
             /\ hdrs[g].taken => g + HDR \in Transient
             /\ Behind(hdrs, g) < b =>
                   /\ hdrs[g].taken
                   /\ hdrs[Behind(hdrs, g)].taken => Older(bin_name, held, g + HDR, Behind(hdrs, g) + HDR)
    BY DEF Reserve
  <1>4. /\ BlockSize \in Nat /\ HDR = 8 /\ BufferSize \in Nat
        /\ \A g \in DOMAIN hdrs :
                /\ g \in Nat /\ hdrs[g].size \in Nat
                /\ Behind(hdrs, g) = g + 8 + hdrs[g].size
                /\ Behind(hdrs, g) \in DOMAIN hdrs \cup {BlockSize}
                /\ g < BlockSize /\ \A f \in DOMAIN hdrs : f < g => Behind(hdrs, f) <= g
    BY Chunks
  <1>5. a \in Nat /\ b \in Nat /\ b <= BlockSize
    BY <1>3, <1>4
  <1>6. \A g \in DOMAIN hdrs \ {h} : g + HDR # p
    BY <1>1, <1>4
  <1>7. h \in Nat /\ n = h + 8 + hdrs[h].size /\ hdrs[h].size \in Nat /\ m \in Nat
    BY <1>1, <1>2, <1>4
  <1> HIDE DEF h, n, m
  \* A chunk that stays, with the one behind it.
  <1>8. ASSUME NEW g \in DOMAIN hdrs', g # h, a <= g, g < b, Behind(hdrs, g) <= b,
               NEW e, Behind(hdrs, g) < e => Behind(hdrs, g) < b,
               Behind(hdrs, g) < b => Behind(hdrs, g) \in DOMAIN hdrs'
        PROVE  /\ hdrs'[g].taken => g + HDR \in Transient'
               /\ Behind(hdrs', g) < e =>
                     /\ hdrs'[g].taken
                     /\ hdrs'[Behind(hdrs', g)].taken =>
                           Older(bin_name', held', g + HDR, Behind(hdrs', g) + HDR)
    <2> DEFINE k == Behind(hdrs, g)
    <2>1. g \in DOMAIN hdrs /\ hdrs'[g].taken = hdrs[g].taken /\ Behind(hdrs', g) = k
      BY <1>2, <1>8
    <2>2. /\ hdrs[g].taken => g + HDR \in Transient
          /\ k < b => hdrs[g].taken /\ (hdrs[k].taken => Older(bin_name, held, g + HDR, k + HDR))
      BY <1>3, <1>8, <2>1
    <2>3. hdrs'[g].taken => g + HDR \in Transient'
      BY <1>6, <1>8, <2>1, <2>2
    <2>4. k < b => k \in DOMAIN hdrs'
      BY <1>8
    <2> HIDE DEF k
    <2>5. ASSUME k < b, hdrs'[k].taken PROVE Older(bin_name', held', g + HDR, k + HDR)
      <3>1. k \in DOMAIN hdrs' /\ k # h
        BY <1>2, <2>4, <2>5
      <3>2. hdrs[k].taken /\ k \in DOMAIN hdrs
        BY <1>2, <2>5, <3>1
      <3>3. g + HDR # p /\ k + HDR # p
        BY <1>6, <1>8, <2>1, <3>1, <3>2
      <3> QED
        BY <2>2, <2>5, <3>2, <3>3
    <2>6. k < e => k < b
      BY <1>8 DEF k
    <2> QED
      BY <2>1, <2>2, <2>3, <2>5, <2>6
  <1>9. CASE a <= h /\ h < b
    <2>1. n <= b
      BY <1>1, <1>3, <1>9 DEF n
    <2>2. b <= m /\ (n = b \/ m = b)
      <3>1. CASE n < b
        <4>1. n \in DOMAIN hdrs
          BY <1>1, <1>4, <1>5, <3>1 DEF n
        <4>2. ~hdrs[n].taken
          BY <1>1, <1>3, <1>9, <3>1 DEF n
        <4>3. m = Behind(hdrs, n)
          BY <1>2, <4>1, <4>2
        <4>4. a <= n
          BY <1>5, <1>7, <1>9
        <4>5. Behind(hdrs, n) = b
          BY <1>3, <1>4, <1>5, <3>1, <4>1, <4>2, <4>4
        <4> QED
          BY <1>5, <4>3, <4>5
      <3>2. CASE n = b
        <4>1. CASE m = n
          BY <1>5, <3>2, <4>1
        <4>2. CASE n \in DOMAIN hdrs /\ m = Behind(hdrs, n)
          BY <1>4, <1>5, <3>2, <4>2
        <4> QED
          BY <1>2, <3>2, <4>1, <4>2
      <3> QED
        BY <1>5, <1>7, <2>1, <3>1, <3>2
    <2>3. a \in DOMAIN hdrs'
      BY <1>2, <1>3, <1>5, <1>7, <1>9
    <2>4. a + HDR + BufferSize <= m
      BY <1>3, <1>4, <1>5, <1>7, <2>2
    <2>5. ASSUME NEW g \in DOMAIN hdrs', a <= g, g < m
          PROVE  /\ Behind(hdrs', g) <= m
                 /\ hdrs'[g].taken => g + HDR \in Transient'
                 /\ Behind(hdrs', g) < m =>
                      /\ hdrs'[g].taken
                      /\ hdrs'[Behind(hdrs', g)].taken =>
                            Older(bin_name', held', g + HDR, Behind(hdrs', g) + HDR)
      <3>1. g \in DOMAIN hdrs /\ g \in Nat /\ g <= h
        BY <1>2, <1>4, <1>7, <2>5
      <3>2. CASE g = h
        <4>1. Behind(hdrs', g) = m
          BY <3>2 DEF m
        <4> QED
          BY <1>2, <1>7, <3>2, <4>1
      <3>3. CASE g # h
        <4>1. Behind(hdrs, g) <= h /\ Behind(hdrs, g) \in Nat
          BY <1>1, <1>4, <1>7, <3>1, <3>3
        <4>2. Behind(hdrs, g) \in DOMAIN hdrs /\ Behind(hdrs, g) # n
          BY <1>1, <1>4, <1>7, <3>1, <4>1
        <4>3. Behind(hdrs, g) \in DOMAIN hdrs'
          BY <1>2, <4>2
        <4>4. Behind(hdrs, g) < b /\ g < b
          BY <1>5, <1>7, <1>9, <3>1, <4>1
        <4>5. Behind(hdrs', g) = Behind(hdrs, g)
          BY <1>2, <3>3
        <4> QED
          BY <1>5, <1>7, <1>8, <2>2, <2>5, <3>3, <4>1, <4>3, <4>4, <4>5
      <3> QED
        BY <3>2, <3>3
    <2>6. PICK e : e = m
      OBVIOUS
    <2>7. Reserve(a, e)'
      BY <1>2, <2>3, <2>4, <2>5, <2>6 DEF Reserve
    <2> QED
      BY <2>7 DEF Reserved
  <1>10. CASE ~(a <= h /\ h < b) /\ ~(MergesForward(h) /\ n = a)
    <2>1. \A x \in Nat : a <= x /\ x <= b => ~(MergesForward(h) /\ x = n)
      <3>1. CASE h < a
        <4>1. n <= a
          BY <1>1, <1>3, <1>4, <3>1 DEF n
        <4> QED
          BY <1>5, <1>7, <1>10, <4>1
      <3>2. CASE b <= h
        BY <1>5, <1>7, <3>2
      <3> QED
        BY <1>5, <1>7, <1>10, <3>1, <3>2
    <2>2. a \in DOMAIN hdrs' /\ b \in DOMAIN hdrs' \cup {BlockSize}
      BY <1>2, <1>3, <1>4, <1>5, <2>1
    <2>3. ASSUME NEW g \in DOMAIN hdrs', a <= g, g < b
          PROVE  /\ Behind(hdrs', g) <= b
                 /\ hdrs'[g].taken => g + HDR \in Transient'
                 /\ Behind(hdrs', g) < b =>
                      /\ hdrs'[g].taken
                      /\ hdrs'[Behind(hdrs', g)].taken =>
                            Older(bin_name', held', g + HDR, Behind(hdrs', g) + HDR)
      <3>1. g \in DOMAIN hdrs /\ g \in Nat /\ g # h
        BY <1>2, <1>4, <1>10, <2>3
      <3>2. Behind(hdrs, g) <= b /\ Behind(hdrs', g) = Behind(hdrs, g)
        BY <1>2, <1>3, <2>3, <3>1
      <3>3. Behind(hdrs, g) < b => Behind(hdrs, g) \in DOMAIN hdrs'
        <4>1. Behind(hdrs, g) \in Nat /\ a <= Behind(hdrs, g)
          BY <1>4, <1>5, <2>3, <3>1
        <4>2. Behind(hdrs, g) < b => Behind(hdrs, g) \in DOMAIN hdrs
          BY <1>4, <1>5, <3>1
        <4> QED
          BY <1>2, <2>1, <3>2, <4>1, <4>2
      <3> QED
        BY <1>8, <2>3, <3>1, <3>2, <3>3
    <2>4. Reserve(a, b)'
      BY <1>3, <2>2, <2>3 DEF Reserve
    <2> QED
      BY <2>4 DEF Reserved
  <1>11. CASE ~(a <= h /\ h < b) /\ MergesForward(h) /\ n = a
    <2>1. h < a /\ ~hdrs[a].taken /\ m = Behind(hdrs, a)
      BY <1>2, <1>5, <1>7, <1>11
    <2>2. a < b
      BY <1>3, <1>4, <1>5
    <2>3. m = b
      BY <1>3, <1>4, <1>5, <2>1, <2>2
    <2>4. ASSUME NEW g \in DOMAIN hdrs', h <= g, g < m
          PROVE  g = h /\ Behind(hdrs', g) = m
      BY <1>2, <1>4, <1>7, <2>4 DEF m
    <2>5. h + HDR + BufferSize <= m
      BY <1>3, <1>4, <1>5, <1>7, <2>1, <2>3
    <2>6. PICK d, e : d = h /\ e = m
      OBVIOUS
    <2>7. Reserve(d, e)'
      BY <1>2, <1>7, <2>4, <2>5, <2>6 DEF Reserve
    <2> QED
      BY <2>7 DEF Reserved
  <1> QED
    BY <1>9, <1>10, <1>11

\* A chunk of that size is the next reserve when it is freed, for the first time or again.
LEMMA ReserveFreed ==
    ASSUME HeapInv, NEW h \in DOMAIN hdrs, hdrs' = FreedHeaders(h), hdrs[h].size >= BufferSize
    PROVE  Reserved' /\ hdrs'[h].size >= BufferSize
  <1> DEFINE m == Behind(hdrs', h)
  <1>1. /\ h \in DOMAIN hdrs' /\ ~hdrs'[h].taken
        /\ \A g \in DOMAIN hdrs' : g \in DOMAIN hdrs
        /\ m \in DOMAIN hdrs' \cup {BlockSize}
        /\ \A g \in DOMAIN hdrs' : h < g => m <= g
        /\ hdrs'[h].size >= hdrs[h].size
    BY ReleaseShape
  <1>2. /\ BlockSize \in Nat /\ BufferSize \in Nat /\ HDR = 8
        /\ \A g \in DOMAIN hdrs : g \in Nat /\ hdrs[g].size \in Nat
    BY Chunks
  <1>3. m = h + 8 + hdrs'[h].size
    BY DEF Behind, HDR
  <1>4. hdrs'[h].size \in Int
    <2>1. h \in Nat /\ m \in Nat
      BY <1>1, <1>2
    <2>2. hdrs'[h].size = FreedSize(h)
      BY ReleaseTiles DEF HeapInv
    <2>3. FreedSize(h) \in Nat
      BY <1>2 DEF FreedSize, MergesForward, HDR
    <2> QED
      BY <2>2, <2>3
  <1>5. hdrs'[h].size >= BufferSize
    BY <1>1, <1>2, <1>4
  <1>6. h + HDR + BufferSize <= m
    BY <1>2, <1>3, <1>4, <1>5
  <1>7. ASSUME NEW g \in DOMAIN hdrs', h <= g, g < m
        PROVE  g = h /\ Behind(hdrs', g) = m
    BY <1>1, <1>2, <1>7
  <1> HIDE DEF m
  <1>8. PICK e : e = m
    OBVIOUS
  <1>9. e \in Nat
    BY <1>1, <1>2, <1>8
  <1>10. Reserve(h, e)'
    BY <1>1, <1>6, <1>7, <1>8, <1>9 DEF Reserve
  <1> QED
    BY <1>5, <1>10 DEF Reserved

\* At boot everything is taken up to a free chunk of at least n bytes.
BootRoom(n) == \E f \in DOMAIN hdrs : /\ ~hdrs[f].taken /\ hdrs[f].size >= n
                                      /\ \A g \in DOMAIN hdrs : g < f => hdrs[g].taken

\* It is so again when the chunk of p, the last one that was taken, has been freed.
LoadRoom(p, n) ==
    \E h \in DOMAIN hdrs :
        LET f == Behind(hdrs, h)
        IN  /\ p = h + HDR
            /\ \A g \in DOMAIN hdrs : g < h => hdrs[g].taken
            /\ f \in DOMAIN hdrs /\ ~hdrs[f].taken
            /\ hdrs[h].size + HDR + hdrs[f].size >= n

LEMMA RoomMalloc ==
    ASSUME HeapInv, NEW size \in Nat, NEW n \in Int, n > size + 24, BootRoom(n), Malloc(size),
           NEW p, p = Got
    PROVE  BootRoom(n - size - 8)' /\ LoadRoom(p, n)'
  <1>1. PICK h : Takes(h, size) /\ p = h + HDR
    BY MallocTakes
  <1>2. PICK f \in DOMAIN hdrs : /\ ~hdrs[f].taken /\ hdrs[f].size >= n
                                 /\ \A g \in DOMAIN hdrs : g < f => hdrs[g].taken
    BY DEF BootRoom
  <1>3. /\ HDR = 8
        /\ \A g \in DOMAIN hdrs :
                /\ g \in Nat /\ hdrs[g].size \in Nat /\ Behind(hdrs, g) = g + 8 + hdrs[g].size
                /\ \A e \in DOMAIN hdrs : e < g => Behind(hdrs, e) <= g
    BY Chunks
  <1>4. f \in FreeFits(size)
    BY <1>2, <1>3 DEF FreeFits
  <1>5. h = f
    <2>1. h \in DOMAIN hdrs /\ ~hdrs[h].taken /\ h <= f
      BY <1>1, <1>4 DEF Takes
    <2> QED
      BY <1>2, <1>3, <2>1
  <1> DEFINE rest == h + 8 + size
  <1>6. hdrs[h].size > size + 24 /\ hdrs[h].size >= n
    BY <1>2, <1>3, <1>5
  <1>7. /\ h \in DOMAIN hdrs /\ h \in DOMAIN hdrs' /\ hdrs'[h].taken
        /\ \A g \in DOMAIN hdrs \ {h} : g \in DOMAIN hdrs' /\ hdrs'[g] = hdrs[g]
    BY <1>1 DEF Takes
  <1>8. /\ DOMAIN hdrs' = DOMAIN hdrs \cup {rest}
        /\ Behind(hdrs', h) = rest /\ ~hdrs'[rest].taken
        /\ Behind(hdrs', rest) = Behind(hdrs, h)
    <2>1. ~(hdrs[h].size <= size + 24)
      BY <1>3, <1>6, <1>7
    <2> QED
      BY <1>1, <2>1 DEF Takes
  <1>9. HeapInv'
    BY MallocInv
  <1>10. /\ hdrs'[h].size \in Nat /\ hdrs'[rest].size \in Nat
         /\ Behind(hdrs', h) = h + 8 + hdrs'[h].size
         /\ Behind(hdrs', rest) = rest + 8 + hdrs'[rest].size
    <2>1. \A g \in DOMAIN hdrs' : hdrs'[g] \in Header
      BY <1>9 DEF HeapInv, HeapTypes
    <2>2. hdrs'[h].size \in Nat /\ hdrs'[rest].size \in Nat
      BY <1>7, <1>8, <2>1 DEF Header
    <2> QED
      BY <2>2 DEF Behind, HDR
  <1>11. hdrs'[h].size = size /\ hdrs'[rest].size = hdrs[h].size - size - 8
    BY <1>3, <1>7, <1>8, <1>10
  <1>12. ASSUME NEW g \in DOMAIN hdrs', g < rest PROVE hdrs'[g].taken
    <2>1. g \in DOMAIN hdrs /\ g \in Nat
      BY <1>3, <1>7, <1>8, <1>12
    <2>2. g <= h
      BY <1>3, <1>6, <1>7, <1>12, <2>1
    <2>3. CASE g = h
      BY <1>7, <2>3
    <2>4. CASE g # h
      <3>1. g < f
        BY <1>3, <1>5, <2>1, <2>2, <2>4
      <3> QED
        BY <1>2, <1>7, <2>1, <2>4, <3>1
    <2> QED
      BY <2>3, <2>4
  <1>13. BootRoom(n - size - 8)'
    <2>1. hdrs'[rest].size >= n - size - 8
      BY <1>3, <1>6, <1>7, <1>11
    <2> HIDE DEF rest
    <2>2. rest \in DOMAIN hdrs'
      BY <1>8
    <2> QED
      BY <1>8, <1>12, <2>1, <2>2 DEF BootRoom
  <1>14. LoadRoom(p, n)'
    <2>1. hdrs'[h].size + HDR + hdrs'[rest].size >= n
      BY <1>3, <1>6, <1>7, <1>11
    <2>2. h < rest
      BY <1>3, <1>7
    <2>3. \A g \in DOMAIN hdrs' : g < h => g < rest
      BY <1>3, <1>7, <1>8, <2>2
    <2> HIDE DEF rest
    <2>4. rest \in DOMAIN hdrs'
      BY <1>8
    <2> QED
      BY <1>1, <1>7, <1>8, <1>12, <2>1, <2>3, <2>4 DEF LoadRoom
  <1> QED
    BY <1>13, <1>14

LEMMA RoomFree ==
    ASSUME HeapInv, NEW n \in Int, NEW p \in DOMAIN live, LoadRoom(p, n), Free(p)
    PROVE  BootRoom(n)'
  <1>1. PICK h \in DOMAIN hdrs :
            /\ p = h + HDR
            /\ \A g \in DOMAIN hdrs : g < h => hdrs[g].taken
            /\ Behind(hdrs, h) \in DOMAIN hdrs /\ ~hdrs[Behind(hdrs, h)].taken
            /\ hdrs[h].size + HDR + hdrs[Behind(hdrs, h)].size >= n
    BY DEF LoadRoom
  <1>2. h \in Nat /\ h = p - HDR
    BY <1>1, Chunks
  <1>3. hdrs' = FreedHeaders(h)
    BY <1>2 DEF Free, Release
  <1>4. MergesForward(h) /\ FreedSize(h) = hdrs[h].size + HDR + hdrs[Behind(hdrs, h)].size
    BY <1>1 DEF MergesForward, FreedSize
  <1>5. /\ h \in DOMAIN hdrs' /\ ~hdrs'[h].taken /\ hdrs'[h].size = FreedSize(h)
        /\ DOMAIN hdrs' \subseteq DOMAIN hdrs
        /\ \A g \in DOMAIN hdrs' \ {h} : hdrs'[g].taken = hdrs[g].taken
    BY <1>3, ReleaseTiles DEF HeapInv
  <1>6. \A g \in DOMAIN hdrs' : g < h => g \in DOMAIN hdrs /\ g # h
    BY <1>2, <1>5, Chunks
  <1>7. hdrs'[h].size >= n /\ \A g \in DOMAIN hdrs' : g < h => hdrs'[g].taken
    BY <1>1, <1>4, <1>5, <1>6
  <1> QED
    BY <1>5, <1>7 DEF BootRoom

\* What boot leaves is the first reserve.
LEMMA RoomReserves == HeapInv /\ BootRoom(BufferSize) => Reserved
  <1> SUFFICES ASSUME HeapInv, BootRoom(BufferSize) PROVE Reserved
    OBVIOUS
  <1>1. PICK f \in DOMAIN hdrs : ~hdrs[f].taken /\ hdrs[f].size >= BufferSize
    BY DEF BootRoom
  <1> DEFINE m == Behind(hdrs, f)
  <1>2. /\ HDR = 8 /\ BufferSize \in Nat /\ BlockSize \in Nat
        /\ f \in Nat /\ hdrs[f].size \in Nat /\ m = f + 8 + hdrs[f].size
        /\ m \in DOMAIN hdrs \cup {BlockSize}
        /\ \A g \in DOMAIN hdrs : g \in Nat /\ (f < g => m <= g)
    BY Chunks
  <1>3. f + HDR + BufferSize <= m
    BY <1>1, <1>2
  <1>4. \A g \in DOMAIN hdrs : f <= g /\ g < m => g = f
    BY <1>2
  <1>5. Reserve(f, m)
    <2> HIDE DEF m
    <2>1. m <= m
      BY <1>2
    <2>2. ~(m < m)
      BY <1>2
    <2>3. Behind(hdrs, f) = m
      BY DEF m
    <2> QED
      BY <1>1, <1>2, <1>3, <1>4, <2>1, <2>2, <2>3 DEF Reserve
  <1> QED
    BY <1>5 DEF Reserved

\* The room that is left at each step of boot.
BootInv ==
    /\ pc = "boot"   => BootRoom(BlockSize - 52)
    /\ pc = "ata"    => BootRoom(BlockSize - 60 - BufferSize)
    /\ pc = "fname"  => BootRoom(BlockSize - 88 - BufferSize)
    /\ pc = "load"   => BootRoom(BlockSize - 224 - BufferSize)
    /\ pc = "unload" => LoadRoom(buf, BlockSize - 224 - BufferSize)
    /\ pc = "save"   => BootRoom(BlockSize - 224 - BufferSize)
    /\ pc = "cmd"    => BootRoom(BlockSize - 232 - BufferSize - ShellSize)
    /\ pc = "tbuf"   => BootRoom(BlockSize - 240 - BufferSize - ShellSize - InputSize)

\* A reserve, while the kernel has no read buffer, and a freed buffer that will be one.
ReserveInv ==
    /\ pc \in {"prompt", "execute", "name", "exec", "return", "program", "ls"} => Reserved
    /\ pc = "catagain" => hdrs[buf - HDR].size >= BufferSize

RoomInv == BootInv /\ ReserveInv /\ Len(name) < InputSize

\* The assumption on the room, in numbers.
LEMMA RoomNumbers ==
    /\ BlockSize \in Nat /\ BufferSize \in Nat /\ ShellSize \in Nat /\ InputSize \in Nat
    /\ ShellSize <= BufferSize
    /\ BlockSize >= 2 * BufferSize + ShellSize + 2 * InputSize + 265
    /\ InputSize + 4 <= BufferSize
  <1>1. BlockSize \in Nat /\ BufferSize \in Nat /\ InputSize \in Nat
    BY BlockAssumption, DiskAssumption, InputAssumption
  <1>2. ShellSize \in Nat /\ ShellSize <= BufferSize
    BY <1>1, ShellAssumption
  <1> QED
    BY <1>1, <1>2, RoomAssumption DEF BLKHDR, SLACK, ATA, FNAME, HDR, BIN_EXT

\* One of the chunks that are kept: it comes from the room, and leaves the rest of it.
LEMMA KeepRoom ==
    ASSUME HeapInv, NEW size \in Nat, NEW n \in Int, n > size + 24, BootRoom(n), Malloc(size),
           NEW k \in Int, k <= n - size - 8
    PROVE  BootRoom(k)' /\ HeapInv'
  <1>1. PICK p : p = Got
    OBVIOUS
  <1>2. BootRoom(n - size - 8)'
    BY <1>1, RoomMalloc
  <1>3. HeapInv'
    BY MallocInv
  <1>4. \A f \in DOMAIN hdrs' : hdrs'[f].size \in Nat
    BY <1>3 DEF HeapInv, HeapTypes, Header
  <1> QED
    BY <1>2, <1>3, <1>4 DEF BootRoom

LEMMA BootKeepsRoom ==
    ASSUME HeapInv, OwnInv, BootInv, Boot
    PROVE  BootInv' /\ ReserveInv' /\ name' = name
  <1>0. name' = name
    BY DEF Boot, ReadBuffer, NewATA, ShellFname, LoadShell, UnloadShell, ShellBuf, AllocCmd,
           AllocTbuf, Keep, command
  <1>1. CASE ReadBuffer
    <2>1. pc = "boot" /\ pc' = "ata" /\ Malloc(BufferSize) /\ BootRoom(BlockSize - 52)
      BY <1>1 DEF ReadBuffer, Keep, BootInv
    <2>2. BootRoom(BlockSize - 60 - BufferSize)'
      BY <2>1, RoomNumbers, KeepRoom
    <2> QED
      BY <1>0, <2>1, <2>2 DEF BootInv, ReserveInv
  <1>2. CASE NewATA
    <2>1. pc = "ata" /\ pc' = "fname" /\ Malloc(20) /\ BootRoom(BlockSize - 60 - BufferSize)
      BY <1>2 DEF NewATA, Keep, BootInv, ATA
    <2>2. BootRoom(BlockSize - 88 - BufferSize)'
      BY <2>1, RoomNumbers, KeepRoom
    <2> QED
      BY <1>0, <2>1, <2>2 DEF BootInv, ReserveInv
  <1>3. CASE ShellFname
    <2>1. pc = "fname" /\ pc' = "load" /\ Malloc(128) /\ BootRoom(BlockSize - 88 - BufferSize)
      BY <1>3 DEF ShellFname, Keep, BootInv, FNAME
    <2>2. BootRoom(BlockSize - 224 - BufferSize)'
      BY <2>1, RoomNumbers, KeepRoom
    <2> QED
      BY <1>0, <2>1, <2>2 DEF BootInv, ReserveInv
  <1>4. CASE LoadShell
    <2>1. /\ pc = "load" /\ pc' = "unload" /\ Malloc(BufferSize) /\ buf' = Got
          /\ BootRoom(BlockSize - 224 - BufferSize)
      BY <1>4 DEF LoadShell, BootInv
    <2>2. PICK p : p = Got
      OBVIOUS
    <2>3. LoadRoom(p, BlockSize - 224 - BufferSize)'
      BY <2>1, <2>2, RoomNumbers, RoomMalloc
    <2>4. LoadRoom(buf, BlockSize - 224 - BufferSize)'
      BY <2>1, <2>2, <2>3 DEF LoadRoom
    <2> QED
      BY <1>0, <2>1, <2>4 DEF BootInv, ReserveInv
  <1>5. CASE UnloadShell
    <2>1. pc = "unload" /\ FreePtr(buf, "save") /\ LoadRoom(buf, BlockSize - 224 - BufferSize)
      BY <1>5 DEF UnloadShell, BootInv
    <2>2. buf # 0 /\ buf \in DOMAIN live
      BY <2>1 DEF OwnInv, Ownership
    <2>3. pc' = "save" /\ Free(buf)
      BY <2>1, <2>2 DEF FreePtr
    <2>4. BootRoom(BlockSize - 224 - BufferSize)'
      BY <2>1, <2>2, <2>3, RoomNumbers, RoomFree
    <2> QED
      BY <1>0, <2>3, <2>4 DEF BootInv, ReserveInv
  <1>6. CASE ShellBuf
    <2>1. pc = "save" /\ pc' = "cmd" /\ Malloc(ShellSize) /\ BootRoom(BlockSize - 224 - BufferSize)
      BY <1>6 DEF ShellBuf, Keep, BootInv
    <2>2. BootRoom(BlockSize - 232 - BufferSize - ShellSize)'
      BY <2>1, RoomNumbers, KeepRoom
    <2> QED
      BY <1>0, <2>1, <2>2 DEF BootInv, ReserveInv
  <1>7. CASE AllocCmd
    <2>1. /\ pc = "cmd" /\ pc' = "tbuf" /\ Malloc(InputSize)
          /\ BootRoom(BlockSize - 232 - BufferSize - ShellSize)
      BY <1>7 DEF AllocCmd, Keep, BootInv
    <2>2. BootRoom(BlockSize - 240 - BufferSize - ShellSize - InputSize)'
      BY <2>1, RoomNumbers, KeepRoom
    <2> QED
      BY <1>0, <2>1, <2>2 DEF BootInv, ReserveInv
  <1>8. CASE AllocTbuf
    <2>1. /\ pc = "tbuf" /\ pc' = "prompt" /\ Malloc(InputSize)
          /\ BootRoom(BlockSize - 240 - BufferSize - ShellSize - InputSize)
      BY <1>8 DEF AllocTbuf, Keep, BootInv
    <2>2. BootRoom(BufferSize)' /\ HeapInv'
      BY <2>1, RoomNumbers, KeepRoom
    <2>3. Reserved'
      BY <2>2, RoomReserves, PTL
    <2> QED
      BY <1>0, <2>1, <2>3 DEF BootInv, ReserveInv
  <1> QED
    BY <1>1, <1>2, <1>3, <1>4, <1>5, <1>6, <1>7, <1>8 DEF Boot

\* The order in which the program got its chunks, with one more or one less.
LEMMA OlderCons ==
    ASSUME NEW n, NEW s \in Seq(Nat), NEW x \in Nat, NEW c, c = <<x>> \o s
    PROVE  /\ \A p, q : Older(n, s, p, q) => Older(n, c, p, q)
           /\ \A p \in ToSet(s) \cup {n} : Older(n, c, p, x)
  <1>1. /\ c \in Seq(Nat) /\ Len(c) = Len(s) + 1 /\ c[1] = x
        /\ \A i \in 2 .. Len(s) + 1 : c[i] = s[i - 1]
        /\ ToSet(c) = {x} \cup ToSet(s)
    BY ToSetCons
  <1>2. DOMAIN c = 1 .. Len(s) + 1 /\ DOMAIN s = 1 .. Len(s) /\ Len(s) \in Nat
    BY <1>1
  <1>3. ASSUME NEW i \in DOMAIN s PROVE i \in Nat /\ i + 1 \in DOMAIN c /\ c[i + 1] = s[i] /\ 1 < i + 1
    <2>1. i + 1 \in 2 .. Len(s) + 1 /\ (i + 1) - 1 = i /\ i \in Nat
      BY <1>2
    <2> QED
      BY <1>1, <1>2, <2>1
  <1>4. 1 \in DOMAIN c
    BY <1>2
  <1>5. ASSUME NEW i \in DOMAIN s, NEW j \in DOMAIN s, j < i PROVE j + 1 < i + 1
    BY <1>2, <1>5
  <1>6. ASSUME NEW p, NEW q, Older(n, s, p, q) PROVE Older(n, c, p, q)
    <2>1. CASE p = n /\ q \in ToSet(s)
      BY <1>1, <2>1 DEF Older
    <2>2. ASSUME NEW i \in DOMAIN s, NEW j \in DOMAIN s, j < i, s[i] = p, s[j] = q
          PROVE  Older(n, c, p, q)
      <3>1. /\ i + 1 \in DOMAIN c /\ j + 1 \in DOMAIN c /\ j + 1 < i + 1
            /\ c[i + 1] = p /\ c[j + 1] = q
        BY <1>3, <1>5, <2>2
      <3> QED
        BY <3>1 DEF Older
    <2> QED
      BY <1>6, <2>1, <2>2 DEF Older
  <1>7. ASSUME NEW p \in ToSet(s) \cup {n} PROVE Older(n, c, p, x)
    <2>1. CASE p = n
      BY <1>1, <2>1 DEF Older
    <2>2. CASE p \in ToSet(s)
      <3>1. PICK i \in DOMAIN s : s[i] = p
        BY <2>2 DEF ToSet
      <3>2. i + 1 \in DOMAIN c /\ c[i + 1] = p /\ 1 < i + 1
        BY <1>3, <3>1
      <3> QED
        BY <1>1, <1>4, <3>2 DEF Older
    <2> QED
      BY <2>1, <2>2
  <1> QED
    BY <1>6, <1>7

LEMMA OlderTail ==
    ASSUME NEW n, NEW s \in Seq(Nat), s # <<>>, \A i, j \in DOMAIN s : s[i] = s[j] => i = j,
           n \notin ToSet(s), NEW p, p = Head(s)
    PROVE  /\ \A q : ~Older(n, s, p, q)
           /\ \A x, y : Older(n, s, x, y) /\ x # p /\ y # p => Older(n, Tail(s), x, y)
  <1> DEFINE r == Tail(s)
  <1>1. /\ r \in Seq(Nat) /\ p = s[1] /\ Len(r) = Len(s) - 1 /\ Len(s) \in Nat /\ Len(s) >= 1
        /\ \A i \in 1 .. Len(s) - 1 : r[i] = s[i + 1]
    OBVIOUS
  <1>2. DOMAIN s = 1 .. Len(s) /\ DOMAIN r = 1 .. Len(s) - 1
    BY <1>1
  <1>3. ToSet(r) = ToSet(s) \ {p} /\ p \in ToSet(s)
    BY ToSetTail
  <1> HIDE DEF r
  <1>4. ASSUME NEW i \in DOMAIN s, s[i] # p
        PROVE  i \in Nat /\ i - 1 \in DOMAIN r /\ r[i - 1] = s[i]
    <2>1. i \in Nat /\ i # 1 /\ i - 1 \in 1 .. Len(s) - 1 /\ (i - 1) + 1 = i
      BY <1>1, <1>2, <1>4, SMTT(30)
    <2> QED
      BY <1>1, <1>2, <2>1
  <1>5. ASSUME NEW q, Older(n, s, p, q) PROVE FALSE
    <2>1. PICK i \in DOMAIN s, j \in DOMAIN s : j < i /\ s[i] = p
      BY <1>3, <1>5 DEF Older
    <2>2. 1 \in DOMAIN s
      BY <1>1, <1>2
    <2>3. s[i] = s[1]
      BY <1>1, <2>1
    <2>4. i = 1
      BY <2>2, <2>3
    <2> QED
      BY <1>1, <1>2, <2>1, <2>4
  <1>6. ASSUME NEW x, NEW y, Older(n, s, x, y), x # p, y # p PROVE Older(n, r, x, y)
    <2>1. CASE x = n /\ y \in ToSet(s)
      BY <1>3, <1>6, <2>1 DEF Older
    <2>2. ASSUME NEW i \in DOMAIN s, NEW j \in DOMAIN s, j < i, s[i] = x, s[j] = y
          PROVE  Older(n, r, x, y)
      <3>1. /\ i - 1 \in DOMAIN r /\ r[i - 1] = x /\ i \in Nat
            /\ j - 1 \in DOMAIN r /\ r[j - 1] = y /\ j \in Nat
        BY <1>4, <1>6, <2>2
      <3>2. j - 1 < i - 1
        BY <2>2, <3>1
      <3> QED
        BY <3>1, <3>2 DEF Older
    <2> QED
      BY <1>6, <2>1, <2>2 DEF Older
  <1> QED
    BY <1>5, <1>6 DEF r

LEMMA ReservedKept == ASSUME Reserved, UNCHANGED <<hdrs, bin_name, held>> PROVE Reserved'
  <1>1. PICK a, b : Reserve(a, b)
    BY DEF Reserved
  <1>2. Reserve(a, b)'
    BY <1>1 DEF Reserve, Transient
  <1> QED
    BY <1>2 DEF Reserved

\* bin_file_exec's name comes from one of the two buffers.
LEMMA StepName ==
    ASSUME TextInv, Len(name) < InputSize, [FirstNext]_<<vars, shellVars>>
    PROVE  Len(name') < InputSize
  <1>1. CASE Execute
    <2>1. Terminated(cmd') /\ Terminated(tbuf')
      BY <1>1, ExecuteSplits DEF TextInv, Terminated
    <2>2. name' = Str(cmd') \/ name' = Str(tbuf')
      BY <1>1 DEF Execute
    <2>3. ASSUME NEW b, Terminated(b) PROVE Len(Str(b)) < InputSize
      <3>1. Len(Str(b)) = StrLen(b) /\ StrLen(b) \in Places
        BY <2>3, StrIsLine, StrLenFirst
      <3> QED
        BY <3>1, InputAssumption DEF Places
    <2> QED
      BY <2>1, <2>2, <2>3
  <1>2. CASE FreeName
    <2>1. name' = <<>>
      BY <1>2 DEF FreeName
    <2>2. Len(<<>>) < InputSize
      BY InputAssumption
    <2> QED
      BY <2>1, <2>2
  <1>3. ASSUME name' = name PROVE Len(name') < InputSize
    BY <1>3
  <1>4. CASE Boot \/ (\E l \in Lines : GetString(l)) \/ MakeName \/ ExecInitrd
    BY <1>3, <1>4 DEF Boot, ReadBuffer, NewATA, ShellFname, LoadShell, UnloadShell, ShellBuf,
                  AllocCmd, AllocTbuf, Keep, GetString, MakeName, ExecInitrd, command
  <1>5. CASE Program
    BY <1>3, <1>5, ProgramAt DEF At, command
  <1>6. CASE UNCHANGED <<vars, shellVars>>
    BY <1>3, <1>6 DEF shellVars, command
  <1> QED
    BY <1>1, <1>2, <1>4, <1>5, <1>6 DEF FirstNext

\* The kernel's read buffer is freed.
LEMMA FreeBufReserves ==
    ASSUME HeapInv, OwnInv, pc # "catagain", buf # 0, Free(buf)
    PROVE  Reserved' /\ hdrs'[buf - HDR].size >= BufferSize
  <1>1. buf \in DOMAIN live /\ live[buf] = BufferSize
    BY DEF OwnInv, Ownership
  <1>2. PICK h : h = buf - HDR
    OBVIOUS
  <1>3. h \in DOMAIN hdrs /\ BufferSize <= hdrs[h].size /\ hdrs' = FreedHeaders(h)
    BY <1>1, <1>2 DEF HeapInv, OwnedChunks, Free, Release
  <1>4. hdrs[h].size >= BufferSize
    BY <1>3, Chunks
  <1> QED
    BY <1>2, <1>3, <1>4, ReserveFreed

LEMMA MakeNameReserves ==
    ASSUME HeapInv, TextInv, OwnInv, Reserved, MakeName
    PROVE  Reserved'
  <1>1. /\ pc = "name" /\ Alloc(NameSize(name)) /\ bin_name' = Got /\ held' = held
    BY DEF MakeName, chunks
  <1>2. bin_name = 0 /\ held = <<>> /\ NameSize(name) \in Nat
    BY <1>1 DEF OwnInv, Ownership, Named, Running, TextInv, NameSize, BIN_EXT
  <1>3. ToSet(held) = {} /\ Transient = {} /\ \A p, q : ~Older(bin_name, held, p, q)
    BY <1>2 DEF ToSet, Transient, Older
  <1>4. CASE Malloc(NameSize(name))
    <2>1. PICK a, b : Reserve(a, b)
      BY DEF Reserved
    <2>2. PICK new : new = Got
      OBVIOUS
    <2>3. new # 0
      BY <1>2, <1>4, <2>2, MallocGot
    <2>4. Transient' = {new}
      BY <1>1, <1>3, <2>2, <2>3 DEF Transient
    <2>5. PICK size \in Nat : size = NameSize(name)
      BY <1>2
    <2>6. Reserve(a, b)'
      BY <1>3, <1>4, <2>1, <2>2, <2>4, <2>5, ReserveMalloc
    <2> QED
      BY <2>6 DEF Reserved
  <1>5. CASE MallocFails(NameSize(name))
    <2>1. UNCHANGED <<hdrs, live>>
      BY <1>5 DEF MallocFails, vars
    <2>2. bin_name' = 0
      BY <1>1, <2>1 DEF Got
    <2> QED
      BY <1>1, <1>2, <2>1, <2>2, ReservedKept
  <1> QED
    BY <1>1, <1>4, <1>5 DEF Alloc

LEMMA FreeNameReserves ==
    ASSUME HeapInv, OwnInv, Reserved, FreeName, bin_name # 0
    PROVE  Reserved'
  <1>1. pc = "return" /\ bin_name \in DOMAIN live /\ held = <<>> /\ held' = held /\ bin_name' = 0
    BY DEF FreeName, chunks, OwnInv, Ownership, Running
  <1>2. Free(bin_name)
    BY DEF FreeName, FreePtr
  <1>3. ToSet(held) = {} /\ \A q : ~Older(bin_name, held, bin_name, q)
    BY <1>1 DEF ToSet, Older
  <1>4. Transient \ {bin_name} \subseteq Transient'
    BY <1>3 DEF Transient
  <1>5. \A x, y : ~Older(bin_name, held, x, y)
    BY <1>1, <1>3 DEF Older
  <1>6. PICK a, b : Reserve(a, b)
    BY DEF Reserved
  <1> QED
    BY <1>1, <1>2, <1>3, <1>4, <1>5, <1>6, ReserveFree

LEMMA ProgramMallocReserves ==
    ASSUME HeapInv, OwnInv, Reserved, NEW size \in Sizes, ProgramMalloc(size)
    PROVE  Reserved'
  <1>1. Alloc(size) /\ held' = Holding /\ bin_name' = bin_name /\ size \in Nat
    BY SizesAssumption DEF ProgramMalloc, Asks, Step, At, command
  <1>2. CASE Malloc(size)
    <2>1. PICK a, b : Reserve(a, b)
      BY DEF Reserved
    <2>2. PICK new : new = Got
      OBVIOUS
    <2>3. new \in Nat \ {0}
      BY <1>1, <1>2, <2>2, MallocGot
    <2>4. held \in Seq(Nat) /\ held' = <<new>> \o held
      BY <1>1, <2>2, <2>3 DEF Holding, OwnInv, Ownership
    <2>5. /\ \A p, q : Older(bin_name, held, p, q) => Older(bin_name, held', p, q)
          /\ \A p \in ToSet(held) \cup {bin_name} : Older(bin_name, held', p, new)
      BY <2>3, <2>4, OlderCons
    <2>6. ToSet(held') = {new} \cup ToSet(held)
      BY <2>3, <2>4, ToSetCons
    <2>7. Transient \cup {new} \subseteq Transient'
      BY <1>1, <2>3, <2>6 DEF Transient
    <2>8. \A p \in Transient : Older(bin_name', held', p, new)
      BY <1>1, <2>5 DEF Transient
    <2>9. Reserve(a, b)'
      BY <1>1, <1>2, <2>1, <2>2, <2>5, <2>7, <2>8, ReserveMalloc
    <2> QED
      BY <2>9 DEF Reserved
  <1>3. CASE MallocFails(size)
    <2>1. UNCHANGED <<hdrs, live>>
      BY <1>3 DEF MallocFails, vars
    <2>2. held' = held
      BY <1>1, <2>1 DEF Got, Holding
    <2> QED
      BY <1>1, <2>1, <2>2, ReservedKept
  <1> QED
    BY <1>1, <1>2, <1>3 DEF Alloc

LEMMA ProgramFreeReserves ==
    ASSUME HeapInv, OwnInv, Reserved, ProgramFree
    PROVE  Reserved'
  <1>1. /\ held # <<>> /\ Free(Head(held)) /\ held' = Tail(held) /\ bin_name' = bin_name
    BY DEF ProgramFree, Step, At, command
  <1>2. /\ held \in Seq(Nat) /\ \A i, j \in DOMAIN held : held[i] = held[j] => i = j
        /\ ToSet(held) \subseteq DOMAIN live \ {bin_name}
    BY DEF OwnInv, Ownership
  <1>3. PICK p : p = Head(held)
    OBVIOUS
  <1>4. ToSet(Tail(held)) = ToSet(held) \ {p} /\ p \in ToSet(held)
    BY <1>1, <1>2, <1>3, ToSetTail
  <1>5. /\ \A q : ~Older(bin_name, held, p, q)
        /\ \A x, y : Older(bin_name, held, x, y) /\ x # p /\ y # p => Older(bin_name, Tail(held), x, y)
    <2>1. bin_name \notin ToSet(held)
      BY <1>2
    <2> QED
      BY <1>1, <1>2, <1>3, <2>1, OlderTail
  <1>6. \A x, y : Older(bin_name, held, x, y) /\ x # p /\ y # p => Older(bin_name', held', x, y)
    BY <1>1, <1>5
  <1>7. Transient \ {p} \subseteq Transient'
    BY <1>1, <1>4 DEF Transient
  <1>8. p \in DOMAIN live /\ Free(p)
    BY <1>1, <1>2, <1>3, <1>4
  <1>9. PICK a, b : Reserve(a, b)
    BY DEF Reserved
  <1> QED
    BY <1>5, <1>6, <1>7, <1>8, <1>9, ReserveFree

Booting == {"boot", "ata", "fname", "load", "unload", "save", "cmd", "tbuf"}

LEMMA StepRoom ==
    HeapInv /\ TextInv /\ OwnInv /\ RoomInv /\ [FirstNext]_<<vars, shellVars>> => RoomInv'
  <1> SUFFICES ASSUME HeapInv, TextInv, OwnInv, RoomInv, [FirstNext]_<<vars, shellVars>>
               PROVE  RoomInv'
    OBVIOUS
  <1>0. Len(name') < InputSize
    BY StepName DEF RoomInv
  \* Where there is to be a reserve after a step, and where there need not be one.
  <1>1. ASSUME pc' \notin Booting \cup {"catagain"}, Reserved' PROVE RoomInv'
    BY <1>0, <1>1 DEF RoomInv, BootInv, ReserveInv, Booting
  <1>2. ASSUME pc' \in {"hung", "cat", "catfails", "catends", "read", "copy", "readends"} PROVE RoomInv'
    BY <1>0, <1>2 DEF RoomInv, BootInv, ReserveInv
  <1>3. CASE Boot
    BY <1>0, <1>3, BootKeepsRoom DEF RoomInv
  <1>4. CASE (\E l \in Lines : GetString(l)) \/ Execute \/ ExecInitrd
    <2>1. /\ pc \in {"prompt", "execute", "exec"} /\ pc' \in {"execute", "name", "program", "return"}
          /\ UNCHANGED <<hdrs, bin_name, held>>
      BY <1>4 DEF GetString, Execute, ExecInitrd, command, chunks, vars
    <2>2. Reserved
      BY <2>1 DEF RoomInv, ReserveInv
    <2> QED
      BY <1>1, <2>1, <2>2, ReservedKept DEF Booting
  <1>5. CASE ProgramReturns \/ Ls \/ LsEntry \/ LsEnds
    <2>1. /\ pc \in {"program", "ls"} /\ pc' \in {"program", "ls", "return"}
          /\ UNCHANGED <<hdrs, bin_name, held>>
      BY <1>5 DEF ProgramReturns, Ls, LsEntry, LsEnds, Asks, Step, At, command, vars
    <2>2. Reserved
      BY <2>1 DEF RoomInv, ReserveInv
    <2> QED
      BY <1>1, <2>1, <2>2, ReservedKept DEF Booting
  <1>6. CASE MakeName
    <2>1. pc = "name" /\ pc' = "exec"
      BY <1>6 DEF MakeName
    <2>2. Reserved
      BY <2>1 DEF RoomInv, ReserveInv
    <2> QED
      BY <1>1, <1>6, <2>1, <2>2, MakeNameReserves DEF Booting
  <1>7. CASE FreeName
    <2>1. pc = "return" /\ pc' = (IF bin_name = 0 THEN "hung" ELSE "prompt")
      BY <1>7 DEF FreeName, FreePtr
    <2>2. Reserved
      BY <2>1 DEF RoomInv, ReserveInv
    <2>3. CASE bin_name = 0
      BY <1>2, <2>1, <2>3
    <2>4. CASE bin_name # 0
      BY <1>1, <1>7, <2>1, <2>2, <2>4, FreeNameReserves DEF Booting
    <2> QED
      BY <2>3, <2>4
  <1>8. ASSUME NEW size \in Sizes, ProgramMalloc(size) PROVE RoomInv'
    <2>1. pc = "program" /\ pc' = "program"
      BY <1>8 DEF ProgramMalloc, Asks, Step, At
    <2>2. Reserved
      BY <2>1 DEF RoomInv, ReserveInv
    <2> QED
      BY <1>1, <1>8, <2>1, <2>2, ProgramMallocReserves DEF Booting
  <1>9. CASE ProgramFree
    <2>1. pc = "program" /\ pc' = "program"
      BY <1>9 DEF ProgramFree, Step, At
    <2>2. Reserved
      BY <2>1 DEF RoomInv, ReserveInv
    <2> QED
      BY <1>1, <1>9, <2>1, <2>2, ProgramFreeReserves DEF Booting
  <1>10. ASSUME NEW f, NEW to \in {"cat", "read"}, Open(f, to) PROVE RoomInv'
    <2>1. pc = "program" /\ UNCHANGED <<bin_name, held>>
      BY <1>10 DEF Open, Asks, Step, At, command
    <2>2. CASE Finds(f)
      BY <1>2, <1>10, <2>2 DEF Open, Asks, Step
    <2>3. CASE ~Finds(f)
      <3>1. pc' = "program" /\ hdrs' = hdrs
        BY <1>10, <2>3 DEF Open, Asks, Step, vars
      <3>2. Reserved
        BY <2>1 DEF RoomInv, ReserveInv
      <3> QED
        BY <1>1, <2>1, <3>1, <3>2, ReservedKept DEF Booting
    <2> QED
      BY <2>2, <2>3
  <1>11. CASE CatReads \/ ReadReads \/ Copy
    BY <1>2, <1>11 DEF CatReads, ReadReads, Reads, Copy, Step
  <1>12. CASE CatEnds \/ ReadEnds
    <2>1. pc \in {"catends", "readends"} /\ FreePtr(buf, "program")
      BY <1>12 DEF CatEnds, ReadEnds, At
    <2>2. CASE buf = 0
      BY <1>2, <2>1, <2>2 DEF FreePtr
    <2>3. CASE buf # 0
      <3>1. pc' = "program" /\ Free(buf) /\ pc # "catagain"
        BY <2>1, <2>3 DEF FreePtr
      <3> QED
        BY <1>1, <2>3, <3>1, FreeBufReserves DEF Booting
    <2> QED
      BY <2>2, <2>3
  <1>13. CASE CatFails
    <2>1. pc = "catfails" /\ FreePtr(buf, "catagain") /\ buf' = buf
      BY <1>13 DEF CatFails, At, kernel
    <2>2. CASE buf = 0
      BY <1>2, <2>1, <2>2 DEF FreePtr
    <2>3. CASE buf # 0
      <3>1. pc' = "catagain" /\ Free(buf) /\ pc # "catagain"
        BY <2>1, <2>3 DEF FreePtr
      <3>2. hdrs'[buf - HDR].size >= BufferSize
        BY <2>3, <3>1, FreeBufReserves
      <3> QED
        BY <1>0, <2>1, <3>1, <3>2 DEF RoomInv, BootInv, ReserveInv
    <2> QED
      BY <2>2, <2>3
  <1>14. CASE CatAgain
    <2>1. pc = "catagain" /\ pc' = "program" /\ FreeAgain(buf)
      BY <1>14 DEF CatAgain, At
    <2>2. PICK h : h = buf - HDR
      OBVIOUS
    <2>3. h \in DOMAIN hdrs /\ hdrs[h].size >= BufferSize /\ hdrs' = FreedHeaders(h)
      BY <2>1, <2>2 DEF FreeAgain, Release, OwnInv, Ownership, RoomInv, ReserveInv
    <2>4. Reserved'
      BY <2>3, ReserveFreed
    <2> QED
      BY <1>1, <2>1, <2>4 DEF Booting
  <1>15. CASE UNCHANGED <<vars, shellVars>>
    <2>1. UNCHANGED <<pc, hdrs, buf, bin_name, held, name>>
      BY <1>15 DEF vars, shellVars, command, chunks, kernel
    <2>2. BootInv'
      BY <2>1 DEF RoomInv, BootInv, BootRoom, LoadRoom
    <2>3. ReserveInv'
      BY <2>1, ReservedKept DEF RoomInv, ReserveInv
    <2> QED
      BY <1>0, <2>2, <2>3 DEF RoomInv
  <1> QED
    BY <1>3, <1>4, <1>5, <1>6, <1>7, <1>8, <1>9, <1>10, <1>11, <1>12, <1>13, <1>14, <1>15
       DEF FirstNext, Program, Cat, Read

LEMMA InitRoom == ShellInit => RoomInv
  <1> SUFFICES ASSUME ShellInit PROVE RoomInv
    OBVIOUS
  <1>1. pc = "boot" /\ name = <<>>
    BY DEF ShellInit
  <1>2. PICK p \in FirstPrev : hdrs = AddBlock(p)
    BY DEF ShellInit, Init
  <1>3. First \in DOMAIN hdrs /\ hdrs[First] = Hdr(FALSE, BlockSize - 52, p)
    BY <1>2 DEF AddBlock, BLKHDR, SLACK
  <1>4. ~hdrs[First].taken /\ hdrs[First].size = BlockSize - 52
    BY <1>3 DEF Hdr
  <1>5. \A g \in DOMAIN hdrs : ~(g < First)
    BY InitOwn DEF HeapInv, HeapTypes, Tiling, First, BLKHDR
  <1>6. BootRoom(BlockSize - 52)
    <2>1. hdrs[First].size >= BlockSize - 52
      BY <1>4, RoomNumbers
    <2> QED
      BY <1>3, <1>4, <1>5, <2>1 DEF BootRoom
  <1>7. Len(name) < InputSize
    <2>1. Len(<<>>) < InputSize
      BY InputAssumption
    <2> QED
      BY <1>1, <2>1
  <1> QED
    BY <1>1, <1>6, <1>7 DEF RoomInv, BootInv, ReserveInv

\* When the command holds nothing, the reserve is one free chunk.
LEMMA ReserveFits ==
    ASSUME HeapInv, OwnInv, Reserved, pc \in {"prompt", "execute", "name"},
           NEW size \in Nat, size <= BufferSize
    PROVE  FreeFits(size) # {}
  <1>1. bin_name = 0 /\ held = <<>>
    BY DEF OwnInv, Ownership, Named, Running
  <1>2. Transient = {}
    BY <1>1 DEF Transient, ToSet
  <1>3. PICK a, b : Reserve(a, b)
    BY DEF Reserved
  <1>4. a \in DOMAIN hdrs /\ b \in DOMAIN hdrs \cup {BlockSize} /\ a + HDR + BufferSize <= b
    BY <1>3 DEF Reserve
  <1>5. /\ BlockSize \in Nat /\ BufferSize \in Nat /\ HDR = 8
        /\ \A g \in DOMAIN hdrs :
             g \in Nat /\ hdrs[g].size \in Nat /\ Behind(hdrs, g) = g + 8 + hdrs[g].size
    BY Chunks
  <1>6. a \in Nat /\ b \in Nat /\ a <= a /\ a < b
    BY <1>4, <1>5
  <1>7. ~hdrs[a].taken /\ Behind(hdrs, a) <= b /\ ~(Behind(hdrs, a) < b)
    BY <1>2, <1>3, <1>4, <1>6 DEF Reserve
  <1>8. hdrs[a].size >= size
    BY <1>4, <1>5, <1>6, <1>7
  <1> QED
    BY <1>4, <1>7, <1>8 DEF FreeFits

-----------------------------------------------------------------------------
(* The count of the bytes in use.  Every chunk that is allocated may leave  *)
(* hb->used 24 bytes short and its free 8 more, so the shortfall and what   *)
(* the frees to come may add to it are bounded by the number of requests.   *)

\* Requests that have been made, or more.
Asked == CASE pc = "boot"                                  -> 0
           [] pc = "ata"                                   -> 1
           [] pc = "fname"                                 -> 2
           [] pc = "load"                                  -> 3
           [] pc \in {"unload", "save"}                    -> 4
           [] pc = "cmd"                                   -> 5
           [] pc = "tbuf"                                  -> 6
           [] pc \in {"execute", "name", "read", "copy"}   -> 6 + lines + 2 * calls
           [] OTHER                                        -> 7 + lines + 2 * calls

Shortfall == Gap + 8 * Cardinality(DOMAIN live)

Bound == 32 + 32 * Asked + again * BlockSize

SinkInv ==
    /\ lines \in Nat /\ calls \in Nat /\ IsFiniteSet(DOMAIN live)
    /\ BlockSize + Drift < Word => UsedInv /\ Shortfall <= Bound

LEMMA GapType == HeapInv => Gap \in Int /\ Level(used) \in Int
  BY BusyFinite, WordAssumption, BlockAssumption DEF HeapInv, HeapTypes, Gap, Level

LEMMA BoundDrift ==
    ASSUME lines \in Nat, calls \in Nat, again \in Nat
    PROVE  /\ Asked \in Nat /\ Asked <= 7 + lines + 2 * calls
           /\ again * BlockSize \in Nat
           /\ Drift = 32 * (8 + lines + 2 * calls) + again * BlockSize
           /\ Bound = 32 + 32 * Asked + again * BlockSize
           /\ Bound <= Drift
  <1>1. Asked \in Nat /\ Asked <= 7 + lines + 2 * calls
    BY DEF Asked
  <1>2. again * BlockSize \in Nat
    BY BlockAssumption
  <1>3. Drift = 32 * (8 + lines + 2 * calls) + again * BlockSize
    BY DEF Drift, HDR, SPARE
  <1>4. Bound = 32 + 32 * Asked + again * BlockSize
    BY DEF Bound
  <1> QED
    BY <1>1, <1>2, <1>3, <1>4

LEMMA MallocSinks ==
    ASSUME HeapInv, UsedInv, IsFiniteSet(DOMAIN live), NEW size \in Nat, Malloc(size)
    PROVE  UsedInv' /\ IsFiniteSet(DOMAIN live') /\ Shortfall' <= Shortfall + 32
  <1>1. UsedInv' /\ Gap' <= Gap + 24
    BY MallocCounts
  <1>2. HeapInv' /\ Got \notin DOMAIN live /\ DOMAIN live' = DOMAIN live \cup {Got}
    BY MallocGot
  <1>3. /\ IsFiniteSet(DOMAIN live') /\ Cardinality(DOMAIN live) \in Nat
        /\ Cardinality(DOMAIN live') = Cardinality(DOMAIN live) + 1
    BY <1>2, FS_AddElement, FS_CardinalityType
  <1>4. Gap \in Int /\ (Gap \in Int)'
    BY <1>2, GapType, PTL
  <1> QED
    BY <1>1, <1>3, <1>4 DEF Shortfall

LEMMA FreeSinks ==
    ASSUME HeapInv, UsedInv, IsFiniteSet(DOMAIN live), NEW p \in DOMAIN live, Free(p),
           NEW d \in Int, Shortfall <= d, BlockSize + d < Word
    PROVE  UsedInv' /\ IsFiniteSet(DOMAIN live') /\ Shortfall' <= Shortfall
  <1>1. PICK h : h = p - HDR
    OBVIOUS
  <1>2. PICK back \in BackMerges(h) : Release(h, back)
    BY <1>1 DEF Free
  <1>3. h \in DOMAIN hdrs /\ hdrs[h].taken /\ back \in BOOLEAN
    BY <1>1, <1>2 DEF HeapInv, OwnedChunks, BackMerges
  <1>4. HeapInv' /\ DOMAIN live' = DOMAIN live \ {p}
    BY FreeInv
  <1>5. /\ IsFiniteSet(DOMAIN live') /\ Cardinality(DOMAIN live) \in Nat
        /\ Cardinality(DOMAIN live') \in Nat
        /\ Cardinality(DOMAIN live') = Cardinality(DOMAIN live) - 1
    BY <1>4, FS_RemoveElement, FS_CardinalityType
  <1>6. Gap \in Int /\ (Gap \in Int)' /\ Level(used) \in Int
    BY <1>4, GapType, PTL
  <1> DEFINE before == Cardinality(Busy(hdrs))
             after == Cardinality(Busy(hdrs'))
             given == Given(h)
             lost == Lost(h, back)
  <1>7. given \in Nat /\ after + given <= before
    BY <1>2, <1>3, ReleaseUses DEF HeapInv, Release
  <1>8. before \in Nat /\ after \in Nat
    BY BusyFinite
  <1>9. lost \in 0 .. BlockSize /\ lost <= given + 8
    BY <1>3, LostFits
  <1>10. Gap = before - Level(used)
    BY DEF Gap
  <1>11. Gap + 8 <= d
    BY <1>5, <1>6 DEF Shortfall
  <1> HIDE DEF before, after, given, lost
  <1>12. Level(used) - lost > BlockSize - Word
    BY <1>6, <1>7, <1>8, <1>9, <1>10, <1>11, WordAssumption, BlockAssumption
  <1>13. UsedInv' /\ Gap' <= Gap + 8
    BY <1>2, <1>3, <1>12, ReleaseCounts DEF lost
  <1> QED
    BY <1>5, <1>6, <1>13 DEF Shortfall

LEMMA AgainSinks ==
    ASSUME HeapInv, UsedInv, IsFiniteSet(DOMAIN live), OwnInv, pc = "catagain", FreeAgain(buf),
           NEW d \in Int, Shortfall <= d, BlockSize + d + BlockSize < Word
    PROVE  UsedInv' /\ live' = live /\ Shortfall' <= Shortfall + BlockSize
  <1>1. PICK h : h = buf - HDR
    OBVIOUS
  <1>2. h \in DOMAIN hdrs /\ ~hdrs[h].taken /\ buf \in Nat
    BY <1>1 DEF OwnInv, Ownership
  <1>3. PICK back \in BackMerges(h) : Release(h, back)
    BY <1>1 DEF FreeAgain
  <1>4. back \in BOOLEAN
    BY <1>3 DEF BackMerges
  <1>5. HeapInv' /\ live' = live
    BY <1>1, <1>2, FreeAgainFacts
  <1>6. Gap \in Int /\ (Gap \in Int)' /\ Level(used) \in Int
    BY <1>5, GapType, PTL
  <1>7. Cardinality(DOMAIN live) \in Nat
    BY FS_CardinalityType
  <1>8. Lost(h, back) \in 0 .. BlockSize
    BY <1>2, <1>4, LostFits
  <1>9. Cardinality(Busy(hdrs)) \in Nat
    BY BusyFinite
  <1>10. Gap = Cardinality(Busy(hdrs)) - Level(used) /\ Gap <= d
    BY <1>6, <1>7 DEF Gap, Shortfall
  <1>11. Level(used) - Lost(h, back) > BlockSize - Word
    BY <1>6, <1>8, <1>9, <1>10, WordAssumption, BlockAssumption
  <1>12. UsedInv' /\ Gap' <= Gap + BlockSize
    BY <1>2, <1>3, <1>4, <1>11, ReleaseCounts
  <1> QED
    BY <1>5, <1>6, <1>7, <1>12, BlockAssumption DEF Shortfall

\* The counters never go down.
Counts == /\ lines' \in Nat /\ calls' \in Nat
          /\ lines <= lines' /\ calls <= calls'

LEMMA WordLeft ==
    ASSUME NEW b \in Nat, NEW w \in Nat, NEW d0 \in Nat, NEW d1 \in Nat, NEW z \in Nat,
           d0 + z <= d1, b + d1 < w
    PROVE  b + d0 < w /\ b + d0 + z < w
  OBVIOUS

\* A step that adds at most k to the shortfall, when the bound grows by as much.
LEMMA SinkFrom ==
    ASSUME HeapInv, OwnInv, SinkInv, Counts, HeapInv', again' \in Nat, IsFiniteSet(DOMAIN live'),
           NEW k \in Nat, NEW x, NEW y \in Nat, x = again * BlockSize, y = again' * BlockSize,
           x <= y, 32 * Asked + x + k <= 32 * Asked' + y,
           \A d \in Nat : UsedInv /\ Shortfall <= d /\ BlockSize + d + (y - x) < Word =>
                             UsedInv' /\ Shortfall' <= Shortfall + k
    PROVE  SinkInv'
  <1>1. lines \in Nat /\ calls \in Nat /\ again \in Nat
    BY DEF SinkInv, OwnInv, Ownership
  <1>2. /\ Asked \in Nat /\ x \in Nat /\ Bound = 32 + 32 * Asked + x
        /\ Drift = 32 * (8 + lines + 2 * calls) + x /\ Asked <= 7 + lines + 2 * calls
    BY <1>1, BoundDrift
  <1>3. /\ Asked' \in Nat /\ Bound' = 32 + 32 * Asked' + y
        /\ Drift' = 32 * (8 + lines' + 2 * calls') + y
    <2>1. (lines \in Nat)' /\ (calls \in Nat)' /\ (again \in Nat)'
      BY DEF Counts
    <2>2. /\ (Asked \in Nat)' /\ (Bound = 32 + 32 * Asked + again * BlockSize)'
          /\ (Drift = 32 * (8 + lines + 2 * calls) + again * BlockSize)'
      BY <2>1, BoundDrift, PTL
    <2> QED
      BY <2>2
  <1>4. PICK b0, b1, d0, d1, a0, a1, s0, s1 :
          /\ b0 = Bound /\ b1 = Bound' /\ d0 = Drift /\ d1 = Drift' /\ a0 = Asked /\ a1 = Asked'
          /\ s0 = Shortfall /\ s1 = Shortfall'
    OBVIOUS
  <1>5. PICK l0, l1, c0, c1 : l0 = lines /\ l1 = lines' /\ c0 = calls /\ c1 = calls'
    OBVIOUS
  <1>6. /\ a0 \in Nat /\ a1 \in Nat /\ l0 \in Nat /\ l1 \in Nat /\ c0 \in Nat /\ c1 \in Nat /\ x \in Nat
        /\ l0 <= l1 /\ c0 <= c1 /\ a0 <= 7 + l0 + 2 * c0
        /\ b0 = 32 + 32 * a0 + x /\ b1 = 32 + 32 * a1 + y
        /\ d0 = 32 * (8 + l0 + 2 * c0) + x /\ d1 = 32 * (8 + l1 + 2 * c1) + y
        /\ 32 * a0 + x + k <= 32 * a1 + y
    BY <1>1, <1>2, <1>3, <1>4, <1>5 DEF Counts
  <1>7. /\ b0 + k <= b1 /\ b0 <= d0 /\ d0 + (y - x) <= d1 /\ d0 <= d1
        /\ b0 \in Nat /\ b1 \in Nat /\ d0 \in Nat /\ d1 \in Nat
    BY <1>6
  <1>8. s0 \in Int /\ s1 \in Int
    <2>1. Cardinality(DOMAIN live) \in Nat /\ Cardinality(DOMAIN live') \in Nat
      BY FS_CardinalityType DEF SinkInv
    <2>2. Gap \in Int /\ (Gap \in Int)'
      BY GapType, PTL
    <2> QED
      BY <1>4, <2>1, <2>2 DEF Shortfall
  <1>9. ASSUME BlockSize + d1 < Word PROVE UsedInv' /\ s1 <= b1
    <2>1. BlockSize + d0 < Word /\ BlockSize + d0 + (y - x) < Word
      <3>1. BlockSize \in Nat /\ Word \in Nat
        BY BlockAssumption, WordAssumption
      <3>2. y - x \in Nat
        BY <1>6
      <3> QED
        BY <1>7, <1>9, <3>1, <3>2, WordLeft
    <2>2. UsedInv /\ s0 <= b0
      BY <1>4, <2>1 DEF SinkInv
    <2>3. s0 <= d0
      BY <1>7, <1>8, <2>2
    <2>4. UsedInv' /\ s1 <= s0 + k
      BY <1>4, <1>7, <2>1, <2>2, <2>3
    <2> QED
      BY <1>7, <1>8, <2>2, <2>4
  <1> QED
    BY <1>4, <1>9 DEF SinkInv, Counts

LEMMA AskedGrows ==
    ASSUME OwnInv, SinkInv, Counts, again' \in Nat, NEW j \in Nat, Asked + j <= Asked', NEW x \in Nat
    PROVE  32 * Asked + x + 32 * j <= 32 * Asked' + x
  <1>1. lines \in Nat /\ calls \in Nat /\ again \in Nat
    BY DEF SinkInv, OwnInv, Ownership
  <1>2. (lines \in Nat)' /\ (calls \in Nat)' /\ (again \in Nat)'
    BY DEF Counts
  <1>3. Asked \in Nat /\ (Asked \in Nat)'
    BY <1>1, <1>2, BoundDrift, PTL
  <1>4. PICK a0, a1 : a0 = Asked /\ a1 = Asked'
    OBVIOUS
  <1>5. a0 \in Nat /\ a1 \in Nat /\ a0 + j <= a1
    BY <1>3, <1>4
  <1>6. 32 * a0 + x + 32 * j <= 32 * a1 + x
    BY <1>5
  <1> QED
    BY <1>4, <1>6

LEMMA AgainType ==
    ASSUME OwnInv, SinkInv
    PROVE  again \in Nat /\ again * BlockSize \in Nat
  BY BoundDrift DEF OwnInv, Ownership, SinkInv

\* The kinds of steps: without the heap, a malloc, a free, and the second free.
LEMMA QuietSinks ==
    ASSUME HeapInv, OwnInv, SinkInv, UNCHANGED vars, again' = again, Counts, Asked <= Asked'
    PROVE  SinkInv'
  <1>1. live' = live /\ hdrs' = hdrs /\ used' = used /\ HeapInv' /\ IsFiniteSet(DOMAIN live')
    BY HeapStutters DEF vars, SinkInv
  <1>2. Shortfall' = Shortfall /\ (UsedInv' <=> UsedInv)
    BY <1>1 DEF Shortfall, Gap, UsedInv
  <1>3. Shortfall \in Int
    BY GapType, FS_CardinalityType DEF Shortfall, SinkInv
  <1>4. Shortfall' <= Shortfall + 0
    BY <1>2, <1>3
  <1>5. PICK x : x = again * BlockSize
    OBVIOUS
  <1>6. x \in Nat /\ x = again' * BlockSize /\ x <= x /\ again' \in Nat
    BY <1>5, AgainType
  <1>7. Asked + 0 <= Asked'
    <2>1. Asked \in Nat
      BY BoundDrift DEF OwnInv, Ownership, SinkInv
    <2> QED
      BY <2>1
  <1>8. 32 * Asked + x + 0 <= 32 * Asked' + x
    <2>1. 32 * Asked + x + 32 * 0 <= 32 * Asked' + x
      BY <1>6, <1>7, AskedGrows
    <2> QED
      BY <2>1
  <1> QED
    BY <1>1, <1>2, <1>4, <1>5, <1>6, <1>8, SinkFrom

LEMMA AllocSinks ==
    ASSUME HeapInv, OwnInv, SinkInv, NEW size \in Nat, Alloc(size), again' = again, Counts,
           Asked + 1 <= Asked'
    PROVE  SinkInv'
  <1>1. PICK x : x = again * BlockSize
    OBVIOUS
  <1>2. x \in Nat /\ x = again' * BlockSize /\ x <= x /\ again' \in Nat
    BY <1>1, AgainType
  <1>3. Asked \in Nat /\ (Asked \in Nat)'
    <2>1. lines \in Nat /\ calls \in Nat /\ again \in Nat
      BY DEF SinkInv, OwnInv, Ownership
    <2>2. (lines \in Nat)' /\ (calls \in Nat)' /\ (again \in Nat)'
      BY <1>2 DEF Counts
    <2> QED
      BY <2>1, <2>2, BoundDrift, PTL
  <1>4. CASE Malloc(size)
    <2>1. HeapInv'
      BY <1>4, MallocInv
    <2>2. IsFiniteSet(DOMAIN live')
      <3>1. DOMAIN live' = DOMAIN live \cup {Got}
        BY <1>4, MallocGot
      <3> QED
        BY <3>1, FS_AddElement DEF SinkInv
    <2>3. UsedInv => UsedInv' /\ Shortfall' <= Shortfall + 32
      BY <1>4, MallocSinks DEF SinkInv
    <2>4. 32 * Asked + x + 32 <= 32 * Asked' + x
      <3>1. 32 * Asked + x + 32 * 1 <= 32 * Asked' + x
        BY <1>2, AskedGrows
      <3> QED
        BY <3>1
    <2> QED
      BY <1>1, <1>2, <2>1, <2>2, <2>3, <2>4, SinkFrom
  <1>5. CASE MallocFails(size)
    <2>1. UNCHANGED vars
      BY <1>5 DEF MallocFails
    <2>2. Asked <= Asked'
      <3>1. PICK a0, a1 : a0 = Asked /\ a1 = Asked'
        OBVIOUS
      <3>2. a0 <= a1
        BY <1>3, <3>1
      <3> QED
        BY <3>1, <3>2
    <2> QED
      BY <2>1, <2>2, QuietSinks
  <1> QED
    BY <1>4, <1>5 DEF Alloc

LEMMA FreeSinksStep ==
    ASSUME HeapInv, OwnInv, SinkInv, NEW p \in DOMAIN live, Free(p), again' = again, Counts,
           Asked' = Asked
    PROVE  SinkInv'
  <1>1. PICK x : x = again * BlockSize
    OBVIOUS
  <1>2. x \in Nat /\ x = again' * BlockSize /\ x <= x /\ again' \in Nat
    BY <1>1, AgainType
  <1>3. HeapInv' /\ DOMAIN live' = DOMAIN live \ {p}
    BY FreeInv
  <1>4. IsFiniteSet(DOMAIN live')
    BY <1>3, FS_RemoveElement DEF SinkInv
  <1>5. Shortfall \in Int
    BY GapType, FS_CardinalityType DEF Shortfall, SinkInv
  <1>6. ASSUME NEW d \in Nat, UsedInv, Shortfall <= d, BlockSize + d + (x - x) < Word
        PROVE  UsedInv' /\ Shortfall' <= Shortfall + 0
    <2>1. BlockSize + d < Word
      BY <1>2, <1>6, BlockAssumption, WordAssumption
    <2>2. UsedInv' /\ Shortfall' <= Shortfall
      BY <1>6, <2>1, FreeSinks DEF SinkInv
    <2> QED
      BY <1>5, <2>2
  <1>7. 32 * Asked + x + 0 <= 32 * Asked' + x
    <2>1. Asked \in Nat
      BY BoundDrift DEF OwnInv, Ownership, SinkInv
    <2> QED
      BY <1>2, <2>1
  <1> QED
    BY <1>1, <1>2, <1>3, <1>4, <1>6, <1>7, SinkFrom

LEMMA AgainSinksStep ==
    ASSUME HeapInv, OwnInv, SinkInv, CatAgain, Counts, Asked' = Asked
    PROVE  SinkInv'
  <1>1. pc = "catagain" /\ FreeAgain(buf) /\ again' = again + 1
    BY DEF CatAgain, At
  <1>2. PICK x : x = again * BlockSize
    OBVIOUS
  <1>3. again \in Nat /\ x \in Nat /\ BlockSize \in Nat
    BY <1>2, AgainType, BlockAssumption
  <1>4. PICK y : y = x + BlockSize
    OBVIOUS
  <1>5. y = again' * BlockSize /\ again' \in Nat
    BY <1>1, <1>2, <1>3, <1>4
  <1>6. HeapInv' /\ live' = live
    BY <1>1, FreeAgainFacts DEF OwnInv, Ownership
  <1>7. y \in Nat /\ x <= y /\ y - x = BlockSize
    <2>1. y \in Nat
      BY <1>3, <1>4
    <2>2. x <= y /\ y - x = BlockSize
      BY <1>3, <1>4, <2>1
    <2> QED
      BY <2>1, <2>2
  <1>8. ASSUME NEW d \in Nat, UsedInv, Shortfall <= d, BlockSize + d + (y - x) < Word
        PROVE  UsedInv' /\ Shortfall' <= Shortfall + BlockSize
    <2>1. BlockSize + d + BlockSize < Word
      BY <1>7, <1>8
    <2> QED
      BY <1>1, <1>8, <2>1, AgainSinks DEF SinkInv
  <1>9. 32 * Asked + x + BlockSize <= 32 * Asked' + y
    <2>1. Asked \in Nat
      BY BoundDrift DEF OwnInv, Ownership, SinkInv
    <2> QED
      BY <1>3, <1>4, <2>1
  <1> QED
    BY <1>2, <1>3, <1>5, <1>6, <1>7, <1>8, <1>9, SinkFrom DEF SinkInv

LEMMA BootSinks ==
    ASSUME HeapInv, OwnInv, SinkInv, Boot
    PROVE  SinkInv'
  <1>1. lines \in Nat /\ calls \in Nat
    BY DEF SinkInv
  <1>2. UNCHANGED <<lines, calls, again>>
    BY DEF Boot, ReadBuffer, NewATA, ShellFname, LoadShell, UnloadShell, ShellBuf, AllocCmd,
           AllocTbuf, Keep, typing
  <1>3. Counts
    BY <1>1, <1>2 DEF Counts
  <1>4. ASSUME NEW size \in Nat, Malloc(size), Asked + 1 <= Asked' PROVE SinkInv'
    BY <1>2, <1>3, <1>4, AllocSinks DEF Alloc
  <1>5. CASE ReadBuffer \/ LoadShell
    <2>1. Malloc(BufferSize) /\ BufferSize \in Nat
      BY <1>5, RoomNumbers DEF ReadBuffer, LoadShell, Keep
    <2>2. Asked + 1 <= Asked'
      BY <1>1, <1>2, <1>5 DEF ReadBuffer, LoadShell, Keep, Asked
    <2> QED
      BY <1>4, <2>1, <2>2
  <1>6. CASE NewATA \/ ShellFname
    <2>1. Malloc(20) \/ Malloc(128)
      BY <1>6 DEF NewATA, ShellFname, Keep, ATA, FNAME
    <2>2. Asked + 1 <= Asked'
      BY <1>1, <1>2, <1>6 DEF NewATA, ShellFname, Keep, Asked
    <2> QED
      BY <1>4, <2>1, <2>2
  <1>7. CASE ShellBuf
    <2>1. Malloc(ShellSize) /\ ShellSize \in Nat
      BY <1>7, RoomNumbers DEF ShellBuf, Keep
    <2>2. Asked + 1 <= Asked'
      BY <1>1, <1>2, <1>7 DEF ShellBuf, Keep, Asked
    <2> QED
      BY <1>4, <2>1, <2>2
  <1>8. CASE AllocCmd \/ AllocTbuf
    <2>1. Malloc(InputSize) /\ InputSize \in Nat
      BY <1>8, RoomNumbers DEF AllocCmd, AllocTbuf, Keep
    <2>2. Asked + 1 <= Asked'
      BY <1>1, <1>2, <1>8 DEF AllocCmd, AllocTbuf, Keep, Asked
    <2> QED
      BY <1>4, <2>1, <2>2
  <1>9. CASE UnloadShell
    <2>1. pc = "unload" /\ FreePtr(buf, "save")
      BY <1>9 DEF UnloadShell
    <2>2. buf # 0 /\ buf \in DOMAIN live
      BY <2>1 DEF OwnInv, Ownership
    <2>3. pc' = "save" /\ Free(buf)
      BY <2>1, <2>2 DEF FreePtr
    <2>4. Asked' = Asked
      BY <2>1, <2>3 DEF Asked
    <2> QED
      BY <1>2, <1>3, <2>2, <2>3, <2>4, FreeSinksStep
  <1> QED
    BY <1>5, <1>6, <1>7, <1>8, <1>9 DEF Boot

\* The free of a pointer that may be 0.
LEMMA FreePtrSinks ==
    ASSUME HeapInv, OwnInv, SinkInv, NEW p, p # 0 => p \in DOMAIN live,
           NEW to \in {"prompt", "program", "catagain"}, FreePtr(p, to),
           pc \in {"return", "catfails", "catends", "readends"},
           UNCHANGED <<lines, calls, again>>
    PROVE  SinkInv'
  <1>1. lines \in Nat /\ calls \in Nat
    BY DEF SinkInv
  <1>2. Counts
    BY <1>1 DEF Counts
  <1>3. pc' \in {to, "hung"}
    BY DEF FreePtr
  <1>4. Asked' = Asked /\ Asked \in Nat
    <2>1. Asked = 7 + lines + 2 * calls
      BY DEF Asked
    <2>2. Asked' = 7 + lines' + 2 * calls'
      BY <1>3 DEF Asked
    <2> QED
      BY <1>1, <2>1, <2>2
  <1>5. CASE p = 0
    <2>1. UNCHANGED vars
      BY <1>5 DEF FreePtr
    <2>2. Asked <= Asked'
      BY <1>4
    <2> QED
      BY <1>2, <2>1, <2>2, QuietSinks
  <1>6. CASE p # 0
    <2>1. p \in DOMAIN live /\ Free(p)
      BY <1>6 DEF FreePtr
    <2> QED
      BY <1>2, <1>4, <2>1, FreeSinksStep
  <1> QED
    BY <1>5, <1>6

LEMMA StepSink ==
    HeapInv /\ TextInv /\ OwnInv /\ SinkInv /\ [FirstNext]_<<vars, shellVars>> => SinkInv'
  <1> SUFFICES ASSUME HeapInv, TextInv, OwnInv, SinkInv, [FirstNext]_<<vars, shellVars>>
               PROVE  SinkInv'
    OBVIOUS
  <1>1. lines \in Nat /\ calls \in Nat
    BY DEF SinkInv
  <1>2. CASE Boot
    BY <1>2, BootSinks
  <1>3. ASSUME NEW l \in Lines, GetString(l) PROVE SinkInv'
    <2>1. /\ pc = "prompt" /\ pc' = "execute" /\ lines' = lines + 1
          /\ UNCHANGED <<vars, again, calls>>
      BY <1>3 DEF GetString
    <2>2. Counts /\ Asked <= Asked'
      BY <1>1, <2>1 DEF Counts, Asked
    <2> QED
      BY <2>1, <2>2, QuietSinks
  <1>4. CASE Execute \/ ExecInitrd
    <2>1. /\ \/ pc = "execute" /\ pc' = "name"
             \/ pc = "exec" /\ pc' \in {"program", "return"}
          /\ UNCHANGED <<vars, again, calls, lines>>
      BY <1>4 DEF Execute, ExecInitrd, typing
    <2>2. Counts /\ Asked <= Asked'
      BY <1>1, <2>1 DEF Counts, Asked
    <2> QED
      BY <2>1, <2>2, QuietSinks
  <1>5. CASE MakeName
    <2>1. /\ pc = "name" /\ pc' = "exec" /\ Alloc(NameSize(name)) /\ UNCHANGED <<again, calls, lines>>
      BY <1>5 DEF MakeName, typing
    <2>2. Counts /\ Asked + 1 <= Asked'
      BY <1>1, <2>1 DEF Counts, Asked
    <2>3. PICK size \in Nat : size = NameSize(name)
      BY DEF TextInv, NameSize, BIN_EXT
    <2> QED
      BY <2>1, <2>2, <2>3, AllocSinks
  <1>6. CASE FreeName
    <2>1. pc = "return" /\ FreePtr(bin_name, "prompt") /\ UNCHANGED <<lines, calls, again>>
      BY <1>6 DEF FreeName, typing
    <2>2. bin_name # 0 => bin_name \in DOMAIN live
      BY DEF OwnInv, Ownership
    <2> QED
      BY <2>1, <2>2, FreePtrSinks
  <1>7. ASSUME NEW size \in Sizes, ProgramMalloc(size) PROVE SinkInv'
    <2>1. /\ pc = "program" /\ pc' = "program" /\ Alloc(size) /\ calls' = calls + 1
          /\ UNCHANGED <<again, lines>> /\ size \in Nat
      BY <1>7, SizesAssumption DEF ProgramMalloc, Asks, Step, At, typing
    <2>2. Counts /\ Asked + 1 <= Asked'
      BY <1>1, <2>1 DEF Counts, Asked
    <2> QED
      BY <2>1, <2>2, AllocSinks
  <1>8. CASE ProgramFree
    <2>1. /\ pc = "program" /\ pc' = "program" /\ Free(Head(held)) /\ UNCHANGED <<again, lines, calls>>
      BY <1>8 DEF ProgramFree, Step, At, typing
    <2>2. Head(held) \in DOMAIN live
      BY <1>8, FreeHeadOwns
    <2>3. Counts /\ Asked' = Asked
      BY <1>1, <2>1 DEF Counts, Asked
    <2> QED
      BY <2>1, <2>2, <2>3, FreeSinksStep
  <1>9. ASSUME NEW f, NEW to \in {"cat", "read"}, Open(f, to) PROVE SinkInv'
    <2>1. pc = "program" /\ calls' = calls + 1 /\ UNCHANGED <<again, lines>>
      BY <1>9 DEF Open, Asks, Step, At, typing
    <2>2. Counts
      BY <1>1, <2>1 DEF Counts
    <2>3. CASE Finds(f)
      <3>1. pc' = to /\ Alloc(BufferSize) /\ BufferSize \in Nat
        BY <1>9, <2>3, RoomNumbers DEF Open, Asks, Step
      <3>2. Asked + 1 <= Asked'
        BY <1>1, <2>1, <3>1 DEF Asked
      <3> QED
        BY <2>1, <2>2, <3>1, <3>2, AllocSinks
    <2>4. CASE ~Finds(f)
      <3>1. pc' = "program" /\ UNCHANGED vars
        BY <1>9, <2>4 DEF Open, Asks, Step
      <3>2. Asked <= Asked'
        BY <1>1, <2>1, <3>1 DEF Asked
      <3> QED
        BY <2>1, <2>2, <3>1, <3>2, QuietSinks
    <2> QED
      BY <2>3, <2>4
  <1>10. CASE CatReads \/ ReadReads
    <2>1. /\ \/ pc = "cat" /\ pc' \in {"catfails", "catends"}
             \/ pc = "read" /\ pc' \in {"readends", "copy"}
          /\ UNCHANGED <<vars, again, calls, lines>>
      BY <1>10 DEF CatReads, ReadReads, Reads, Step, At, typing
    <2>2. Counts /\ Asked <= Asked'
      BY <1>1, <2>1 DEF Counts, Asked
    <2> QED
      BY <2>1, <2>2, QuietSinks
  <1>11. CASE ProgramReturns \/ Ls \/ LsEntry \/ LsEnds
    <2>1. /\ pc \in {"program", "ls"} /\ pc' \in {"program", "ls", "return"}
          /\ calls' \in {calls, calls + 1} /\ UNCHANGED <<vars, again, lines>>
      BY <1>11 DEF ProgramReturns, Ls, LsEntry, LsEnds, Asks, Step, At, typing
    <2>2. Counts /\ Asked <= Asked'
      BY <1>1, <2>1 DEF Counts, Asked
    <2> QED
      BY <2>1, <2>2, QuietSinks
  <1>12. CASE Copy
    <2>1. /\ pc = "copy" /\ pc' = "readends" /\ Alloc(ReadFs(file, BufferSize))
          /\ UNCHANGED <<again, calls, lines>>
      BY <1>12 DEF Copy, Step, At, typing
    <2>2. Counts /\ Asked + 1 <= Asked'
      BY <1>1, <2>1 DEF Counts, Asked
    <2>3. PICK size \in Nat : size = ReadFs(file, BufferSize)
      BY ReadFits
    <2> QED
      BY <2>1, <2>2, <2>3, AllocSinks
  <1>13. CASE CatFails \/ CatEnds \/ ReadEnds
    <2>1. /\ pc \in {"catfails", "catends", "readends"}
          /\ FreePtr(buf, "program") \/ FreePtr(buf, "catagain")
          /\ UNCHANGED <<lines, calls, again>>
      BY <1>13 DEF CatFails, CatEnds, ReadEnds, Ends, At, typing
    <2>2. buf # 0 => buf \in DOMAIN live
      BY <2>1 DEF OwnInv, Ownership
    <2> QED
      BY <2>1, <2>2, FreePtrSinks
  <1>14. CASE CatAgain
    <2>1. pc = "catagain" /\ pc' = "program" /\ UNCHANGED <<lines, calls>>
      BY <1>14 DEF CatAgain, Ends, At, typing
    <2>2. Counts /\ Asked' = Asked
      BY <1>1, <2>1 DEF Counts, Asked
    <2> QED
      BY <1>14, <2>2, AgainSinksStep
  <1>15. CASE UNCHANGED <<vars, shellVars>>
    <2>1. UNCHANGED <<vars, pc, lines, calls, again>>
      BY <1>15 DEF shellVars, typing
    <2>2. Counts /\ Asked <= Asked'
      BY <1>1, <2>1 DEF Counts, Asked
    <2> QED
      BY <2>1, <2>2, QuietSinks
  <1> QED
    BY <1>2, <1>3, <1>4, <1>5, <1>6, <1>7, <1>8, <1>9, <1>10, <1>11, <1>12, <1>13, <1>14, <1>15
       DEF FirstNext, Program, Cat, Read

\* At first the four headers are in use, and hb->used is 0.
LEMMA InitSink == ShellInit => SinkInv
  <1> SUFFICES ASSUME ShellInit PROVE SinkInv
    OBVIOUS
  <1>1. /\ pc = "boot" /\ lines = 0 /\ calls = 0 /\ again = 0 /\ used = 0 /\ DOMAIN live = {}
    BY DEF ShellInit, Init
  <1>2. PICK p \in FirstPrev : hdrs = AddBlock(p)
    BY DEF ShellInit, Init
  <1>3. /\ BlockSize \in Nat /\ First = 20 /\ HDR = 8 /\ LastEnd = BlockSize - 24
        /\ Phantoms = {LastEnd, LastEnd + 8, LastEnd + 16}
    BY BlockAssumption DEF First, BLKHDR, HDR, LastEnd, SLACK, Phantoms
  <1>4. \A h \in DOMAIN hdrs : h \in {20, LastEnd, LastEnd + 8, LastEnd + 16} /\ ~hdrs[h].taken
    BY <1>2, <1>3 DEF AddBlock, Hdr
  <1>5. \A h \in DOMAIN hdrs : Top(hdrs, h) = h + 8
    BY <1>3, <1>4 DEF Top
  <1> DEFINE C == 20 .. 27
             R == LastEnd .. LastEnd + 23
  <1>6. Busy(hdrs) \subseteq C \cup R
    <2> SUFFICES ASSUME NEW x \in First .. BlockSize - 1, NEW h \in DOMAIN hdrs, h <= x, x < Top(hdrs, h)
                 PROVE  x \in C \cup R
      BY DEF Busy, Covers
    <2>1. h \in {20, LastEnd, LastEnd + 8, LastEnd + 16} /\ x < h + 8 /\ x \in Int
      BY <1>3, <1>4, <1>5
    <2> QED
      BY <1>3, <2>1
  <1>7. /\ IsFiniteSet(C) /\ Cardinality(C) = 8
        /\ IsFiniteSet(R) /\ Cardinality(R) = 24
    <2>1. \A a, b \in Int : b >= a => IsFiniteSet(a .. b) /\ Cardinality(a .. b) = b - a + 1
      BY FS_Interval
    <2>2. LastEnd \in Int /\ LastEnd + 23 \in Int /\ LastEnd + 23 >= LastEnd
      BY <1>3
    <2>3. LastEnd + 23 - LastEnd + 1 = 24
      BY <2>2
    <2>4. IsFiniteSet(R) /\ Cardinality(R) = 24
      BY <2>1, <2>2, <2>3
    <2>5. 27 >= 20 /\ 27 - 20 + 1 = 8 /\ 27 \in Int /\ 20 \in Int
      OBVIOUS
    <2>6. IsFiniteSet(C) /\ Cardinality(C) = 27 - 20 + 1
      BY <2>1, <2>5
    <2> QED
      BY <2>4, <2>5, <2>6
  <1>8. Cardinality(Busy(hdrs)) <= 32 /\ Cardinality(Busy(hdrs)) \in Nat
    <2>1. Cardinality(Busy(hdrs)) <= Cardinality(C) + Cardinality(R)
      BY <1>6, <1>7, BusyFinite, Shrinks
    <2> HIDE DEF C, R
    <2> QED
      BY <1>7, <2>1, BusyFinite
  <1>9. Level(used) = 0
    BY <1>1, <1>3 DEF Level
  <1>10. UsedInv
    BY <1>8, <1>9 DEF UsedInv
  <1>11. IsFiniteSet(DOMAIN live) /\ Cardinality(DOMAIN live) = 0
    BY <1>1, FS_EmptySet
  <1>12. Gap <= 32 /\ Gap \in Int
    BY <1>8, <1>9 DEF Gap
  <1>13. Shortfall <= 32 /\ Shortfall \in Int
    BY <1>11, <1>12 DEF Shortfall
  <1>14. Bound = 32
    BY <1>1, <1>3 DEF Bound, Asked
  <1> QED
    BY <1>1, <1>10, <1>11, <1>13, <1>14 DEF SinkInv

\* bin_file_exec has its buffer.
NamedInv == BlockSize + Drift < Word => (pc \in Named => bin_name # 0)

\* It gets it, since a chunk is free and the test on hb->used lets the request pass.
LEMMA NameGot ==
    ASSUME HeapInv, TextInv, OwnInv, RoomInv, SinkInv, BlockSize + Drift < Word, MakeName
    PROVE  bin_name' # 0
  <1>1. pc = "name" /\ Alloc(NameSize(name)) /\ bin_name' = Got
    BY DEF MakeName
  <1>2. PICK size : size = NameSize(name)
    OBVIOUS
  <1>3. size \in Nat /\ size <= BufferSize
    <2>1. Len(name) \in Nat /\ Len(name) < InputSize
      BY DEF TextInv, RoomInv
    <2> QED
      BY <1>2, <2>1, RoomNumbers DEF NameSize, BIN_EXT
  <1>4. Reserved
    BY <1>1 DEF RoomInv, ReserveInv
  <1>5. FreeFits(size) # {}
    BY <1>1, <1>3, <1>4, ReserveFits
  <1>6. EnoughLeft(size)
    BY <1>3, <1>5, Passes DEF SinkInv
  <1>7. Malloc(size)
    BY <1>1, <1>2, <1>5, <1>6 DEF Alloc, MallocFails
  <1>8. Got # 0
    BY <1>3, <1>7, MallocGot
  <1> QED
    BY <1>1, <1>8

LEMMA TimesGrows ==
    ASSUME NEW a \in Nat, NEW b \in Nat, NEW c \in Nat, a <= b
    PROVE  a * c <= b * c
  <1>1. PICK j \in Nat : b = a + j
    <2>1. b - a \in Nat /\ b = a + (b - a)
      OBVIOUS
    <2> QED
      BY <2>1
  <1>2. b * c = a * c + j * c /\ j * c \in Nat /\ a * c \in Nat
    BY <1>1
  <1> QED
    BY <1>2

LEMMA DriftGrows ==
    ASSUME lines \in Nat, calls \in Nat, again \in Nat, Counts, again' \in Nat, again <= again',
           BlockSize + Drift' < Word
    PROVE  BlockSize + Drift < Word
  <1>1. /\ again * BlockSize \in Nat
        /\ Drift = 32 * (8 + lines + 2 * calls) + again * BlockSize
    BY BoundDrift
  <1>2. /\ again' * BlockSize \in Nat
        /\ Drift' = 32 * (8 + lines' + 2 * calls') + again' * BlockSize
    <2>1. (lines \in Nat)' /\ (calls \in Nat)' /\ (again \in Nat)'
      BY DEF Counts
    <2>2. (again * BlockSize \in Nat)'
          /\ (Drift = 32 * (8 + lines + 2 * calls) + again * BlockSize)'
      BY <2>1, BoundDrift, PTL
    <2> QED
      BY <2>2
  <1>3. again * BlockSize <= again' * BlockSize
    BY BlockAssumption, TimesGrows
  <1>4. PICK x, y, l0, l1, c0, c1, d0, d1 :
          /\ x = again * BlockSize /\ y = again' * BlockSize /\ l0 = lines /\ l1 = lines'
          /\ c0 = calls /\ c1 = calls' /\ d0 = Drift /\ d1 = Drift'
    OBVIOUS
  <1>5. /\ x \in Nat /\ y \in Nat /\ l0 \in Nat /\ l1 \in Nat /\ c0 \in Nat /\ c1 \in Nat
        /\ x <= y /\ l0 <= l1 /\ c0 <= c1
        /\ d0 = 32 * (8 + l0 + 2 * c0) + x /\ d1 = 32 * (8 + l1 + 2 * c1) + y
    BY <1>1, <1>2, <1>3, <1>4 DEF Counts
  <1>6. d0 \in Nat /\ d1 \in Nat /\ d0 + 0 <= d1
    BY <1>5
  <1>7. BlockSize \in Nat /\ Word \in Nat /\ 0 \in Nat
    BY BlockAssumption, WordAssumption
  <1>8. BlockSize + d1 < Word
    BY <1>4
  <1>9. BlockSize + d0 < Word
    BY <1>6, <1>7, <1>8, WordLeft
  <1> QED
    BY <1>4, <1>9

LEMMA StepNamed ==
    /\ HeapInv /\ TextInv /\ OwnInv /\ RoomInv /\ SinkInv /\ NamedInv
    /\ [FirstNext]_<<vars, shellVars>>
    => NamedInv'
  <1> SUFFICES ASSUME HeapInv, TextInv, OwnInv, RoomInv, SinkInv, NamedInv,
                      [FirstNext]_<<vars, shellVars>>, BlockSize + Drift' < Word, pc' \in Named
               PROVE  bin_name' # 0
    BY DEF NamedInv
  <1>0. lines \in Nat /\ calls \in Nat /\ again \in Nat
    BY DEF SinkInv, OwnInv, Ownership
  <1>1. BlockSize + Drift < Word
    <2>1. lines' \in {lines, lines + 1} /\ calls' \in {calls, calls + 1} /\ again' \in {again, again + 1}
      <3>1. CASE Boot
        BY <3>1 DEF Boot, ReadBuffer, NewATA, ShellFname, LoadShell, UnloadShell, ShellBuf,
                    AllocCmd, AllocTbuf, Keep, typing
      <3>2. CASE (\E l \in Lines : GetString(l)) \/ Execute \/ MakeName \/ ExecInitrd \/ FreeName
        BY <3>2 DEF GetString, Execute, MakeName, ExecInitrd, FreeName, typing
      <3>3. CASE \E size \in Sizes : ProgramMalloc(size)
        BY <3>3 DEF ProgramMalloc, Asks, Step, At, typing
      <3>4. CASE \E f \in Files \cup {"mtp", "none"} : Cat(f) \/ Read(f)
        BY <3>4 DEF Cat, Read, Open, Asks, Step, At, typing
      <3>5. CASE \/ ProgramFree \/ ProgramReturns \/ Ls \/ LsEntry \/ LsEnds
                 \/ CatReads \/ ReadReads \/ Copy \/ CatFails \/ CatAgain \/ CatEnds \/ ReadEnds
        BY <3>5 DEF ProgramFree, ProgramReturns, Ls, LsEntry, LsEnds, Asks, Step, At, typing, Ends,
                    CatReads, ReadReads, Reads, Copy, CatFails, CatAgain, CatEnds, ReadEnds
      <3>6. CASE UNCHANGED <<vars, shellVars>>
        BY <3>6 DEF shellVars, typing
      <3> QED
        BY <3>1, <3>2, <3>3, <3>4, <3>5, <3>6 DEF FirstNext, Program
    <2>2. Counts /\ again' \in Nat /\ again <= again'
      BY <1>0, <2>1 DEF Counts
    <2> QED
      BY <1>0, <2>2, DriftGrows
  <1>2. ASSUME pc \in Named, bin_name' = bin_name PROVE bin_name' # 0
    BY <1>1, <1>2 DEF NamedInv
  <1>3. CASE Boot
    <2>1. pc' \in Booting \cup {"prompt"}
      <3>1. CASE UnloadShell
        <4>1. pc = "unload" /\ FreePtr(buf, "save")
          BY <3>1 DEF UnloadShell
        <4>2. buf # 0
          BY <4>1 DEF OwnInv, Ownership
        <4> QED
          BY <4>1, <4>2 DEF FreePtr, Booting
      <3> QED
        BY <1>3, <3>1 DEF Boot, ReadBuffer, NewATA, ShellFname, LoadShell, ShellBuf, AllocCmd,
                          AllocTbuf, Keep, Booting
    <2> QED
      BY <2>1 DEF Booting, Named, Running
  <1>4. CASE (\E l \in Lines : GetString(l)) \/ Execute
    BY <1>4 DEF GetString, Execute, Named, Running
  <1>5. CASE MakeName
    BY <1>1, <1>5, NameGot
  <1>6. CASE ExecInitrd
    BY <1>2, <1>6 DEF ExecInitrd, command, Named
  <1>7. CASE FreeName
    <2>1. pc = "return" /\ FreePtr(bin_name, "prompt")
      BY <1>7 DEF FreeName
    <2>2. bin_name # 0
      BY <1>1, <2>1 DEF NamedInv, Named
    <2> QED
      BY <2>1, <2>2 DEF FreePtr, Named, Running
  <1>8. CASE Program
    BY <1>2, <1>8, ProgramAt DEF At, command, Named
  <1>9. CASE UNCHANGED <<vars, shellVars>>
    BY <1>2, <1>9 DEF shellVars, command
  <1> QED
    BY <1>3, <1>4, <1>5, <1>6, <1>7, <1>8, <1>9 DEF FirstNext

\* At every prompt of the first shell there is a free chunk that is large enough for the
\* read buffer, although chunks are never merged backward, cat_initrd frees its buffer twice and
\* read_initrd frees its own before the chunk behind it.  As long as hb->used cannot have
\* come round, the test on it lets the request pass and bin_file_exec always gets the
\* buffer of its name, so that the shell's own free never stops the kernel
\* (owshell.c:36-40, initrd.h:121-128, 141-153, heap.h:164, 187).
THEOREM BufferAlwaysAvailable == ShellSpec => []BufferAvailable
  <1> DEFINE FirstInv == shells = 0 => RoomInv /\ SinkInv /\ NamedInv
  <1>1. ShellInit => FirstInv
    <2>1. ShellInit => NamedInv
      BY DEF ShellInit, NamedInv, Named, Running
    <2> QED
      BY <2>1, InitRoom, InitSink
  <1>2. ShellInv /\ FirstInv /\ [ShellNext]_<<vars, shellVars>> => FirstInv'
    <2> SUFFICES ASSUME ShellInv, FirstInv, [ShellNext]_<<vars, shellVars>>, shells' = 0
                 PROVE  RoomInv' /\ SinkInv' /\ NamedInv'
      OBVIOUS
    <2>1. HeapInv /\ TextInv /\ OwnInv
      BY DEF ShellInv
    <2>2. shells = 0 /\ [FirstNext]_<<vars, shellVars>>
      BY <2>1, FirstSteps
    <2> QED
      BY <2>1, <2>2, StepRoom, StepSink, StepNamed
  <1>3. ShellInv /\ FirstInv => BufferAvailable
    <2> SUFFICES ASSUME ShellInv, RoomInv, SinkInv, NamedInv, shells = 0 PROVE BufferAvailable
      BY DEF BufferAvailable
    <2>1. HeapInv /\ OwnInv /\ BufferSize \in Nat /\ BufferSize <= BufferSize
      BY RoomNumbers DEF ShellInv
    <2>2. pc = "prompt" => FreeFits(BufferSize) # {}
      BY <2>1, ReserveFits DEF RoomInv, ReserveInv
    <2>3. BlockSize + Drift < Word /\ pc = "prompt" => EnoughLeft(BufferSize)
      BY <2>1, <2>2, Passes DEF SinkInv
    <2>4. BlockSize + Drift < Word /\ pc \in {"exec", "return", "program", "hung"} => bin_name # 0
      BY DEF NamedInv, Named, Running
    <2> QED
      BY <2>2, <2>3, <2>4 DEF BufferAvailable
  <1> QED
    BY <1>1, <1>2, <1>3, ShellInvariance, PTL DEF ShellSpec
=============================================================================
