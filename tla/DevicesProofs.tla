--------------------------- MODULE DevicesProofs ----------------------------
(***************************************************************************)
(* Proofs about the ATA driver (src/io/ATA.h), for sectors of any number   *)
(* of words, and about the clock (src/io/cmos.h), for every time of the    *)
(* calendar and every number of seconds below a minute that pass during a  *)
(* call.                                                                   *)
(***************************************************************************)
EXTENDS Devices, SequenceTheorems, WellFoundedInduction, TLAPS

-----------------------------------------------------------------------------
(* The disk.  The invariant relates what the thread read last to what the  *)
(* drive has come to since: a drive that was busy may be anything now, one *)
(* that was not has stayed as it was.                                      *)

DiskSteps == {"none", "select", "first", "poll", "accept", "move", "flush", "flushing"}

\* The drive was given a command that moves words.
Waiting == /\ drive \in {"busy", "data", "error"} /\ command # "flush"
           /\ pending = (IF drive = "data" THEN Words ELSE 0) /\ moved = 0 /\ count = 0

\* Words are being moved, all of them have been, or read28 goes on behind an error.
Moving == \/ drive = "data" /\ count < Words /\ moved = count /\ pending = Words - count
          \/ drive = "ready" /\ count = Words /\ moved = Words /\ pending = 0
          \/ drive = "error" /\ diskCall = "read" /\ pending = 0

StepInv ==
    /\ step \in {"none", "select"} => drive \in {"ready", "error"}
    /\ step = "select" => moved = 0 /\ count = 0
    /\ step \in {"first", "poll", "accept"} => Waiting
    /\ step = "accept" => diskCall = "write" /\ ("DRQ" \in status => status = {"RDY", "DRQ"})
    /\ step = "poll" /\ ~Waits(status) /\ "ERR" \notin status => drive = "data"
    /\ step = "poll" /\ "ERR" \in status => drive = "error"
    /\ step \in {"poll", "first"} => diskCall # "write"
    /\ step = "accept" /\ "DRQ" \in status => drive = "data"
    /\ step = "move" => Moving
    /\ step \in {"flush", "flushing"} =>
         /\ diskCall = "write" /\ command = "flush" /\ moved = Words /\ count = Words
         /\ pending = 0 /\ drive \in {"busy", "ready", "error"}
    /\ step = "flushing" /\ ~Waits(status) => drive # "busy"

DiskInv ==
    /\ attached \in {"absent", "silent", "packet", "disk"}
    /\ DiskTypeOK /\ step \in DiskSteps
    /\ ~Present => drive = "ready" /\ pending = 0
    /\ Present => StepInv
    /\ step = "none" => (returned = "0" /\ drive # "error" /\ Present => moved = Words)

LEMMA StatusFacts ==
    ASSUME drive \in {"ready", "busy", "data", "error"}
    PROVE  /\ Status \subseteq AllBits
           /\ Present => /\ "BSY" \in Status <=> drive = "busy"
                         /\ "ERR" \in Status <=> drive = "error"
                         /\ "DRQ" \in Status <=> drive = "data"
                         /\ drive = "data" => Status = {"RDY", "DRQ"}
                         /\ Status # {} /\ Status # AllBits
  <1>1. CASE ~Present
    BY <1>1 DEF Status, AllBits
  <1>2. CASE Present
    <2>1. CASE drive = "ready"
      BY <1>2, <2>1 DEF Status, AllBits
    <2>2. CASE drive = "busy"
      BY <1>2, <2>2 DEF Status, AllBits
    <2>3. CASE drive = "data"
      BY <1>2, <2>3 DEF Status, AllBits
    <2>4. CASE drive = "error"
      BY <1>2, <2>4 DEF Status, AllBits
    <2> QED
      BY <2>1, <2>2, <2>3, <2>4
  <1> QED
    BY <1>1, <1>2

LEMMA InitDisk == DiskInit => DiskInv
  BY WordsAssumption, DrivesAssumption
     DEF DiskInit, DiskInv, DiskTypeOK, DiskSteps, StepInv, Present, AllBits

\* The drive, which moves on only when it is busy.
LEMMA DriveInv ==
    ASSUME DiskInv, Drive
    PROVE  DiskInv'
  <1> USE WordsAssumption DEF DiskInv, DiskTypeOK
  <1>1. /\ drive = "busy" /\ Present /\ UNCHANGED <<attached, command, threadVars>>
        /\ drive' \in {"ready", "data", "error"}
        /\ drive' = "ready" => command = "flush"
        /\ drive' = "data" => command # "flush" /\ pending' = Words
        /\ drive' # "data" => pending' = pending
    BY DEF Drive, Completes, Fails, Present
  <1>2. /\ UNCHANGED <<diskCall, step, status, count, moved, interrupts, returned>>
        /\ Present' = Present /\ Waits(status)' = Waits(status)
    BY <1>1 DEF threadVars, Present, Waits
  <1>3. StepInv
    BY <1>1
  <1>4. step \in {"first", "poll", "accept", "flush", "flushing"}
    BY <1>1, <1>3 DEF StepInv, DiskSteps, Moving
  <1>5. CASE step \in {"first", "poll", "accept"}
    <2>1. Waiting'
      BY <1>1, <1>2, <1>3, <1>5 DEF StepInv, Waiting
    <2>2. step = "poll" => Waits(status)
      BY <1>1, <1>3 DEF StepInv, Waits
    <2>3. step = "accept" => "DRQ" \notin status
      BY <1>1, <1>3 DEF StepInv
    <2>4. StepInv'
      BY <1>1, <1>2, <1>3, <1>5, <2>1, <2>2, <2>3 DEF StepInv, Waits
    <2> QED
      BY <1>1, <1>2, <1>4, <1>5, <2>4
  <1>6. CASE step \in {"flush", "flushing"}
    <2>1. StepInv'
      BY <1>1, <1>2, <1>3, <1>6 DEF StepInv
    <2> QED
      BY <1>1, <1>2, <1>3, <1>6, <2>1 DEF StepInv
  <1> QED
    BY <1>4, <1>5, <1>6

\* A call is entered, or refused.
LEMMA CallInv ==
    ASSUME DiskInv, DiskCalls
    PROVE  DiskInv'
  <1> USE WordsAssumption DEF DiskInv, DiskTypeOK
  <1>1. diskCall = "none" /\ step = "none" /\ UNCHANGED <<attached, drive, pending, command>>
        /\ Present' = Present
    BY DEF DiskCalls, Identify, Read28, Write28, BeyondRange, Call, DiskIdle, driveVars, Present
  <1>2. CASE BeyondRange
    BY <1>1, <1>2 DEF BeyondRange, StepInv
  <1>3. CASE Identify \/ Read28 \/ Write28
    <2>1. /\ diskCall' \in {"identify", "read", "write"} /\ step' = "select"
          /\ status' = {} /\ count' = 0 /\ moved' = 0 /\ interrupts' \in BOOLEAN
      BY <1>3 DEF Identify, Read28, Write28, Call
    <2> QED
      BY <1>1, <2>1 DEF StepInv, DiskSteps
  <1> QED
    BY <1>2, <1>3 DEF DiskCalls

\* The steps of a call.
LEMMA SelectInv ==
    ASSUME DiskInv, Select \/ FirstStatus
    PROVE  DiskInv'
  <1> USE WordsAssumption DEF DiskInv, DiskTypeOK
  <1>0. /\ Present' = Present /\ UNCHANGED <<attached, count, moved>> /\ interrupts' = interrupts
    BY DEF Select, FirstStatus, Return, Goto, Present
  <1>1. CASE Select
    <2>1. CASE Status = AllBits
      <3>1. ~Present
        BY <2>1, StatusFacts
      <3> QED
        BY <1>0, <1>1, <2>1, <3>1 DEF Select, Return, driveVars, DiskSteps
    <2>2. CASE Status # AllBits
      <3>1. /\ step = "select" /\ step' = IF diskCall = "write" THEN "accept" ELSE "first"
            /\ UNCHANGED <<diskCall, returned>>
            /\ command' = diskCall /\ pending' = 0 /\ status' = Status
            /\ drive' = IF Present THEN "busy" ELSE drive
        BY <1>1, <2>2 DEF Select, Goto, Command
      <3>2. Present => drive \in {"ready", "error"} /\ moved = 0 /\ count = 0
        BY <3>1 DEF StepInv
      <3>3. Present => "DRQ" \notin Status
        BY <3>2, StatusFacts
      <3>4. Present => StepInv'
        BY <1>0, <3>1, <3>2, <3>3 DEF StepInv, Waiting
      <3> QED
        BY <1>0, <3>1, <3>4, StatusFacts DEF DiskSteps
    <2> QED
      BY <2>1, <2>2
  <1>2. CASE FirstStatus
    <2>1. CASE diskCall = "identify" /\ Status = {}
      <3>1. ~Present
        BY <2>1, StatusFacts
      <3> QED
        BY <1>0, <1>2, <2>1, <3>1 DEF FirstStatus, Return, driveVars, DiskSteps
    <2>2. CASE ~(diskCall = "identify" /\ Status = {})
      <3>1. /\ step = "first" /\ step' = "poll" /\ status' = Status
            /\ UNCHANGED <<diskCall, returned, drive, pending, command>>
        BY <1>2, <2>2 DEF FirstStatus, Goto, driveVars
      <3>2. Present => StepInv'
        BY <1>0, <3>1, StatusFacts DEF StepInv, Waiting, Waits
      <3> QED
        BY <1>0, <3>1, <3>2, StatusFacts DEF DiskSteps
    <2> QED
      BY <2>1, <2>2
  <1> QED
    BY <1>1, <1>2

LEMMA WaitInv ==
    ASSUME DiskInv, Poll \/ Accept
    PROVE  DiskInv'
  <1> USE WordsAssumption DEF DiskInv, DiskTypeOK
  <1>0. /\ Present' = Present /\ UNCHANGED <<attached, count, moved, drive, pending, command>>
        /\ interrupts' = interrupts
    BY DEF Poll, Accept, Return, Goto, Present, driveVars
  <1>1. CASE Poll
    <2>1. step = "poll"
      BY <1>1 DEF Poll
    <2>2. CASE Waits(status)
      <3>1. step' = "poll" /\ status' = Status /\ UNCHANGED <<diskCall, returned>>
        BY <1>1, <2>2 DEF Poll, Goto
      <3>2. Present => StepInv'
        BY <1>0, <2>1, <3>1, StatusFacts DEF StepInv, Waiting, Waits
      <3> QED
        BY <1>0, <2>1, <3>1, <3>2, StatusFacts
    <2>3. CASE ~Waits(status) /\ diskCall = "identify" /\ "ERR" \in status
      <3>1. step' = "none" /\ diskCall' = "none" /\ returned' = "1" /\ status' = {}
        BY <1>1, <2>3 DEF Poll, Return
      <3>2. Present => drive = "error"
        BY <2>1, <2>3 DEF StepInv
      <3> QED
        BY <1>0, <3>1, <3>2 DEF StepInv, DiskSteps
    <2>4. CASE ~Waits(status) /\ ~(diskCall = "identify" /\ "ERR" \in status)
      <3>1. step' = "move" /\ UNCHANGED <<status, diskCall, returned>>
        BY <1>1, <2>4 DEF Poll, Goto
      <3>2. Present => Moving'
        BY <1>0, <2>1, <2>4, <3>1 DEF StepInv, Waiting, Moving
      <3> QED
        BY <1>0, <2>1, <3>1, <3>2 DEF StepInv, DiskSteps
    <2> QED
      BY <2>2, <2>3, <2>4
  <1>2. CASE Accept
    <2>1. step = "accept"
      BY <1>2 DEF Accept
    <2>2. CASE "BSY" \in status \/ "DRQ" \notin status
      <3>1. step' = "accept" /\ status' = Status /\ UNCHANGED <<diskCall, returned>>
        BY <1>2, <2>2 DEF Accept, Goto
      <3>2. Present => StepInv'
        BY <1>0, <2>1, <3>1, StatusFacts DEF StepInv, Waiting
      <3> QED
        BY <1>0, <2>1, <3>1, <3>2, StatusFacts
    <2>3. CASE ~("BSY" \in status \/ "DRQ" \notin status) /\ "ERR" \in status
      <3>1. step' = "none" /\ diskCall' = "none" /\ returned' = "2" /\ status' = {}
        BY <1>2, <2>3 DEF Accept, Return
      <3>2. ~Present
        BY <2>1, <2>3 DEF StepInv
      <3> QED
        BY <1>0, <3>1, <3>2 DEF DiskSteps
    <2>4. CASE ~("BSY" \in status \/ "DRQ" \notin status) /\ "ERR" \notin status
      <3>1. step' = "move" /\ UNCHANGED <<status, diskCall, returned>>
        BY <1>2, <2>4 DEF Accept, Goto
      <3>2. Present => Moving'
        BY <1>0, <2>1, <2>4, <3>1 DEF StepInv, Waiting, Moving
      <3> QED
        BY <1>0, <2>1, <3>1, <3>2 DEF StepInv, DiskSteps
    <2> QED
      BY <2>2, <2>3, <2>4
  <1> QED
    BY <1>1, <1>2

LEMMA MoveInv ==
    ASSUME DiskInv, Move
    PROVE  DiskInv'
  <1> USE WordsAssumption DEF DiskInv, DiskTypeOK
  <1>0. step = "move" /\ Present' = Present /\ UNCHANGED attached /\ interrupts' = interrupts
        /\ (Present => Moving)
    BY DEF Move, Return, Goto, Present, StepInv
  <1>1. CASE count < Words
    <2>1. /\ step' = "move" /\ UNCHANGED <<diskCall, returned, command, status>> /\ count' = count + 1
          /\ IF drive = "data"
             THEN /\ moved' = moved + 1 /\ pending' = pending - 1
                  /\ drive' = IF pending = 1 THEN "ready" ELSE "data"
             ELSE UNCHANGED <<moved, pending, drive>>
      BY <1>1 DEF Move, Goto, MovesWord
    <2>2. Present => Moving'
      BY <1>0, <1>1, <2>1 DEF Moving
    <2>3. ~Present => drive' = "ready" /\ pending' = 0 /\ moved' = moved
      BY <2>1
    <2>4. drive' \in {"ready", "busy", "data", "error"} /\ pending' \in 0 .. Words
          /\ count' \in 0 .. Words /\ moved' \in 0 .. count'
      BY <1>0, <1>1, <2>1, <2>3 DEF Moving
    <2> QED
      BY <1>0, <2>1, <2>2, <2>3, <2>4 DEF StepInv, DiskSteps
  <1>2. CASE ~(count < Words) /\ diskCall = "write"
    <2>1. /\ step' = "flush" /\ UNCHANGED <<diskCall, returned, status, count, moved>>
          /\ command' = "flush" /\ pending' = 0 /\ drive' = IF Present THEN "busy" ELSE drive
      BY <1>2 DEF Move, Goto, Command
    <2>2. Present => StepInv'
      BY <1>0, <1>2, <2>1 DEF StepInv, Moving
    <2> QED
      BY <1>0, <1>2, <2>1, <2>2 DEF DiskSteps
  <1>3. CASE ~(count < Words) /\ diskCall # "write"
    <2>1. /\ step' = "none" /\ diskCall' = "none" /\ returned' = "0" /\ status' = {}
          /\ UNCHANGED <<count, moved, drive, pending, command>>
      BY <1>3 DEF Move, Return, driveVars
    <2>2. Present => drive = "error" \/ (drive = "ready" /\ moved = Words)
      BY <1>0, <1>3 DEF Moving
    <2> QED
      BY <1>0, <2>1, <2>2 DEF StepInv, DiskSteps
  <1> QED
    BY <1>1, <1>2, <1>3

LEMMA FlushInv ==
    ASSUME DiskInv, Flush \/ Flushing
    PROVE  DiskInv'
  <1> USE WordsAssumption DEF DiskInv, DiskTypeOK
  <1>0. /\ Present' = Present /\ UNCHANGED <<attached, count, moved, drive, pending, command>>
        /\ interrupts' \in BOOLEAN
    BY DEF Flush, Flushing, Return, Goto, Present, driveVars
  <1>1. CASE Flush
    <2>1. CASE Status = {}
      <3>1. step' = "none" /\ diskCall' = "none" /\ returned' = "3" /\ status' = {}
        BY <1>1, <2>1 DEF Flush, Return
      <3>2. ~Present
        BY <2>1, StatusFacts
      <3> QED
        BY <1>0, <3>1, <3>2 DEF DiskSteps
    <2>2. CASE Status # {}
      <3>1. step = "flush" /\ step' = "flushing" /\ status' = Status /\ UNCHANGED <<diskCall, returned>>
        BY <1>1, <2>2 DEF Flush, Goto
      <3>2. Present => StepInv'
        BY <1>0, <3>1, StatusFacts DEF StepInv, Waits
      <3> QED
        BY <1>0, <3>1, <3>2, StatusFacts DEF DiskSteps
    <2> QED
      BY <2>1, <2>2
  <1>2. CASE Flushing
    <2>0. step = "flushing"
      BY <1>2 DEF Flushing
    <2>1. CASE Waits(status)
      <3>1. step' = "flushing" /\ status' = Status /\ UNCHANGED <<diskCall, returned>>
        BY <1>2, <2>1 DEF Flushing, Goto
      <3>2. Present => StepInv'
        BY <1>0, <2>0, <3>1, StatusFacts DEF StepInv, Waits
      <3> QED
        BY <1>0, <2>0, <3>1, <3>2, StatusFacts
    <2>2. CASE ~Waits(status)
      <3>1. step' = "none" /\ diskCall' = "none" /\ returned' = "0" /\ status' = {}
        BY <1>2, <2>2 DEF Flushing, Return
      <3>2. Present => drive \in {"ready", "error"} /\ moved = Words
        BY <2>0, <2>2 DEF StepInv
      <3> QED
        BY <1>0, <3>1, <3>2 DEF StepInv, DiskSteps
    <2> QED
      BY <2>1, <2>2
  <1> QED
    BY <1>1, <1>2

LEMMA DiskStep == DiskInv /\ [DiskNext]_diskVars => DiskInv'
  <1> SUFFICES ASSUME DiskInv, [DiskNext]_diskVars PROVE DiskInv'
    OBVIOUS
  <1>1. CASE UNCHANGED diskVars
    BY <1>1 DEF diskVars, driveVars, threadVars, DiskInv, DiskTypeOK, StepInv, Present, Waiting, Moving,
       Waits
  <1> QED
    BY <1>1, DriveInv, CallInv, SelectInv, WaitInv, MoveInv, FlushInv DEF DiskNext, DiskThread

-----------------------------------------------------------------------------
(* The clock.                                                              *)

\* A field below 80 survives its conversion to BCD, the read of the register and the
\* conversion back.
LEMMA BcdRoundTrip ==
    ASSUME NEW n \in 0 .. 99
    PROVE  /\ Stored(ToBcd(n)) \in Word /\ FromBcd(Stored(ToBcd(n))) \in Nat
           /\ n < 80 => FromBcd(Stored(ToBcd(n))) = n
  <1> DEFINE q == n \div 10
             r == n % 10
  <1>1. q \in 0 .. 9 /\ r \in 0 .. 9 /\ n = 10 * q + r
    OBVIOUS
  <1>2. ToBcd(n) = q * 16 + r
    BY DEF ToBcd
  <1> HIDE DEF q, r
  <1>3. (q * 16 + r) \div 16 = q /\ (q * 16 + r) % 16 = r
    BY <1>1
  <1>4. FromBcd(q * 16 + r) = q * 10 + r
    BY <1>3 DEF FromBcd
  <1> DEFINE z == q * 16 + r
  <1>5. z \in 0 .. 153 /\ (n < 80 => z < 128)
    BY <1>1
  <1>6. ToBcd(n) = z /\ FromBcd(z) = n
    BY <1>1, <1>2, <1>4
  <1> HIDE DEF z
  <1>7. Stored(z) \in Word /\ (n < 80 => Stored(z) = z)
    BY <1>5 DEF Stored, Word
  <1>8. ASSUME NEW v \in Word PROVE FromBcd(v) \in Nat
    BY DEF FromBcd, Word
  <1>9. FromBcd(Stored(z)) \in Nat
    BY <1>7, <1>8
  <1> QED
    BY <1>6, <1>7, <1>9

LEMMA MonthLengths ==
    ASSUME NEW mo, NEW y
    PROVE  MonthLength(mo, y) \in 28 .. 31
  <1>1. CASE mo \in {4, 6, 9, 11}
    BY <1>1 DEF MonthLength
  <1>2. CASE mo = 2
    BY <1>2 DEF MonthLength
  <1>3. CASE mo \notin {2, 4, 6, 9, 11}
    BY <1>3 DEF MonthLength
  <1> QED
    BY <1>1, <1>2, <1>3

LEMMA TimeFields ==
    ASSUME NEW t, Time(t)
    PROVE  \A i \in 1 .. 6 : t[i] \in 0 .. 99
  BY MonthLengths DEF Time

\* What the chip counts.
LEMMA AfterFields ==
    ASSUME NEW t, Time(t)
    PROVE  LET u   == After(t)
               ml  == MonthLength(t[5], t[6])
               day == t[1] # 59 \/ t[2] # 59 \/ t[3] # 23
           IN  /\ DOMAIN u = 1 .. 6
               /\ u[1] = IF t[1] = 59 THEN 0 ELSE t[1] + 1
               /\ u[2] = IF t[1] # 59 THEN t[2] ELSE IF t[2] = 59 THEN 0 ELSE t[2] + 1
               /\ u[3] = IF t[1] # 59 \/ t[2] # 59 THEN t[3] ELSE IF t[3] = 23 THEN 0 ELSE t[3] + 1
               /\ u[4] = IF day THEN t[4] ELSE IF t[4] = ml THEN 1 ELSE t[4] + 1
               /\ u[5] = IF day \/ t[4] # ml THEN t[5] ELSE IF t[5] = 12 THEN 1 ELSE t[5] + 1
               /\ u[6] = IF day \/ t[4] # ml \/ t[5] # 12 THEN t[6]
                         ELSE IF t[6] = 99 THEN 0 ELSE t[6] + 1
  <1> DEFINE u == After(t)
             ml == MonthLength(t[5], t[6])
             first == <<0, 0, 0, 1, 1, 0>>
             last  == <<59, 59, 23, ml, 12, 99>>
  <1>2. u = [i \in 1 .. 6 |-> IF \E j \in 1 .. i - 1 : t[j] # last[j] THEN t[i]
                              ELSE IF t[i] = last[i] THEN first[i] ELSE t[i] + 1]
    BY DEF After
  <1>3. last[1] = 59 /\ last[2] = 59 /\ last[3] = 23 /\ last[4] = ml /\ last[5] = 12 /\ last[6] = 99
    OBVIOUS
  <1>4. first[1] = 0 /\ first[2] = 0 /\ first[3] = 0 /\ first[4] = 1 /\ first[5] = 1 /\ first[6] = 0
    OBVIOUS
  <1> HIDE DEF u, ml, last, first
  <1>5. ASSUME NEW i \in 1 .. 6
        PROVE  u[i] = IF \E j \in 1 .. i - 1 : t[j] # last[j] THEN t[i]
                      ELSE IF t[i] = last[i] THEN first[i] ELSE t[i] + 1
    BY <1>2
  <1>6. /\ u[1] = IF t[1] = 59 THEN 0 ELSE t[1] + 1
        /\ u[2] = IF t[1] # 59 THEN t[2] ELSE IF t[2] = 59 THEN 0 ELSE t[2] + 1
    <2>1. ~\E j \in 1 .. 1 - 1 : t[j] # last[j]
      OBVIOUS
    <2>2. (\E j \in 1 .. 2 - 1 : t[j] # last[j]) <=> t[1] # 59
      BY <1>3
    <2> QED
      BY <1>3, <1>4, <1>5, <2>1, <2>2
  <1>7. u[3] = IF t[1] # 59 \/ t[2] # 59 THEN t[3] ELSE IF t[3] = 23 THEN 0 ELSE t[3] + 1
    <2>1. (\E j \in 1 .. 3 - 1 : t[j] # last[j]) <=> (t[1] # 59 \/ t[2] # 59)
      BY <1>3
    <2> QED
      BY <1>3, <1>4, <1>5, <2>1
  <1> DEFINE day == t[1] # 59 \/ t[2] # 59 \/ t[3] # 23
  <1>8. u[4] = IF day THEN t[4] ELSE IF t[4] = ml THEN 1 ELSE t[4] + 1
    <2>1. (\E j \in 1 .. 4 - 1 : t[j] # last[j]) <=> day
      BY <1>3
    <2> QED
      BY <1>3, <1>4, <1>5, <2>1
  <1>9. u[5] = IF day \/ t[4] # ml THEN t[5] ELSE IF t[5] = 12 THEN 1 ELSE t[5] + 1
    <2>1. (\E j \in 1 .. 5 - 1 : t[j] # last[j]) <=> (day \/ t[4] # ml)
      BY <1>3
    <2> QED
      BY <1>3, <1>4, <1>5, <2>1
  <1>10. u[6] = IF day \/ t[4] # ml \/ t[5] # 12 THEN t[6] ELSE IF t[6] = 99 THEN 0 ELSE t[6] + 1
    <2>1. (\E j \in 1 .. 6 - 1 : t[j] # last[j]) <=> (day \/ t[4] # ml \/ t[5] # 12)
      BY <1>3
    <2> QED
      BY <1>3, <1>4, <1>5, <2>1
  <1>11. DOMAIN u = 1 .. 6
    BY <1>2
  <1> QED
    BY <1>6, <1>7, <1>8, <1>9, <1>10, <1>11 DEF u, ml, day

\* The next second is a time of the calendar, and a minute begins only behind the
\* second 59.
LEMMA AfterTime ==
    ASSUME NEW t, Time(t)
    PROVE  /\ Time(After(t))
           /\ t[1] # 59 => After(t)[1] = t[1] + 1 /\ \A i \in 2 .. 6 : After(t)[i] = t[i]
           /\ t[1] = 59 => After(t)[1] = 0 /\ After(t)[2] # t[2]
  <1> DEFINE u == After(t)
             ml == MonthLength(t[5], t[6])
             day == t[1] # 59 \/ t[2] # 59 \/ t[3] # 23
  <1>0. ml \in 28 .. 31
    BY MonthLengths
  <1>1. /\ t[1] \in 0 .. 59 /\ t[2] \in 0 .. 59 /\ t[3] \in 0 .. 23
        /\ t[4] \in 1 .. ml /\ t[5] \in 1 .. 12 /\ t[6] \in 0 .. 99
    BY DEF Time
  <1>2. /\ DOMAIN u = 1 .. 6
        /\ u[1] = IF t[1] = 59 THEN 0 ELSE t[1] + 1
        /\ u[2] = IF t[1] # 59 THEN t[2] ELSE IF t[2] = 59 THEN 0 ELSE t[2] + 1
        /\ u[3] = IF t[1] # 59 \/ t[2] # 59 THEN t[3] ELSE IF t[3] = 23 THEN 0 ELSE t[3] + 1
        /\ u[4] = IF day THEN t[4] ELSE IF t[4] = ml THEN 1 ELSE t[4] + 1
        /\ u[5] = IF day \/ t[4] # ml THEN t[5] ELSE IF t[5] = 12 THEN 1 ELSE t[5] + 1
        /\ u[6] = IF day \/ t[4] # ml \/ t[5] # 12 THEN t[6] ELSE IF t[6] = 99 THEN 0 ELSE t[6] + 1
    BY AfterFields
  <1> HIDE DEF u, ml
  <1>3. /\ u[1] \in 0 .. 59 /\ u[2] \in 0 .. 59 /\ u[3] \in 0 .. 23
         /\ u[5] \in 1 .. 12 /\ u[6] \in 0 .. 99
    BY <1>1, <1>2
  <1>4. u[4] \in 1 .. MonthLength(u[5], u[6])
    <2>1. MonthLength(u[5], u[6]) \in 28 .. 31
      BY MonthLengths
    <2>2. CASE u[5] = t[5] /\ u[6] = t[6] /\ u[4] \in {1, t[4], t[4] + 1}
      <3>1. MonthLength(u[5], u[6]) = ml
        BY <2>2 DEF ml
      <3> QED
        BY <1>0, <1>1, <1>2, <2>2, <3>1
    <2>3. CASE u[4] = 1
      BY <2>1, <2>3
    <2> QED
      BY <1>1, <1>2, <2>2, <2>3
  <1>5. Time(u)
    BY <1>2, <1>3, <1>4 DEF Time
  <1>6. t[1] # 59 => u[1] = t[1] + 1 /\ \A i \in 2 .. 6 : u[i] = t[i]
    BY <1>2
  <1>7. t[1] = 59 => u[1] = 0 /\ u[2] # t[2]
    BY <1>1, <1>2
  <1> QED
    BY <1>5, <1>6, <1>7 DEF u

-----------------------------------------------------------------------------
(* The arithmetic of now().  The loop over the years comes to a closed     *)
(* form, and the months follow each other without a gap.                   *)

LEMMA LeastOf ==
    ASSUME NEW S, S \subseteq Nat, S # {}
    PROVE  \E n \in S : \A k \in S : n <= k
  <1> DEFINE R == OpToRel(<, Nat)
  <1>1. \A x, y \in Nat : x < y => <<x, y>> \in R
    BY DEF OpToRel
  <1>2. IsWellFoundedOn(R, Nat)
    BY NatLessThanWellFounded
  <1> HIDE DEF R
  <1>3. PICK n \in S : \A k \in S : ~(<<k, n>> \in R)
    BY <1>2, WFMin
  <1>4. ASSUME NEW k \in S PROVE n <= k
    <2>1. n \in Nat /\ k \in Nat
      OBVIOUS
    <2>2. ~(k < n)
      BY <1>1, <1>3, <2>1
    <2> QED
      BY <2>1, <2>2
  <1> QED
    BY <1>4

\* Leap years up to a year.
Leaps(year) == year \div 4 - year \div 100 + year \div 400

LEMMA LeapsStep ==
    ASSUME NEW year \in Nat, year > 0
    PROVE  /\ Leaps(year) \in Int
           /\ Leaps(year) = Leaps(year - 1) + (IF IsLeapYear(year) THEN 1 ELSE 0)
  <1>1. year \div 4 = (year - 1) \div 4 + (IF year % 4 = 0 THEN 1 ELSE 0)
    OBVIOUS
  <1>2. year \div 100 = (year - 1) \div 100 + (IF year % 100 = 0 THEN 1 ELSE 0)
    OBVIOUS
  <1>3. year \div 400 = (year - 1) \div 400 + (IF year % 400 = 0 THEN 1 ELSE 0)
    OBVIOUS
  <1>4. (year % 400 = 0 => year % 100 = 0) /\ (year % 100 = 0 => year % 4 = 0)
    OBVIOUS
  <1>5. /\ year \div 4 \in Int /\ year \div 100 \in Int /\ year \div 400 \in Int
        /\ (year - 1) \div 4 \in Int /\ (year - 1) \div 100 \in Int /\ (year - 1) \div 400 \in Int
    OBVIOUS
  <1> DEFINE a == year \div 4
             b == year \div 100
             c == year \div 400
             p == (year - 1) \div 4
             q == (year - 1) \div 100
             r == (year - 1) \div 400
  <1>6. Leaps(year) = a - b + c /\ Leaps(year - 1) = p - q + r
    BY DEF Leaps
  <1>7. IsLeapYear(year) <=> (year % 4 = 0 /\ (year % 100 = 0 => year % 400 = 0))
    BY DEF IsLeapYear
  <1> HIDE DEF a, b, c, p, q, r
  <1>8. /\ a = p + (IF year % 4 = 0 THEN 1 ELSE 0) /\ b = q + (IF year % 100 = 0 THEN 1 ELSE 0)
        /\ c = r + (IF year % 400 = 0 THEN 1 ELSE 0)
        /\ a \in Int /\ b \in Int /\ c \in Int /\ p \in Int /\ q \in Int /\ r \in Int
    BY <1>1, <1>2, <1>3, <1>5 DEF a, b, c, p, q, r
  <1> QED
    BY <1>4, <1>6, <1>7, <1>8

\* What the loop comes to.
ClosedForm(year) == IF year > 1969 THEN 365 * (year - 1969) + Leaps(year) - 477 ELSE 0

LEMMA ClosedFormStep ==
    ASSUME NEW year \in Nat
    PROVE  ClosedForm(year) = IF year > 1969
                              THEN ClosedForm(year - 1) + (IF IsLeapYear(year) THEN 366 ELSE 365)
                              ELSE 0
  <1>1. CASE year > 1970
    <2>1. /\ Leaps(year) = Leaps(year - 1) + (IF IsLeapYear(year) THEN 1 ELSE 0)
          /\ Leaps(year) \in Int /\ Leaps(year - 1) \in Int
      BY <1>1, LeapsStep
    <2> QED
      BY <1>1, <2>1 DEF ClosedForm
  <1>2. CASE year = 1970
    <2>1. Leaps(1970) = 477
      BY DEF Leaps
    <2>2. ~IsLeapYear(1970)
      BY DEF IsLeapYear
    <2> QED
      BY <1>2, <2>1, <2>2 DEF ClosedForm
  <1>3. CASE ~(year > 1969)
    BY <1>3 DEF ClosedForm
  <1> QED
    BY <1>1, <1>2, <1>3

LoopOf(f) == [year \in Nat |-> IF year > 1969
                               THEN f[year - 1] + (IF IsLeapYear(year) THEN 366 ELSE 365)
                               ELSE 0]

LEMMA YearDaysEquation == YearDays = LoopOf(YearDays)
  <1> DEFINE G == [year \in Nat |-> ClosedForm(year)]
  <1>1. ASSUME NEW year \in Nat
        PROVE  G[year] = IF year > 1969 THEN G[year - 1] + (IF IsLeapYear(year) THEN 366 ELSE 365)
                         ELSE 0
    <2>1. CASE year > 1969
      <3>1. G[year] = ClosedForm(year) /\ year - 1 \in Nat /\ G[year - 1] = ClosedForm(year - 1)
        BY <2>1
      <3> QED
        BY <2>1, <3>1, ClosedFormStep
    <2>2. CASE ~(year > 1969)
      BY <2>2 DEF ClosedForm
    <2> QED
      BY <2>1, <2>2
  <1>2. G = [year \in Nat |-> IF year > 1969
                              THEN G[year - 1] + (IF IsLeapYear(year) THEN 366 ELSE 365) ELSE 0]
    <2> DEFINE H == [year \in Nat |-> IF year > 1969
                              THEN G[year - 1] + (IF IsLeapYear(year) THEN 366 ELSE 365) ELSE 0]
    <2>1. DOMAIN G = Nat /\ DOMAIN H = Nat
      OBVIOUS
    <2>2. \A year \in Nat : G[year] = H[year]
      BY <1>1
    <2> QED
      BY <2>1, <2>2
  <1>3. G = LoopOf(G)
    BY <1>2, Zenon DEF LoopOf
  <1> HIDE DEF G
  <1>4. YearDays = CHOOSE f : f = LoopOf(f)
    BY Zenon DEF YearDays, LoopOf
  <1> QED
    BY <1>3, <1>4, Zenon

LEMMA YearDaysClosed ==
    ASSUME NEW year \in Nat
    PROVE  YearDays[year] = ClosedForm(year)
  <1> DEFINE Wrong == {y \in Nat : YearDays[y] # ClosedForm(y)}
  <1>1. CASE Wrong = {}
    BY <1>1
  <1>2. CASE Wrong # {}
    <2>1. PICK y \in Wrong : \A k \in Wrong : y <= k
      BY <1>2, LeastOf
    <2>2. y \in Nat /\ YearDays[y] # ClosedForm(y)
      OBVIOUS
    <2>3. YearDays[y] = IF y > 1969 THEN YearDays[y - 1] + (IF IsLeapYear(y) THEN 366 ELSE 365)
                        ELSE 0
      BY <2>2, YearDaysEquation DEF LoopOf
    <2>4. y > 1969 => YearDays[y - 1] = ClosedForm(y - 1)
      BY <2>1, <2>2
    <2> QED
      BY <2>2, <2>3, <2>4, ClosedFormStep
  <1> QED
    BY <1>1, <1>2

\* The years in question are of the first four hundred.
LEMMA YearsOfCycle ==
    ASSUME NEW y \in 0 .. 100
    PROVE  DaysOfYears(y - 1) = YearDays[1999 + y]
  <1> DEFINE cycles == (30 + (y - 1)) \div 400
  <1>1. cycles = 0
    OBVIOUS
  <1>2. 2000 + (y - 1) - 400 * 0 = 1999 + y
    OBVIOUS
  <1>3. YearDays[1999 + y] \in Int
    <2>1. 1999 + y \in Nat /\ 1999 + y > 0 /\ 1999 + y > 1969
      OBVIOUS
    <2> QED
      BY <2>1, YearDaysClosed, LeapsStep DEF ClosedForm
  <1>4. DaysOfYears(y - 1) = YearDays[2000 + (y - 1) - 400 * cycles] + 146097 * cycles
    BY DEF DaysOfYears
  <1> HIDE DEF cycles
  <1>5. DaysOfYears(y - 1) = YearDays[1999 + y] + 146097 * 0
    BY <1>1, <1>2, <1>4
  <1> QED
    BY <1>3, <1>5

\* Days before a month.
DaysBefore(mo, y) == DaysOfYears(y - 1) + DaysOfMonths(mo - 1, y)

LEMMA DaysBeforeClosed ==
    ASSUME NEW mo \in 1 .. 12, NEW y \in 0 .. 100
    PROVE  /\ DaysBefore(mo, y) = 365 * (y + 30) + Leaps(1999 + y) - 477 + DaysOfMonths(mo - 1, y)
           /\ Leaps(1999 + y) \in Int /\ DaysOfMonths(mo - 1, y) \in Int
  <1>1. 1999 + y \in Nat /\ 2000 + (y - 1) = 1999 + y /\ 1999 + y > 1969 /\ 1999 + y > 0
    OBVIOUS
  <1>2. Leaps(1999 + y) \in Int
    BY <1>1, LeapsStep
  <1>3. DaysOfYears(y - 1) = YearDays[1999 + y]
    BY <1>1, YearsOfCycle
  <1>4. YearDays[1999 + y] = ClosedForm(1999 + y)
    BY <1>1, YearDaysClosed
  <1>5. ClosedForm(1999 + y) = 365 * (1999 + y - 1969) + Leaps(1999 + y) - 477
    BY <1>1 DEF ClosedForm
  <1>6. 1999 + y - 1969 = y + 30
    OBVIOUS
  <1>7. DaysOfMonths(mo - 1, y) \in Int
    BY DEF DaysOfMonths
  <1> QED
    BY <1>2, <1>3, <1>4, <1>5, <1>6, <1>7 DEF DaysBefore

\* A month begins where the one before it ends, a year behind its last December.
LEMMA MonthFollows ==
    ASSUME NEW mo \in 1 .. 11, NEW y \in 0 .. 99
    PROVE  DaysBefore(mo + 1, y) = DaysBefore(mo, y) + MonthLength(mo, y)
  <1>1. Leap(2000 + y) <=> IsLeapYear(2000 + y)
    BY DEF Leap, IsLeapYear
  <1>2. DaysOfMonths(mo, y) = DaysOfMonths(mo - 1, y) + MonthLength(mo, y)
    <2>1. mo \in {1, 2, 3, 4, 5, 6, 7, 8, 9, 10, 11}
      OBVIOUS
    <2> DEFINE feb == IF IsLeapYear(2000 + y) THEN 29 ELSE 28
    <2>2. feb \in Int /\ feb = IF Leap(2000 + y) THEN 29 ELSE 28
      BY <1>1
    <2>3. MonthLength(mo, y) = IF mo \in {4, 6, 9, 11} THEN 30 ELSE IF mo = 2 THEN feb ELSE 31
      BY <2>1, <2>2 DEF MonthLength
    <2> QED
      BY <2>1, <2>2, <2>3 DEF DaysOfMonths
  <1>3. DaysBefore(mo + 1, y) = DaysOfYears(y - 1) + DaysOfMonths(mo, y)
    <2>1. mo + 1 - 1 = mo
      OBVIOUS
    <2> QED
      BY <2>1 DEF DaysBefore
  <1>4. DaysOfYears(y - 1) \in Int /\ DaysOfMonths(mo - 1, y) \in Int /\ MonthLength(mo, y) \in Int
    <2>1. DaysOfMonths(mo - 1, y) \in Int
      BY DEF DaysOfMonths
    <2>2. 1999 + y \in Nat /\ 2000 + (y - 1) = 1999 + y /\ 1999 + y > 1969 /\ 1999 + y > 0
      OBVIOUS
    <2>3. DaysOfYears(y - 1) = ClosedForm(1999 + y)
      BY <2>2, YearDaysClosed, YearsOfCycle
    <2>4. ClosedForm(1999 + y) \in Int
      BY <2>2, LeapsStep DEF ClosedForm
    <2> QED
      BY <2>1, <2>3, <2>4, MonthLengths
  <1> QED
    BY <1>2, <1>3, <1>4 DEF DaysBefore

LEMMA YearFollows ==
    ASSUME NEW y \in 0 .. 98
    PROVE  DaysBefore(1, y + 1) = DaysBefore(12, y) + 31
  <1>1. Leaps(2000 + y) = Leaps(1999 + y) + (IF IsLeapYear(2000 + y) THEN 1 ELSE 0)
    <2>1. 2000 + y \in Nat /\ 2000 + y > 0 /\ 2000 + y - 1 = 1999 + y
      OBVIOUS
    <2> QED
      BY <2>1, LeapsStep
  <1>2. DaysOfMonths(0, y + 1) = 0
    BY DEF DaysOfMonths
  <1>3. DaysOfMonths(11, y) = 334 + (IF IsLeapYear(2000 + y) THEN 1 ELSE 0)
    BY DEF DaysOfMonths
  <1>4. /\ DaysBefore(1, y + 1) = 365 * (y + 1 + 30) + Leaps(1999 + (y + 1)) - 477 + DaysOfMonths(0, y + 1)
        /\ DaysBefore(12, y) = 365 * (y + 30) + Leaps(1999 + y) - 477 + DaysOfMonths(11, y)
        /\ Leaps(1999 + y) \in Int
    <2>1. 1 \in 1 .. 12 /\ 12 \in 1 .. 12 /\ y \in 0 .. 100 /\ y + 1 \in 0 .. 100 /\ 1 - 1 = 0 /\ 12 - 1 = 11
      OBVIOUS
    <2> QED
      BY <2>1, DaysBeforeClosed
  <1>5. 1999 + (y + 1) = 2000 + y
    OBVIOUS
  <1> QED
    BY <1>1, <1>2, <1>3, <1>4, <1>5

\* now() agrees with the closed form of the days since 1970.
LEMMA EpochDay ==
    ASSUME NEW t, Time(t)
    PROVE  /\ DaysBefore(t[5], t[6]) \in Int
           /\ Epoch(t) = <<DaysBefore(t[5], t[6]) + t[4] - 1, t[3] * 3600 + t[2] * 60 + t[1]>>
  <1> DEFINE mo == t[5]
             y == t[6]
             d == t[4]
  <1>1. mo \in 1 .. 12 /\ y \in 0 .. 99 /\ d \in Int
    <2>1. t[4] \in 1 .. MonthLength(t[5], t[6]) /\ MonthLength(t[5], t[6]) \in Int
      BY MonthLengths DEF Time
    <2> QED
      BY <2>1 DEF Time
  <1> HIDE DEF mo, y, d
  <1>2. /\ DaysBefore(mo, y) = 365 * (y + 30) + Leaps(1999 + y) - 477 + DaysOfMonths(mo - 1, y)
        /\ Leaps(1999 + y) \in Int /\ DaysOfMonths(mo - 1, y) \in Int
    <2>1. y \in 0 .. 100
      BY <1>1
    <2> QED
      BY <1>1, <2>1, DaysBeforeClosed
  <1>3. /\ Leaps(2000 + y) = Leaps(1999 + y) + (IF IsLeapYear(2000 + y) THEN 1 ELSE 0)
        /\ Leaps(2000 + y) \in Int
    <2>1. 2000 + y \in Nat /\ 2000 + y > 0 /\ 2000 + y - 1 = 1999 + y
      BY <1>1
    <2> QED
      BY <1>1, <2>1, LeapsStep
  <1> DEFINE z == IF mo > 2 THEN 2000 + y ELSE 1999 + y
             m == IF mo > 2 THEN mo - 3 ELSE mo + 9
             days == 365 * z + z \div 4 - z \div 100 + z \div 400 + (153 * m + 2) \div 5 + d - 719469
  <1>4. Epoch(t) = <<days, t[3] * 3600 + t[2] * 60 + t[1]>>
    BY DEF Epoch, mo, y, d
  <1>5. days = 365 * z + Leaps(z) + (153 * m + 2) \div 5 + d - 719469
    <2>1. z \in Int /\ z \div 4 \in Int /\ z \div 100 \in Int /\ z \div 400 \in Int /\ (153 * m + 2) \div 5 \in Int
      BY <1>1
    <2> HIDE DEF z, m
    <2> QED
      BY <1>1, <2>1 DEF Leaps
  <1> HIDE DEF days
  <1>6. ASSUME mo > 2 PROVE days = DaysBefore(mo, y) + d - 1
    <2>1. DaysOfMonths(mo - 1, y) = (153 * (mo - 3) + 2) \div 5 + 59 + (IF IsLeapYear(2000 + y) THEN 1 ELSE 0)
      <3>1. mo \in {3, 4, 5, 6, 7, 8, 9, 10, 11, 12}
        BY <1>1, <1>6
      <3> QED
        BY <3>1 DEF DaysOfMonths
    <2>2. z = 2000 + y /\ m = mo - 3
      BY <1>6
    <2>3. (153 * (mo - 3) + 2) \div 5 \in Int
      BY <1>1
    <2> HIDE DEF z, m
    <2> QED
      BY <1>1, <1>2, <1>3, <1>5, <2>1, <2>2, <2>3
  <1>7. ASSUME ~(mo > 2) PROVE days = DaysBefore(mo, y) + d - 1
    <2>1. DaysOfMonths(mo - 1, y) = (153 * (mo + 9) + 2) \div 5 - 306
      <3>1. mo \in {1, 2}
        BY <1>1, <1>7
      <3> QED
        BY <3>1 DEF DaysOfMonths
    <2>2. z = 1999 + y /\ m = mo + 9
      BY <1>7
    <2>3. (153 * (mo + 9) + 2) \div 5 \in Int
      BY <1>1
    <2> HIDE DEF z, m
    <2> QED
      BY <1>1, <1>2, <1>3, <1>5, <2>1, <2>2, <2>3
  <1>8. DaysBefore(mo, y) \in Int
    BY <1>1, <1>2
  <1> QED
    BY <1>4, <1>6, <1>7, <1>8 DEF mo, y, d

-----------------------------------------------------------------------------
(* A torn reading.  Its low fields are of the minute in which the call     *)
(* began, its high ones of the next minute.                                *)

NextMinute(t) == After([t EXCEPT ![1] = 59])

LEMMA MinuteFields ==
    ASSUME NEW t, Time(t)
    PROVE  LET n   == NextMinute(t)
               ml  == MonthLength(t[5], t[6])
               day == t[2] # 59 \/ t[3] # 23
           IN  /\ n[2] = IF t[2] = 59 THEN 0 ELSE t[2] + 1
               /\ n[3] = IF t[2] # 59 THEN t[3] ELSE IF t[3] = 23 THEN 0 ELSE t[3] + 1
               /\ n[4] = IF day THEN t[4] ELSE IF t[4] = ml THEN 1 ELSE t[4] + 1
               /\ n[5] = IF day \/ t[4] # ml THEN t[5] ELSE IF t[5] = 12 THEN 1 ELSE t[5] + 1
               /\ n[6] = IF day \/ t[4] # ml \/ t[5] # 12 THEN t[6]
                         ELSE IF t[6] = 99 THEN 0 ELSE t[6] + 1
               /\ Time(n)
  <1> DEFINE w == [t EXCEPT ![1] = 59]
  <1>1. DOMAIN w = 1 .. 6 /\ w[1] = 59 /\ \A i \in 2 .. 6 : w[i] = t[i]
    BY DEF Time
  <1> HIDE DEF w
  <1>2. w[2] = t[2] /\ w[3] = t[3] /\ w[4] = t[4] /\ w[5] = t[5] /\ w[6] = t[6]
    BY <1>1
  <1>3. Time(w)
    BY <1>1, <1>2 DEF Time
  <1>4. NextMinute(t) = After(w)
    BY DEF NextMinute, w
  <1> QED
    BY <1>1, <1>2, <1>3, <1>4, AfterFields, AfterTime

LEMMA Later ==
    ASSUME NEW a \in Int, NEW b \in Int, NEW c \in Int, NEW d \in Int,
           a < c \/ (a = c /\ b <= d)
    PROVE  NotAfter(<<a, b>>, <<c, d>>)
  BY DEF NotAfter

OfDay(h, m, s) == h * 3600 + m * 60 + s

LEMMA LaterInDay ==
    ASSUME NEW s \in 0 .. 59, NEW m \in 0 .. 59, NEW h \in 0 .. 23,
           NEW s1 \in 0 .. 59, NEW m1 \in 0 .. 59, NEW h1 \in 0 .. 23
    PROVE  /\ OfDay(h, m, s) \in Int /\ OfDay(h1, m1, s1) \in Int
           /\ (h1 = h /\ m1 = m /\ s <= s1) \/ (h1 = h /\ m1 = m + 1) \/ h1 = h + 1 =>
                OfDay(h, m, s) <= OfDay(h1, m1, s1)
  BY DEF OfDay

LEMMA LaterInMinute ==
    ASSUME NEW s \in 0 .. 59, NEW s1 \in 0 .. 59, NEW m \in 0 .. 59, NEW h \in 0 .. 23, s <= s1
    PROVE  /\ OfDay(h, m, s) \in Int /\ OfDay(h, m, s1) \in Int
           /\ OfDay(h, m, s) <= OfDay(h, m, s1)
  BY DEF OfDay

\* The field i of a reading of which k fields are old.
Field(b, k, i) == IF i <= k THEN b[i] ELSE NextMinute(b)[i]

\* Whatever k is, the reading is not a time before the call, unless the year starts again.
LEMMA TornLater ==
    ASSUME NEW b, Time(b), NEW k \in 0 .. 6, NEW s \in 0 .. 59,
           k >= 1 => b[1] <= s,
           k = 6 \/ b[6] <= NextMinute(b)[6]
    PROVE  LET f(i) == Field(b, k, i)
           IN  NotAfter(Epoch(b), <<DaysBefore(f(5), f(6)) + f(4) - 1, OfDay(f(3), f(2), s)>>)
  <1> DEFINE n == NextMinute(b)
             ml == MonthLength(b[5], b[6])
             f(i) == Field(b, k, i)
             old == DaysBefore(b[5], b[6])
             new == DaysBefore(f(5), f(6))
             then == OfDay(b[3], b[2], b[1])
             read == OfDay(f(3), f(2), s)
  <1>1. /\ b[1] \in 0 .. 59 /\ b[2] \in 0 .. 59 /\ b[3] \in 0 .. 23
        /\ b[4] \in 1 .. ml /\ b[5] \in 1 .. 12 /\ b[6] \in 0 .. 99 /\ ml \in 28 .. 31
    BY MonthLengths DEF Time
  <1>2. old \in Int /\ Epoch(b) = <<old + b[4] - 1, then>>
    BY EpochDay DEF OfDay
  <1>3. /\ n[2] = IF b[2] = 59 THEN 0 ELSE b[2] + 1
        /\ n[3] = IF b[2] # 59 THEN b[3] ELSE IF b[3] = 23 THEN 0 ELSE b[3] + 1
        /\ n[4] = IF b[2] # 59 \/ b[3] # 23 THEN b[4] ELSE IF b[4] = ml THEN 1 ELSE b[4] + 1
        /\ n[5] = IF b[2] # 59 \/ b[3] # 23 \/ b[4] # ml THEN b[5]
                  ELSE IF b[5] = 12 THEN 1 ELSE b[5] + 1
        /\ n[6] = IF b[2] # 59 \/ b[3] # 23 \/ b[4] # ml \/ b[5] # 12 THEN b[6]
                  ELSE IF b[6] = 99 THEN 0 ELSE b[6] + 1
    BY MinuteFields
  <1>4. /\ f(2) = IF 2 <= k THEN b[2] ELSE n[2]
        /\ f(3) = IF 3 <= k THEN b[3] ELSE n[3]
        /\ f(4) = IF 4 <= k THEN b[4] ELSE n[4]
        /\ f(5) = IF 5 <= k THEN b[5] ELSE n[5]
        /\ f(6) = IF 6 <= k THEN b[6] ELSE n[6]
    BY DEF Field
  <1>5. k = 6 \/ b[6] <= n[6]
    OBVIOUS
  <1> HIDE DEF n, ml, f
  <1>6. /\ f(2) \in 0 .. 59 /\ f(3) \in 0 .. 23 /\ f(4) \in 1 .. 31
        /\ f(5) \in 1 .. 12 /\ f(6) \in 0 .. 99
    <2>1. /\ n[2] \in 0 .. 59 /\ n[3] \in 0 .. 23 /\ n[4] \in 1 .. 31
          /\ n[5] \in 1 .. 12 /\ n[6] \in 0 .. 99
      BY <1>1, <1>3
    <2> QED
      BY <1>1, <1>4, <2>1
  <1>7. new \in Int
    <2>1. f(6) \in 0 .. 100
      BY <1>6
    <2>2. /\ new = 365 * (f(6) + 30) + Leaps(1999 + f(6)) - 477 + DaysOfMonths(f(5) - 1, f(6))
          /\ Leaps(1999 + f(6)) \in Int /\ DaysOfMonths(f(5) - 1, f(6)) \in Int
      BY <1>6, <2>1, DaysBeforeClosed
    <2> HIDE DEF new
    <2> QED
      BY <1>6, <2>2
  <1>8. /\ then \in Int /\ read \in Int
        /\ (f(3) = b[3] /\ f(2) = b[2] /\ b[1] <= s) \/ (f(3) = b[3] /\ f(2) = b[2] + 1)
           \/ f(3) = b[3] + 1 => then <= read
    BY <1>1, <1>6, LaterInDay
  <1> HIDE DEF then, read
  <1> DEFINE Goal == old + b[4] - 1 < new + f(4) - 1 \/ (old + b[4] - 1 = new + f(4) - 1 /\ then <= read)
  <1>9. ASSUME f(4) = b[4], f(5) = b[5], f(6) = b[6], then <= read PROVE Goal
    BY <1>9
  <1>10. Goal
    <2>1. CASE b[2] # 59
      <3>1. f(4) = b[4] /\ f(5) = b[5] /\ f(6) = b[6] /\ f(3) = b[3]
        BY <1>3, <1>4, <2>1
      <3>2. CASE k >= 2
        BY <1>4, <1>8, <1>9, <3>1, <3>2
      <3>3. CASE ~(k >= 2)
        <4>1. f(2) = b[2] + 1
          BY <1>3, <1>4, <2>1, <3>3
        <4> QED
          BY <1>8, <1>9, <3>1, <4>1
      <3> QED
        BY <3>2, <3>3
    <2>2. CASE b[2] = 59 /\ b[3] # 23
      <3>1. f(4) = b[4] /\ f(5) = b[5] /\ f(6) = b[6]
        BY <1>3, <1>4, <2>2
      <3>2. CASE k >= 3
        BY <1>4, <1>8, <1>9, <3>1, <3>2
      <3>3. CASE ~(k >= 3)
        <4>1. f(3) = b[3] + 1
          BY <1>3, <1>4, <2>2, <3>3
        <4> QED
          BY <1>8, <1>9, <3>1, <4>1
      <3> QED
        BY <3>2, <3>3
    <2>3. CASE b[2] = 59 /\ b[3] = 23 /\ b[4] # ml
      <3>1. f(5) = b[5] /\ f(6) = b[6]
        BY <1>3, <1>4, <2>3
      <3>2. CASE k >= 4
        BY <1>4, <1>8, <1>9, <3>1, <3>2
      <3>3. CASE ~(k >= 4)
        <4>1. f(4) = b[4] + 1
          BY <1>3, <1>4, <2>3, <3>3
        <4>2. new = old
          BY <3>1
        <4> HIDE DEF new, old
        <4> QED
          BY <1>1, <1>2, <4>1, <4>2
      <3> QED
        BY <3>2, <3>3
    <2>4. CASE b[2] = 59 /\ b[3] = 23 /\ b[4] = ml /\ b[5] # 12
      <3>1. f(6) = b[6]
        BY <1>3, <1>4, <2>4
      <3>2. CASE k >= 5
        BY <1>4, <1>8, <1>9, <3>1, <3>2
      <3>3. CASE ~(k >= 5)
        <4>1. f(5) = b[5] + 1 /\ f(4) >= 1
          BY <1>3, <1>4, <1>6, <2>4, <3>3
        <4>2. new = old + ml
          <5>1. b[5] \in 1 .. 11
            BY <1>1, <2>4
          <5> QED
            BY <1>1, <3>1, <4>1, <5>1, MonthFollows DEF ml
        <4> HIDE DEF new, old
        <4> QED
          BY <1>1, <1>2, <1>6, <2>4, <4>1, <4>2
      <3> QED
        BY <3>2, <3>3
    <2>5. CASE b[2] = 59 /\ b[3] = 23 /\ b[4] = ml /\ b[5] = 12
      <3>1. ml = 31
        BY <2>5 DEF ml, MonthLength
      <3>2. CASE k >= 6
        BY <1>4, <1>8, <1>9, <3>2
      <3>3. CASE ~(k >= 6)
        <4>1. b[6] # 99 /\ f(6) = b[6] + 1
          BY <1>1, <1>3, <1>4, <1>5, <2>5, <3>3
        <4>2. b[6] \in 0 .. 98
          BY <1>1, <4>1
        <4>3. DaysBefore(1, f(6)) = old + 31
          BY <2>5, <4>1, <4>2, YearFollows
        <4>4. new >= DaysBefore(1, f(6))
          <5>0. f(5) \in {1, 12}
            BY <1>3, <1>4, <2>5
          <5>1. f(6) \in 0 .. 100 /\ 1 \in 1 .. 12 /\ 12 \in 1 .. 12
            BY <1>6
          <5> DEFINE c == 365 * (f(6) + 30) + Leaps(1999 + f(6)) - 477
          <5>2. /\ DaysBefore(1, f(6)) = c + DaysOfMonths(1 - 1, f(6))
                /\ DaysBefore(12, f(6)) = c + DaysOfMonths(12 - 1, f(6))
                /\ Leaps(1999 + f(6)) \in Int
            BY <5>1, DaysBeforeClosed
          <5>3. c \in Int
            BY <1>6, <5>2
          <5> HIDE DEF c
          <5>4. DaysOfMonths(1 - 1, f(6)) = 0 /\ DaysOfMonths(12 - 1, f(6)) \in 334 .. 335
            BY DEF DaysOfMonths
          <5> QED
            BY <5>0, <5>2, <5>3, <5>4
        <4> HIDE DEF new, old
        <4> QED
          BY <1>1, <1>2, <1>6, <1>7, <2>5, <3>1, <4>3, <4>4
      <3> QED
        BY <3>2, <3>3
    <2> QED
      BY <2>1, <2>2, <2>3, <2>4, <2>5
  <1>11. NotAfter(<<old + b[4] - 1, then>>, <<new + f(4) - 1, read>>)
    <2> HIDE DEF old, new
    <2>1. old + b[4] - 1 \in Int /\ new + f(4) - 1 \in Int
      BY <1>1, <1>2, <1>6, <1>7
    <2> QED
      BY <1>8, <1>10, <2>1, Later
  <1> QED
    BY <1>2, <1>11 DEF f, then, read

-----------------------------------------------------------------------------
(* The tests of get_today.                                                 *)

\* The days on which the tests of get_today know the length of the month.
Known(b) == b[5] <= 7 \/ b[4] <= 29 \/ (b[4] = 30 /\ b[3] < 24 - timezone)

\* On these days they find the next one.
LEMMA DayFound ==
    ASSUME NEW b, Time(b), Known(b)
    PROVE  LET d == <<b[4], b[5], 2000 + b[6]>>
               late == b[3] >= 24 - timezone
           IN  NewYear(February(EvenMonth(OddMonth(IF late THEN <<d[1] + 1, d[2], d[3]>> ELSE d))))
               = IF late THEN NextDay(d) ELSE d
  <1> DEFINE da == b[4]
             mo == b[5]
             ye == 2000 + b[6]
             ml == MonthLength(mo, b[6])
             late == b[3] >= 24 - timezone
             n == IF late THEN da + 1 ELSE da
             d == <<da, mo, ye>>
             e == <<n, mo, ye>>
  <1>1. /\ da \in 1 .. ml /\ mo \in 1 .. 12 /\ ye \in 2000 .. 2099 /\ ye - 2000 = b[6]
    BY DEF Time
  <1>2. ml \in 28 .. 31
    BY MonthLengths
  <1>3. IsLeapYear(ye) <=> Leap(ye)
    BY DEF IsLeapYear, Leap
  <1>4. /\ mo \in {4, 6, 9, 11} => ml = 30
        /\ mo = 2 => ml = IF IsLeapYear(ye) THEN 29 ELSE 28
        /\ mo \notin {2, 4, 6, 9, 11} => ml = 31
    <2>1. mo \in {4, 6, 9, 11} => ml = 30
      BY DEF MonthLength
    <2>2. mo = 2 => ml = IF Leap(ye) THEN 29 ELSE 28
      BY DEF MonthLength
    <2>3. mo \notin {2, 4, 6, 9, 11} => ml = 31
      BY DEF MonthLength
    <2> QED
      BY <1>3, <2>1, <2>2, <2>3
  <1>5. NextDay(d) = IF da < ml THEN <<da + 1, mo, ye>>
                     ELSE IF mo < 12 THEN <<1, mo + 1, ye>> ELSE <<1, 1, ye + 1>>
    BY <1>1 DEF NextDay
  <1>6. mo <= 7 \/ (n <= 30 /\ (late => da < ml))
    <2>1. b[3] \in 0 .. 23 /\ mo \in Int /\ da \in Int
      BY <1>1, <1>2 DEF Time
    <2>2. CASE mo <= 7
      BY <2>2
    <2>3. CASE ~(mo <= 7)
      <3>1. da <= 29 \/ (da = 30 /\ ~late)
        BY <2>1, <2>3 DEF Known, timezone
      <3>2. mo \in 8 .. 12 /\ ml \in 30 .. 31
        BY <1>1, <1>4, <2>3
      <3> HIDE DEF late, da, ml
      <3> QED
        BY <2>1, <3>1, <3>2
    <2> QED
      BY <2>2, <2>3
  <1>7. (IF late THEN <<d[1] + 1, d[2], d[3]>> ELSE d) = e
    OBVIOUS
  <1>8. n \in Nat /\ (IF late THEN n = da + 1 ELSE n = da)
    BY <1>1, <1>2
  <1>9. /\ 1 % 2 = 1 /\ 2 % 2 = 0 /\ 3 % 2 = 1 /\ 4 % 2 = 0 /\ 5 % 2 = 1 /\ 6 % 2 = 0 /\ 7 % 2 = 1
        /\ 8 % 2 = 0 /\ 9 % 2 = 1 /\ 10 % 2 = 0 /\ 11 % 2 = 1 /\ 12 % 2 = 0
    OBVIOUS
  <1> HIDE DEF ml, n, e, da, mo, ye, d, late
  <1> DEFINE want == IF n <= ml THEN <<n, mo, ye>> ELSE <<1, mo + 1, ye>>
  <1>10. NewYear(February(EvenMonth(OddMonth(e)))) = want
    <2> DEFINE o == OddMonth(e)
               v == EvenMonth(o)
               f == February(v)
    <2>0. e = <<n, mo, ye>>
      BY DEF e
    <2>1. o = IF n > 31 /\ mo % 2 # 0 /\ mo # 9 THEN <<1, mo + 1, ye>> ELSE <<n, mo, ye>>
      BY <2>0 DEF OddMonth
    <2>2. CASE mo \in {1, 3, 5, 7}
      <3>0. mo % 2 = 1 /\ ml = 31 /\ (mo + 1) \in {2, 4, 6, 8}
        BY <1>4, <1>9, <2>2
      <3>1. o = want
        BY <1>8, <2>1, <2>2, <3>0
      <3> HIDE DEF o
      <3>2. v = o
        <4>1. CASE n <= 31
          BY <1>8, <2>2, <3>0, <3>1, <4>1 DEF EvenMonth
        <4>2. CASE n > 31
          BY <1>8, <2>2, <3>0, <3>1, <4>2 DEF EvenMonth
        <4> QED
          BY <1>8, <4>1, <4>2
      <3> HIDE DEF v
      <3>3. f = v
        BY <1>8, <2>2, <3>0, <3>1, <3>2 DEF February
      <3> HIDE DEF f
      <3>4. NewYear(f) = f
        BY <1>8, <2>2, <3>0, <3>1, <3>2, <3>3 DEF NewYear
      <3> QED
        BY <3>1, <3>2, <3>3, <3>4 DEF f, v, o
    <2>3. CASE mo \in {4, 6}
      <3>0. mo % 2 = 0 /\ ml = 30 /\ mo # 2 /\ (mo + 1) \in {5, 7}
        BY <1>4, <1>9, <2>3
      <3>1. o = <<n, mo, ye>>
        BY <2>1, <3>0
      <3> HIDE DEF o
      <3>2. v = want
        BY <1>8, <3>0, <3>1 DEF EvenMonth
      <3> HIDE DEF v
      <3>3. f = v
        BY <1>8, <2>3, <3>0, <3>2 DEF February
      <3> HIDE DEF f
      <3>4. NewYear(f) = f
        BY <1>8, <2>3, <3>0, <3>2, <3>3 DEF NewYear
      <3> QED
        BY <3>2, <3>3, <3>4 DEF f, v, o
    <2>4. CASE mo = 2
      <3>0. mo % 2 = 0 /\ ml = IF IsLeapYear(ye) THEN 29 ELSE 28
        BY <1>4, <1>9, <2>4
      <3>1. o = <<n, mo, ye>>
        BY <2>1, <3>0
      <3> HIDE DEF o
      <3>2. v = <<n, mo, ye>>
        BY <2>4, <3>1 DEF EvenMonth
      <3> HIDE DEF v
      <3>3. f = want
        BY <1>8, <2>4, <3>0, <3>2 DEF February
      <3> HIDE DEF f
      <3>4. NewYear(f) = f
        BY <1>8, <2>4, <3>3 DEF NewYear
      <3> QED
        BY <3>3, <3>4 DEF f, v, o
    <2>5. CASE mo \in 8 .. 12
      <3>0. n <= 30 /\ n <= ml
        BY <1>1, <1>2, <1>6, <1>8, <2>5
      <3>1. o = <<n, mo, ye>>
        BY <1>8, <2>1, <3>0
      <3> HIDE DEF o
      <3>2. v = <<n, mo, ye>>
        BY <1>8, <3>0, <3>1 DEF EvenMonth
      <3> HIDE DEF v
      <3>3. f = <<n, mo, ye>>
        BY <2>5, <3>2 DEF February
      <3> HIDE DEF f
      <3>4. NewYear(f) = <<n, mo, ye>>
        BY <2>5, <3>3 DEF NewYear
      <3> QED
        BY <3>0, <3>4 DEF f, v, o
    <2> QED
      BY <1>1, <2>2, <2>3, <2>4, <2>5
  <1>11. want = IF late THEN NextDay(d) ELSE d
    <2>1. CASE late
      <3>1. n = da + 1 /\ (n <= ml <=> da < ml)
        BY <1>1, <1>2, <1>8, <2>1
      <3>2. mo = 12 => da < ml
        BY <1>1, <1>6, <2>1
      <3>3. NextDay(d) = want
        BY <1>1, <1>5, <3>1, <3>2
      <3> QED
        BY <2>1, <3>3
    <2>2. CASE ~late
      <3>1. n <= ml /\ n = da
        BY <1>1, <1>2, <1>8, <2>2
      <3> QED
        BY <2>2, <3>1 DEF d
    <2> QED
      BY <2>1, <2>2
  <1> QED
    BY <1>7, <1>10, <1>11 DEF d, e, late, da, mo, ye

\* The hour in the time zone.
LEMMA LocalHour ==
    ASSUME NEW h \in 0 .. 23
    PROVE  /\ h >= 24 - timezone => Hour(h)[2]
           /\ ~(h >= 24 - timezone) => ~Hour(h)[2]
           /\ Hour(h)[1] = (h + timezone) % 24
  <1>1. CASE h >= 22
    <2>1. (h + 2) % 24 = h + 2 - 24 /\ h + 2 >= 24 /\ h >= 24 - 2
      BY <1>1
    <2>2. Hour(h) = <<h + 2 - 24, TRUE>>
      BY <2>1 DEF Hour, timezone
    <2>3. Hour(h)[1] = h + 2 - 24
      BY <2>2
    <2>4. Hour(h)[2] = TRUE
      BY <2>2
    <2> QED
      BY <2>1, <2>3, <2>4 DEF timezone
  <1>2. CASE ~(h >= 22)
    <2>1. (h + 2) % 24 = h + 2 /\ ~(h + 2 >= 24) /\ ~(h >= 24 - 2)
      BY <1>2
    <2>2. Hour(h) = <<h + 2, FALSE>>
      BY <2>1 DEF Hour, timezone
    <2>3. Hour(h)[1] = h + 2
      BY <2>2
    <2>4. Hour(h)[2] = FALSE
      BY <2>2
    <2> QED
      BY <2>1, <2>3, <2>4 DEF timezone
  <1> QED
    BY <1>1, <1>2

\* What get_today puts together: the answer t is the date u, up to its minute,
\* and a second.
PutTogether(t, u, a, b, c, h, m, s) ==
    t = <<a, b, c>> \o <<h, m, s>> /\ u = <<a, b, c>> \o <<h, m>>

LEMMA AnswerFields ==
    ASSUME NEW t, NEW u, NEW a, NEW b, NEW c, NEW h, NEW m, NEW s,
           PutTogether(t, u, a, b, c, h, m, s)
    PROVE  SubSeq(t, 1, 5) = u /\ t[6] = s
  <1>0. t = <<a, b, c>> \o <<h, m, s>> /\ u = <<a, b, c>> \o <<h, m>>
    BY DEF PutTogether
  <1> DEFINE S == {a, b, c, h, m, s}
  <1>1. /\ <<a, b, c>> \in Seq(S) /\ <<h, m, s>> \in Seq(S) /\ <<h, m>> \in Seq(S)
        /\ Len(<<a, b, c>>) = 3 /\ Len(<<h, m, s>>) = 3 /\ Len(<<h, m>>) = 2
    OBVIOUS
  <1>2. /\ t \in Seq(S) /\ Len(t) = 6
        /\ t[1] = a /\ t[2] = b /\ t[3] = c /\ t[4] = h /\ t[5] = m /\ t[6] = s
    BY <1>0, <1>1, ConcatProperties
  <1>3. /\ u \in Seq(S) /\ Len(u) = 5
        /\ u[1] = a /\ u[2] = b /\ u[3] = c /\ u[4] = h /\ u[5] = m
    BY <1>0, <1>1, ConcatProperties
  <1>4. \A i \in 1 .. 5 : t[i] \in S
    BY <1>2
  <1>5. /\ SubSeq(t, 1, 5) \in Seq(S) /\ Len(SubSeq(t, 1, 5)) = 5
        /\ \A i \in 1 .. 5 : SubSeq(t, 1, 5)[i] = t[i]
    BY <1>2, <1>4, SubSeqProperties
  <1>6. \A i \in 1 .. 5 : SubSeq(t, 1, 5)[i] = u[i]
    BY <1>2, <1>3, <1>5
  <1>7. SubSeq(t, 1, 5) = u
    BY <1>3, <1>5, <1>6, SeqEqual
  <1> QED
    BY <1>2, <1>7

-----------------------------------------------------------------------------
(* The steps of the clock.                                                 *)

\* Time has passed within a minute, or a minute has begun.  Another one has not, so
\* the minute is not the old one again.
Passed == \/ SameMinute /\ rtc[1] = began[1] + ticks
          \/ rtc[2] # began[2] /\ rtc[1] + 60 = began[1] + ticks

\* What cmos_dump stores of a field.
Read(n) == Stored(ToBcd(n))

\* What has been read while the minute was the same.
ReadInv == SameMinute =>
    /\ \A i \in 2 .. 6 : i <= Len(values) => values[i] = Read(began[i])
    /\ Len(values) >= 1 => \E s \in began[1] .. rtc[1] : values[1] = Read(s)
    /\ clockCall = "time" /\ began[6] < 80 => date = <<began[4], began[5], 2000 + began[6]>>

\* What has been read, whether or not the minute has turned.
Turned == SameMinute \/ \A i \in 2 .. 6 : rtc[i] = NextMinute(began)[i]

TornAt(k) ==
    /\ \A i \in 2 .. 6 : i <= Len(values) => values[i] = Read(Field(began, k, i))
    /\ Len(values) >= 1 => \E s \in 0 .. 59 : values[1] = Read(s) /\ (k >= 1 => began[1] <= s)
    /\ k <= Len(values) /\ (SameMinute => k = Len(values))

Torn == \E k \in 0 .. 6 : TornAt(k)

Triple(t) == \E a, b, c : t = <<a, b, c>>

NoAnswer == answer = <<>>

ClockInv ==
    /\ Time(rtc) /\ Time(began)
    /\ clockCall \in {"none", "now", "date", "time"}
    /\ values \in Seq(Word) /\ Len(values) <= 6
    /\ ticks \in 0 .. MaxTicks
    /\ clockCall # "none" => Passed /\ ReadInv /\ NoAnswer /\ Turned /\ Torn
    /\ clockCall = "time" => Triple(date)
    /\ clockCall = "none" => TodayRight /\ NowRight

LEMMA InitClock == ClockInit => ClockInv
  <1> SUFFICES ASSUME ClockInit PROVE ClockInv
    OBVIOUS
  <1>1. Time(rtc) /\ began = rtc
    BY ClockAssumption DEF ClockInit
  <1>2. answer = <<>> /\ values = <<>> /\ Len(<<>>) = 0
    BY DEF ClockInit
  <1>3. TodayRight /\ NowRight
    BY <1>2 DEF TodayRight, TodayAnswered, NowRight, NowAnswered
  <1> QED
    BY <1>1, <1>2, <1>3, ClockAssumption DEF ClockInit, ClockInv

\* A call begins.
LEMMA ClockCalled ==
    ASSUME ClockInv, Now \/ GetToday
    PROVE  ClockInv'
  <1>0. values' = <<>> /\ NoAnswer'
    BY DEF Now, GetToday, CallClock, NoAnswer
  <1>1. clockCall' \in {"now", "date"} /\ began' = rtc /\ ticks' = 0 /\ rtc' = rtc
    BY DEF Now, GetToday, CallClock
  <1>2. Time(rtc') /\ Time(began')
    BY <1>1 DEF ClockInv
  <1>3. Passed'
    <2>1. rtc[1] \in 0 .. 59
      BY DEF ClockInv, Time
    <2> QED
      BY <1>1, <2>1 DEF Passed, SameMinute
  <1>4. ReadInv'
    <2>1. Len(values') = 0
      BY <1>0
    <2> QED
      BY <1>1, <2>1 DEF ReadInv
  <1>5. values' \in Seq(Word) /\ Len(values') = 0
    BY <1>0
  <1>6. Turned' /\ Torn'
    <2>1. Turned'
      BY <1>1 DEF Turned, SameMinute
    <2>2. TornAt(0)'
      BY <1>5 DEF TornAt
    <2> QED
      BY <2>1, <2>2 DEF Torn
  <1> QED
    BY <1>0, <1>1, <1>2, <1>3, <1>4, <1>5, <1>6, ClockAssumption DEF ClockInv

LEMMA OneMore ==
    ASSUME NEW r \in Int, NEW b \in Int, NEW t \in Int, r + 60 = b + t
    PROVE  (r + 1) + 60 = b + (t + 1)
  OBVIOUS

\* A second passes.
LEMMA MinuteTurns ==
    ASSUME ClockInv, Tick
    PROVE  Turned' /\ Torn'
  <1>1. /\ clockCall # "none" /\ ticks < MaxTicks /\ rtc' = After(rtc)
        /\ UNCHANGED <<values, began>>
    BY DEF Tick
  <1>2. /\ Time(rtc) /\ Time(began) /\ ticks \in 0 .. MaxTicks /\ MaxTicks \in 0 .. 59
        /\ Passed /\ Turned /\ Torn
    BY <1>1, ClockAssumption DEF ClockInv
  <1>3. rtc[1] \in 0 .. 59 /\ began[1] \in 0 .. 59
    BY <1>2 DEF Time
  <1>4. /\ rtc[1] # 59 => \A i \in 2 .. 6 : rtc'[i] = rtc[i]
        /\ rtc[1] = 59 => rtc'[2] # rtc[2]
    BY <1>1, <1>2, AfterTime
  <1>5. SameMinute' => SameMinute
    <2>1. CASE rtc[1] # 59
      BY <1>1, <1>4, <2>1 DEF SameMinute
    <2>2. CASE rtc[1] = 59 /\ ~SameMinute
      <3>1. rtc[1] + 60 = began[1] + ticks
        BY <1>2, <2>2 DEF Passed
      <3> QED
        BY <1>1, <1>2, <1>3, <2>2, <3>1
    <2> QED
      BY <2>1, <2>2
  <1>6. Torn'
    <2>1. PICK k \in 0 .. 6 : TornAt(k)
      BY <1>2 DEF Torn
    <2>2. TornAt(k)'
      BY <1>1, <1>5, <2>1 DEF TornAt
    <2> QED
      BY <2>2 DEF Torn
  <1>7. Turned'
    <2>1. CASE rtc[1] # 59
      BY <1>1, <1>2, <1>4, <2>1 DEF Turned, SameMinute
    <2>2. CASE rtc[1] = 59
      <3>1. rtc[2] = began[2] /\ rtc[3] = began[3] /\ rtc[4] = began[4] /\ rtc[5] = began[5] /\ rtc[6] = began[6]
        <4>1. SameMinute
          BY <1>1, <1>2, <1>3, <2>2 DEF Passed
        <4> QED
          BY <4>1 DEF SameMinute
      <3> DEFINE n == NextMinute(began)
                 u == After(rtc)
      <3>2. u[2] = n[2] /\ u[3] = n[3] /\ u[4] = n[4] /\ u[5] = n[5] /\ u[6] = n[6]
        BY <1>2, <2>2, <3>1, AfterFields, MinuteFields
      <3> HIDE DEF n, u
      <3>3. \A i \in 2 .. 6 : u[i] = n[i]
        BY <3>2
      <3> QED
        BY <1>1, <3>3 DEF Turned, u, n
    <2> QED
      BY <2>1, <2>2
  <1> QED
    BY <1>6, <1>7

LEMMA ClockTicks ==
    ASSUME ClockInv, Tick
    PROVE  ClockInv'
  <1>1. /\ clockCall # "none" /\ ticks < MaxTicks /\ rtc' = After(rtc) /\ ticks' = ticks + 1
        /\ UNCHANGED <<clockCall, values, date, answer, began>>
    BY DEF Tick
  <1>2. /\ Time(rtc) /\ Time(began) /\ ticks \in 0 .. MaxTicks /\ MaxTicks \in 0 .. 59
        /\ Passed /\ ReadInv /\ NoAnswer /\ NoAnswer'
    BY <1>1, ClockAssumption DEF ClockInv, NoAnswer
  <1>0. Turned' /\ Torn' /\ (clockCall = "time" => Triple(date))
    BY MinuteTurns DEF ClockInv
  <1>3. rtc[1] \in 0 .. 59 /\ began[1] \in 0 .. 59
    BY <1>2 DEF Time
  <1>4. /\ Time(rtc')
        /\ rtc[1] # 59 => rtc'[1] = rtc[1] + 1 /\ \A i \in 2 .. 6 : rtc'[i] = rtc[i]
        /\ rtc[1] = 59 => rtc'[1] = 0 /\ rtc'[2] # rtc[2]
    BY <1>1, <1>2, AfterTime
  <1>5. CASE SameMinute /\ rtc[1] = began[1] + ticks /\ rtc[1] # 59
    <2>1. SameMinute' /\ rtc'[1] = began'[1] + ticks' /\ rtc'[1] = rtc[1] + 1
      BY <1>1, <1>2, <1>3, <1>4, <1>5 DEF SameMinute
    <2>2. \A s : s \in began[1] .. rtc[1] => s \in began'[1] .. rtc'[1]
      BY <1>1, <1>3, <2>1
    <2>3. ReadInv'
      BY <1>1, <1>2, <1>5, <2>2 DEF ReadInv
    <2> QED
      BY <1>0, <1>1, <1>2, <1>4, <2>1, <2>3 DEF ClockInv, Passed
  <1>6. CASE SameMinute /\ rtc[1] = began[1] + ticks /\ rtc[1] = 59
    <2>1. rtc'[2] # began'[2] /\ rtc'[1] + 60 = began'[1] + ticks'
      BY <1>1, <1>2, <1>3, <1>4, <1>6 DEF SameMinute
    <2>2. ReadInv'
      BY <2>1 DEF ReadInv, SameMinute
    <2> QED
      BY <1>0, <1>1, <1>2, <1>4, <2>1, <2>2 DEF ClockInv, Passed
  <1>7. CASE rtc[2] # began[2] /\ rtc[1] + 60 = began[1] + ticks
    <2>1. rtc[1] # 59
      BY <1>1, <1>2, <1>3, <1>7
    <2>2. rtc'[2] # began'[2] /\ rtc'[1] + 60 = began'[1] + ticks'
      <3>1. rtc'[2] = rtc[2] /\ rtc'[1] = rtc[1] + 1
        BY <1>4, <2>1
      <3>2. rtc'[2] # began'[2]
        BY <1>1, <1>7, <3>1
      <3>3. began'[1] = began[1] /\ ticks' = ticks + 1 /\ ticks \in Int
        BY <1>1, <1>2
      <3>4. rtc'[1] + 60 = began'[1] + ticks'
        <4>1. rtc[1] + 60 = began[1] + ticks /\ rtc'[1] = rtc[1] + 1
          BY <1>7, <3>1
        <4>2. (rtc[1] + 1) + 60 = began[1] + (ticks + 1)
          <5>1. rtc[1] \in Int /\ began[1] \in Int /\ ticks \in Int
            BY <1>3, <3>3
          <5> QED
            BY <4>1, <5>1, OneMore
        <4> QED
          BY <3>3, <4>1, <4>2, Zenon
      <3> QED
        BY <3>2, <3>4
    <2>3. ReadInv'
      BY <2>2 DEF ReadInv, SameMinute
    <2> QED
      BY <1>0, <1>1, <1>2, <1>4, <2>2, <2>3 DEF ClockInv, Passed
  <1> QED
    BY <1>2, <1>5, <1>6, <1>7 DEF Passed

\* A register is read.
LEMMA ClockDumps ==
    ASSUME ClockInv, Dump
    PROVE  ClockInv'
  <1> DEFINE n == Len(values)
             v == Read(rtc[n + 1])
  <1>1. /\ clockCall # "none" /\ n < 6 /\ values' = Append(values, v)
        /\ UNCHANGED <<rtc, clockCall, date, answer, began, ticks>>
    BY DEF Dump, Read
  <1>0. values \in Seq(Word)
    BY DEF ClockInv
  <1>2. n \in 0 .. 5 /\ Time(rtc) /\ Passed /\ ReadInv /\ Time(began) /\ ticks \in 0 .. 59 /\ NoAnswer
    <2>1. n \in Nat
      BY <1>0
    <2>2. Time(rtc) /\ Passed /\ ReadInv /\ Time(began) /\ ticks \in 0 .. MaxTicks /\ NoAnswer
      BY <1>1 DEF ClockInv
    <2> HIDE DEF n
    <2> QED
      BY <1>1, <2>1, <2>2, ClockAssumption
  <1>3. v \in Word
    <2> HIDE DEF n
    <2>1. n + 1 \in 1 .. 6
      BY <1>2
    <2>2. rtc[n + 1] \in 0 .. 99
      BY <1>2, <2>1, TimeFields
    <2> QED
      BY <2>2, BcdRoundTrip DEF Read
  <1> HIDE DEF v
  <1>4. /\ values' \in Seq(Word) /\ Len(values') = n + 1
        /\ \A i \in 1 .. n : values'[i] = values[i]
        /\ values'[n + 1] = v
    BY <1>0, <1>1, <1>3, AppendProperties
  <1> HIDE DEF n
  <1>5. ASSUME SameMinute' PROVE ReadInv'
    <2>0. SameMinute
      BY <1>1, <1>5 DEF SameMinute
    <2>1. ASSUME NEW i \in 2 .. 6, i <= n + 1 PROVE values'[i] = Read(began[i])
      <3>1. CASE i <= n
        BY <1>2, <1>4, <2>0, <2>1, <3>1 DEF ReadInv, n
      <3>2. CASE i = n + 1
        <4>1. rtc[i] = began[i]
          BY <2>0 DEF SameMinute
        <4> QED
          BY <1>4, <3>2, <4>1 DEF v
      <3> QED
        BY <1>2, <2>1, <3>1, <3>2
    <2>2. \E s \in began[1] .. rtc[1] : values'[1] = Read(s)
      <3>1. CASE n = 0
        <4>1. rtc[1] \in began[1] .. rtc[1]
          <5>1. rtc[1] \in 0 .. 59 /\ began[1] \in 0 .. 59
            BY <1>2 DEF Time
          <5>2. rtc[1] = began[1] + ticks
            BY <1>2, <2>0 DEF Passed, SameMinute
          <5> QED
            BY <1>2, <5>1, <5>2
        <4> QED
          BY <1>4, <3>1, <4>1 DEF v
      <3>2. CASE n >= 1
        BY <1>2, <1>4, <2>0, <3>2 DEF ReadInv, n
      <3> QED
        BY <1>2, <3>1, <3>2
    <2>3. clockCall = "time" /\ began[6] < 80 => date = <<began[4], began[5], 2000 + began[6]>>
      BY <1>2, <2>0 DEF ReadInv
    <2> QED
      BY <1>1, <1>4, <2>1, <2>2, <2>3 DEF ReadInv
  <1>6. ReadInv' /\ Passed' /\ NoAnswer'
    BY <1>1, <1>2, <1>5 DEF ReadInv, Passed, SameMinute, NoAnswer
  <1>7. Turned /\ Torn /\ rtc[1] \in 0 .. 59 /\ began[1] \in 0 .. 59
    BY <1>1 DEF ClockInv, Time
  <1>8. Turned' /\ (SameMinute' <=> SameMinute)
    BY <1>1, <1>7 DEF Turned, SameMinute
  <1>9. PICK k \in 0 .. 6 : TornAt(k)
    BY <1>7 DEF Torn
  <1>10. k <= n /\ (SameMinute => k = n)
    BY <1>9 DEF TornAt, n
  <1>11. PICK j \in 0 .. 6 : j = IF SameMinute THEN n + 1 ELSE k
    <2>1. (IF SameMinute THEN n + 1 ELSE k) \in 0 .. 6
      BY <1>2
    <2> QED
      BY <2>1
  <1>12. j <= n + 1 /\ (SameMinute => j = n + 1) /\ (~SameMinute => j = k)
    BY <1>2, <1>10, <1>11
  <1>13. ASSUME NEW i \in 2 .. 6, i <= n + 1 PROVE values'[i] = Read(Field(began, j, i))
    <2>1. CASE i <= n
      <3>1. values'[i] = Read(Field(began, k, i))
        BY <1>2, <1>4, <1>9, <2>1 DEF TornAt, n
      <3>2. Field(began, k, i) = Field(began, j, i)
        BY <1>2, <1>10, <1>12, <2>1 DEF Field
      <3> QED
        BY <3>1, <3>2
    <2>2. CASE i = n + 1
      <3>1. Field(began, j, i) = IF SameMinute THEN began[i] ELSE NextMinute(began)[i]
        BY <1>2, <1>10, <1>12, <2>2 DEF Field
      <3>2. rtc[i] = IF SameMinute THEN began[i] ELSE NextMinute(began)[i]
        BY <1>7 DEF Turned, SameMinute
      <3>3. values'[i] = Read(rtc[i])
        BY <1>4, <2>2 DEF v
      <3> QED
        BY <3>1, <3>2, <3>3
    <2> QED
      BY <1>2, <1>13, <2>1, <2>2
  <1>14. \E s \in 0 .. 59 : values'[1] = Read(s) /\ (j >= 1 => began[1] <= s)
    <2>1. CASE n = 0
      <3>1. values'[1] = Read(rtc[1])
        BY <1>4, <2>1 DEF v
      <3>2. j >= 1 => SameMinute
        BY <1>10, <1>12, <2>1
      <3>3. SameMinute => rtc[1] = began[1] + ticks
        BY <1>2 DEF Passed, SameMinute
      <3>4. j >= 1 => began[1] <= rtc[1]
        BY <1>2, <1>7, <3>2, <3>3
      <3> QED
        BY <1>7, <3>1, <3>4
    <2>2. CASE n >= 1
      <3>1. PICK s \in 0 .. 59 : values[1] = Read(s) /\ (k >= 1 => began[1] <= s)
        BY <1>9, <2>2 DEF TornAt, n
      <3>2. values'[1] = values[1]
        BY <1>2, <1>4, <2>2
      <3>3. j >= 1 => k >= 1
        BY <1>10, <1>12, <2>2
      <3> QED
        BY <3>1, <3>2, <3>3
    <2> QED
      BY <1>2, <2>1, <2>2
  <1>15. Torn'
    <2>1. TornAt(j)'
      BY <1>1, <1>4, <1>8, <1>12, <1>13, <1>14 DEF TornAt
    <2> QED
      BY <1>12, <2>1 DEF Torn
  <1>16. clockCall = "time" => Triple(date)
    BY DEF ClockInv
  <1> QED
    BY <1>1, <1>2, <1>4, <1>6, <1>8, <1>15, <1>16 DEF ClockInv, n

\* What was read is converted back.
LEMMA ReadBack ==
    ASSUME ClockInv, clockCall # "none", SameMinute, Len(values) = 6
    PROVE  /\ \A i \in 2 .. 6 : began[i] < 80 => FromBcd(values[i]) = began[i]
           /\ FromBcd(values[1]) \in began[1] .. rtc[1]
           /\ clockCall = "time" /\ began[6] < 80 => date = <<began[4], began[5], 2000 + began[6]>>
  <1>1. /\ \A i \in 2 .. 6 : values[i] = Read(began[i])
        /\ \E s \in began[1] .. rtc[1] : values[1] = Read(s)
        /\ clockCall = "time" /\ began[6] < 80 => date = <<began[4], began[5], 2000 + began[6]>>
    BY DEF ClockInv, ReadInv
  <1>2. Time(began) /\ Time(rtc)
    BY DEF ClockInv
  <1>3. \A i \in 1 .. 6 : began[i] \in 0 .. 99
    BY <1>2, TimeFields
  <1>4. ASSUME NEW i \in 2 .. 6, began[i] < 80 PROVE FromBcd(values[i]) = began[i]
    <2>1. values[i] = Read(began[i]) /\ began[i] \in 0 .. 99
      BY <1>1, <1>3
    <2>2. FromBcd(Read(began[i])) = began[i]
      BY <1>4, <2>1, BcdRoundTrip DEF Read
    <2> QED
      BY <2>1, <2>2
  <1>5. PICK s \in began[1] .. rtc[1] : values[1] = Read(s)
    BY <1>1
  <1>6. began[1] \in 0 .. 59 /\ rtc[1] \in 0 .. 59
    BY <1>2 DEF Time
  <1>7. s \in 0 .. 99 /\ s < 80
    BY <1>6
  <1>8. FromBcd(values[1]) = s
    BY <1>5, <1>7, BcdRoundTrip DEF Read
  <1> QED
    BY <1>1, <1>4, <1>8

\* All fields but the year's are below 80.
LEMMA LowFields ==
    ASSUME NEW t, Time(t)
    PROVE  \A i \in 1 .. 5 : t[i] < 80
  BY MonthLengths DEF Time

\* The first half of get_today.
LEMMA ClockDates ==
    ASSUME ClockInv, GetDate
    PROVE  ClockInv'
  <1>1. /\ clockCall = "date" /\ Len(values) = 6 /\ clockCall' = "time"
        /\ date' = <<FromBcd(values[4]), FromBcd(values[5]), 2000 + FromBcd(values[6])>>
        /\ UNCHANGED <<rtc, answer, began, ticks>>
    BY DEF GetDate
  <1>2. values' \in Seq(Word) /\ Len(values') = 0
    BY DEF GetDate
  <1>3. Time(rtc) /\ Time(began) /\ Passed /\ NoAnswer /\ ticks \in 0 .. MaxTicks
    BY <1>1 DEF ClockInv
  <1>4. Passed' /\ NoAnswer' /\ SameMinute' = SameMinute
    BY <1>1, <1>3 DEF Passed, NoAnswer, SameMinute
  <1>5. SameMinute /\ began[6] < 80 => date' = <<began[4], began[5], 2000 + began[6]>>
    <2>1. began[4] < 80 /\ began[5] < 80
      BY <1>3, LowFields
    <2> QED
      BY <1>1, <2>1, ReadBack
  <1>6. ReadInv'
    BY <1>1, <1>2, <1>4, <1>5 DEF ReadInv
  <1>7. Turned' /\ Torn'
    <2>1. Turned'
      BY <1>1, <1>4 DEF ClockInv, Turned
    <2>2. TornAt(0)'
      BY <1>2 DEF TornAt
    <2> QED
      BY <2>1, <2>2 DEF Torn
  <1>8. Triple(date')
    BY <1>1 DEF Triple
  <1> QED
    BY <1>1, <1>2, <1>3, <1>4, <1>6, <1>7, <1>8 DEF ClockInv

\* What now() makes of a reading that is below 2^32 seconds.
LEMMA NowComputes ==
    ASSUME NEW v, DaysBefore(FromBcd(v[5]), FromBcd(v[6])) + FromBcd(v[4]) - 1 < 49710
    PROVE  LET f(i) == FromBcd(v[i])
           IN  TimeOfDay(v) = <<DaysBefore(f(5), f(6)) + f(4) - 1, OfDay(f(3), f(2), f(1))>>
  <1> DEFINE f == [i \in 1 .. 6 |-> FromBcd(v[i])]
  <1>1. /\ f[1] = FromBcd(v[1]) /\ f[2] = FromBcd(v[2]) /\ f[3] = FromBcd(v[3])
        /\ f[4] = FromBcd(v[4]) /\ f[5] = FromBcd(v[5]) /\ f[6] = FromBcd(v[6])
    OBVIOUS
  <1>2. TimeOfDay(v) = Wrapped(DaysBefore(f[5], f[6]) + f[4] - 1, OfDay(f[3], f[2], f[1]))
    BY DEF TimeOfDay, DaysBefore, OfDay
  <1> HIDE DEF f
  <1>3. DaysBefore(f[5], f[6]) + f[4] - 1 < 49710
    BY <1>1
  <1>4. TimeOfDay(v) = <<DaysBefore(f[5], f[6]) + f[4] - 1, OfDay(f[3], f[2], f[1])>>
    BY <1>2, <1>3 DEF Wrapped
  <1> QED
    BY <1>1, <1>4

\* The times until 2079 are.
Short(mo, y, d) == DaysBefore(mo, y) + d - 1 < 49710

LEMMA BelowWrap ==
    ASSUME NEW mo \in 1 .. 12, NEW y \in 0 .. 79, NEW d \in 1 .. 31
    PROVE  Short(mo, y, d)
  <1>1. /\ DaysBefore(mo, y) = 365 * (y + 30) + Leaps(1999 + y) - 477 + DaysOfMonths(mo - 1, y)
        /\ Leaps(1999 + y) \in Int /\ DaysOfMonths(mo - 1, y) \in Int
    BY DaysBeforeClosed
  <1>2. Leaps(1999 + y) <= 600
    <2> DEFINE n == 1999 + y
    <2>1. n \in 1999 .. 2078
      OBVIOUS
    <2> HIDE DEF n
    <2>2. n \div 4 <= 520 /\ n \div 100 >= 0 /\ n \div 400 <= 6
          /\ n \div 4 \in Int /\ n \div 100 \in Int /\ n \div 400 \in Int
      BY <2>1
    <2>3. Leaps(n) <= 600
      BY <2>2 DEF Leaps
    <2> QED
      BY <2>3 DEF n
  <1>3. DaysOfMonths(mo - 1, y) <= 400
    BY DEF DaysOfMonths
  <1> QED
    BY <1>1, <1>2, <1>3 DEF Short

\* now() returns.
LEMMA NowAfterCall ==
    ASSUME ClockInv, clockCall # "none", Len(values) = 6, began[6] <= rtc[6], rtc[6] < 80
    PROVE  NotAfter(Epoch(began), TimeOfDay(values))
  <1>1. Time(began) /\ Turned /\ Torn
    BY DEF ClockInv
  <1>2. PICK k \in 0 .. 6 : TornAt(k)
    BY <1>1 DEF Torn
  <1>3. /\ \A i \in 2 .. 6 : values[i] = Read(Field(began, k, i))
        /\ \E s \in 0 .. 59 : values[1] = Read(s) /\ (k >= 1 => began[1] <= s)
        /\ SameMinute => k = 6
    BY <1>2 DEF TornAt
  <1>4. PICK s \in 0 .. 59 : values[1] = Read(s) /\ (k >= 1 => began[1] <= s)
    BY <1>3
  <1>5. FromBcd(values[1]) = s
    <2>1. s \in 0 .. 99 /\ s < 80
      OBVIOUS
    <2> QED
      BY <1>4, <2>1, BcdRoundTrip DEF Read
  <1>6. ASSUME NEW i \in 2 .. 6
        PROVE  FromBcd(values[i]) = Field(began, k, i) /\ Field(began, k, i) \in 0 .. 79
    <2>1. Time(NextMinute(began))
      BY <1>1, MinuteFields
    <2>2. i \in 1 .. 6
      OBVIOUS
    <2>3. began[i] \in 0 .. 99 /\ NextMinute(began)[i] \in 0 .. 99
      BY <1>1, <2>1, <2>2, TimeFields
    <2>4. Field(began, k, i) \in 0 .. 99
      BY <2>3 DEF Field
    <2>6. Field(began, k, i) < 80
      <3>1. CASE i = 6
        <4>1. began[6] \in 0 .. 99 /\ rtc[6] \in 0 .. 99
          BY TimeFields DEF ClockInv
        <4>2. CASE SameMinute
          <5>1. Field(began, k, 6) = began[6]
            BY <1>3, <4>2 DEF Field
          <5> QED
            BY <3>1, <4>1, <5>1
        <4>3. CASE ~SameMinute
          <5>1. rtc[6] = NextMinute(began)[6]
            BY <1>1, <4>3 DEF Turned
          <5>2. Field(began, k, 6) \in {began[6], rtc[6]}
            BY <5>1 DEF Field
          <5> QED
            BY <3>1, <4>1, <5>2
        <4> QED
          BY <4>2, <4>3
      <3>2. CASE i \in 1 .. 5
        <4>1. began[i] < 80 /\ NextMinute(began)[i] < 80
          BY <1>1, <2>1, <3>2, LowFields
        <4> QED
          BY <4>1 DEF Field
      <3> QED
        BY <2>2, <3>1, <3>2
    <2>5. values[i] = Read(Field(began, k, i))
      BY <1>3
    <2> QED
      BY <2>4, <2>5, <2>6, BcdRoundTrip DEF Read
  <1> DEFINE f(i) == Field(began, k, i)
  <1>7. /\ FromBcd(values[2]) = f(2) /\ FromBcd(values[3]) = f(3) /\ FromBcd(values[4]) = f(4)
        /\ FromBcd(values[5]) = f(5) /\ FromBcd(values[6]) = f(6)
    BY <1>6
  <1>8. TimeOfDay(values) = <<DaysBefore(f(5), f(6)) + f(4) - 1, OfDay(f(3), f(2), s)>>
    <2>1. f(5) \in 1 .. 12 /\ f(6) \in 0 .. 79 /\ f(4) \in 1 .. 31
      <3>1. Time(NextMinute(began))
        BY <1>1, MinuteFields
      <3> QED
        BY <1>1, <1>6, <3>1, MonthLengths DEF Time, Field
    <2> HIDE DEF f
    <2>2. Short(f(5), f(6), f(4))
      BY <2>1, BelowWrap
    <2>3. DaysBefore(f(5), f(6)) + f(4) - 1 < 49710
      BY <2>2 DEF Short
    <2> QED
      BY <1>5, <1>7, <2>3, NowComputes
  <1>9. k = 6 \/ began[6] <= NextMinute(began)[6]
    BY <1>1, <1>3 DEF Turned
  <1>10. NotAfter(Epoch(began), <<DaysBefore(f(5), f(6)) + f(4) - 1, OfDay(f(3), f(2), s)>>)
    BY <1>1, <1>4, <1>9, TornLater
  <1> QED
    BY <1>8, <1>10

LEMMA NowWithinCall ==
    ASSUME ClockInv, clockCall # "none", Len(values) = 6, SameMinute, began[6] < 80
    PROVE  NotAfter(TimeOfDay(values), Epoch(rtc))
  <1>1. Time(began) /\ Time(rtc)
    BY DEF ClockInv
  <1>2. /\ \A i \in 2 .. 6 : FromBcd(values[i]) = rtc[i]
        /\ FromBcd(values[1]) \in began[1] .. rtc[1]
    <2>1. \A i \in 2 .. 6 : began[i] < 80
      BY <1>1, LowFields
    <2> QED
      BY <2>1, ReadBack DEF SameMinute
  <1> DEFINE s == FromBcd(values[1])
             day == DaysBefore(rtc[5], rtc[6]) + rtc[4] - 1
  <1>3. /\ FromBcd(values[2]) = rtc[2] /\ FromBcd(values[3]) = rtc[3] /\ FromBcd(values[4]) = rtc[4]
        /\ FromBcd(values[5]) = rtc[5] /\ FromBcd(values[6]) = rtc[6]
    BY <1>2
  <1>4. TimeOfDay(values) = <<day, OfDay(rtc[3], rtc[2], s)>>
    <2>1. rtc[5] \in 1 .. 12 /\ rtc[6] \in 0 .. 79 /\ rtc[4] \in 1 .. 31
      BY <1>1, MonthLengths DEF Time, SameMinute
    <2>2. day < 49710
      <3>1. Short(rtc[5], rtc[6], rtc[4])
        BY <2>1, BelowWrap
      <3> QED
        BY <3>1 DEF Short
    <2> QED
      BY <1>3, <2>2, NowComputes
  <1>5. DaysBefore(rtc[5], rtc[6]) \in Int /\ Epoch(rtc) = <<day, OfDay(rtc[3], rtc[2], rtc[1])>>
    BY <1>1, EpochDay DEF OfDay
  <1>6. /\ rtc[1] \in 0 .. 59 /\ rtc[2] \in 0 .. 59 /\ rtc[3] \in 0 .. 23 /\ rtc[4] \in Int
        /\ began[1] \in 0 .. 59
    BY <1>1, TimeFields DEF Time
  <1>7. s \in 0 .. 59 /\ s <= rtc[1]
    BY <1>2, <1>6
  <1>8. day \in Int
    <2> DEFINE b == DaysBefore(rtc[5], rtc[6])
    <2>1. b \in Int
      BY <1>5
    <2> HIDE DEF b
    <2>2. b + rtc[4] - 1 \in Int
      BY <1>6, <2>1
    <2> QED
      BY <2>2 DEF b
  <1> HIDE DEF s, day
  <1>9. /\ OfDay(rtc[3], rtc[2], s) \in Int /\ OfDay(rtc[3], rtc[2], rtc[1]) \in Int
        /\ OfDay(rtc[3], rtc[2], s) <= OfDay(rtc[3], rtc[2], rtc[1])
    BY <1>6, <1>7, LaterInMinute
  <1>10. NotAfter(<<day, OfDay(rtc[3], rtc[2], s)>>, <<day, OfDay(rtc[3], rtc[2], rtc[1])>>)
    BY <1>8, <1>9, Later
  <1> QED
    BY <1>4, <1>5, <1>10

LEMMA ClockNow ==
    ASSUME ClockInv, NowReturns
    PROVE  ClockInv'
  <1>1. /\ clockCall = "now" /\ Len(values) = 6 /\ clockCall' = "none"
        /\ answer' = TimeOfDay(values)
        /\ UNCHANGED <<rtc, values, date, began, ticks>>
    BY DEF NowReturns
  <1>2. Len(TimeOfDay(values)) = 2
    <2>1. ASSUME NEW d, NEW n PROVE Len(Wrapped(d, n)) = 2
      BY DEF Wrapped
    <2> QED
      BY <2>1 DEF TimeOfDay
  <1>3. Len(answer') # 6
    BY <1>1, <1>2
  <1>4. TodayRight'
    BY <1>3 DEF TodayRight, TodayAnswered
  <1>5. NowRight'
    <2>0. began[6] \in 0 .. 99 /\ rtc[6] \in 0 .. 99
      BY TimeFields DEF ClockInv
    <2>1. began[6] <= rtc[6] /\ rtc[6] < 80 => NotAfter(Epoch(began), answer')
      BY <1>1, NowAfterCall
    <2>2. SameMinute /\ began[6] < 80 => NotAfter(answer', Epoch(rtc))
      BY <1>1, NowWithinCall
    <2>3. began' = began /\ rtc' = rtc /\ SameMinute' = SameMinute
      BY <1>1 DEF SameMinute
    <2>4. ASSUME rtc[6] \in began[6] .. 79 PROVE began[6] <= rtc[6] /\ rtc[6] < 80 /\ began[6] < 80
      BY <2>0, <2>4
    <2> QED
      BY <2>1, <2>2, <2>3, <2>4 DEF NowRight
  <1> QED
    BY <1>1, <1>4, <1>5 DEF ClockInv

\* get_today leaves a date a date.
LEMMA TestsOfTriple ==
    ASSUME NEW t, Triple(t)
    PROVE  Triple(NewYear(February(EvenMonth(OddMonth(t)))))
  <1>1. ASSUME NEW u, Triple(u)
        PROVE  Triple(OddMonth(u)) /\ Triple(EvenMonth(u)) /\ Triple(February(u)) /\ Triple(NewYear(u))
    BY <1>1, Zenon DEF Triple, OddMonth, EvenMonth, February, NewYear
  <1> QED
    BY <1>1

LEMMA AnswerLength ==
    ASSUME NEW a, NEW b, NEW c, NEW h, NEW m, NEW s
    PROVE  Len(<<a, b, c>> \o <<h, m, s>>) = 6
  <1> DEFINE S == {a, b, c, h, m, s}
  <1>1. <<a, b, c>> \in Seq(S) /\ <<h, m, s>> \in Seq(S)
    OBVIOUS
  <1> QED
    BY <1>1, ConcatProperties

\* The second half of get_today.
LEMMA ClockToday ==
    ASSUME ClockInv, TodayReturns
    PROVE  ClockInv'
  <1> DEFINE h == FromBcd(values[3])
             day == IF Hour(h)[2] THEN <<date[1] + 1, date[2], date[3]>> ELSE date
             R == NewYear(February(EvenMonth(OddMonth(day))))
  <1>1. /\ clockCall = "time" /\ Len(values) = 6 /\ clockCall' = "none"
        /\ answer' = R \o <<Hour(h)[1], FromBcd(values[2]), FromBcd(values[1])>>
        /\ UNCHANGED <<rtc, values, date, began, ticks>>
    BY DEF TodayReturns
  <1>2. ASSUME SameMinute, Known(began), began[6] < 80
        PROVE  /\ SubSeq(answer', 1, 5) = Local(began)
               /\ began[1] <= answer'[6] /\ answer'[6] <= rtc[1]
    <2>0. \A i \in 2 .. 6 : began[i] < 80
      BY <1>2, LowFields DEF ClockInv
    <2>1. /\ \A i \in 2 .. 6 : FromBcd(values[i]) = began[i]
          /\ FromBcd(values[1]) \in began[1] .. rtc[1]
          /\ date = <<began[4], began[5], 2000 + began[6]>>
      BY <1>1, <1>2, <2>0, ReadBack
    <2>2. Time(began) /\ Time(rtc)
      BY DEF ClockInv
    <2>3. began[3] \in 0 .. 23 /\ h = began[3]
      BY <2>1, <2>2 DEF Time
    <2>4. h = began[3] /\ (began[3] >= 24 - timezone => Hour(h)[2])
          /\ (~(began[3] >= 24 - timezone) => ~Hour(h)[2])
          /\ Hour(h)[1] = (began[3] + timezone) % 24
      BY <2>3, LocalHour
    <2> HIDE DEF h
    <2> DEFINE d == <<began[4], began[5], 2000 + began[6]>>
               late == began[3] >= 24 - timezone
               want == IF late THEN NextDay(d) ELSE d
    <2>5. R = want
      <3>1. day = IF late THEN <<d[1] + 1, d[2], d[3]>> ELSE d
        <4> HIDE DEF late, d
        <4>1. date = d /\ (late => Hour(h)[2]) /\ (~late => ~Hour(h)[2])
          BY <2>1, <2>4 DEF late, d
        <4> QED
          BY <4>1
      <3> HIDE DEF day
      <3>2. NewYear(February(EvenMonth(OddMonth(IF late THEN <<d[1] + 1, d[2], d[3]>> ELSE d)))) = want
        BY <1>2, <2>2, DayFound
      <3> QED
        BY <3>1, <3>2
    <2>6. PICK a, b, c : want = <<a, b, c>>
      BY DEF NextDay
    <2> HIDE DEF R, want
    <2>7. FromBcd(values[2]) = began[2]
      BY <2>1
    <2> DEFINE g == (began[3] + timezone) % 24
               se == FromBcd(values[1])
    <2>8. answer' = <<a, b, c>> \o <<g, began[2], se>>
      BY <1>1, <2>4, <2>5, <2>6, <2>7
    <2>9. Local(began) = <<a, b, c>> \o <<g, began[2]>>
      <3>1. Local(began) = want \o <<g, began[2]>>
        BY DEF Local, want
      <3> QED
        BY <2>6, <3>1
    <2> HIDE DEF g, se
    <2>10. SubSeq(answer', 1, 5) = Local(began) /\ answer'[6] = se
      <3>1. PutTogether(answer', Local(began), a, b, c, g, began[2], se)
        BY <2>8, <2>9 DEF PutTogether
      <3> QED
        BY <3>1, AnswerFields
    <2>11. began[1] <= se /\ se <= rtc[1]
      <3>1. began[1] \in Int /\ rtc[1] \in Int
        BY <2>2 DEF Time
      <3> QED
        BY <2>1, <3>1 DEF se
    <2> QED
      BY <2>10, <2>11
  <1>3. TodayRight'
    <2> SUFFICES ASSUME SameMinute', Known(began)', began'[6] < 80
                 PROVE  /\ SubSeq(answer, 1, 5)' = Local(began)'
                        /\ began'[1] <= answer'[6] /\ answer'[6] <= rtc'[1]
      BY DEF TodayRight, Known
    <2>1. SameMinute /\ Known(began) /\ began[6] < 80
      BY <1>1 DEF SameMinute, Known
    <2>2. /\ SubSeq(answer', 1, 5) = Local(began)
          /\ began[1] <= answer'[6] /\ answer'[6] <= rtc[1]
      BY <1>2, <2>1
    <2> QED
      BY <1>1, <2>2
  <1>4. Triple(day)
    <2>1. PICK a, b, c : date = <<a, b, c>>
      BY <1>1 DEF ClockInv, Triple
    <2> QED
      BY <2>1 DEF Triple
  <1>5. Triple(R)
    <2> HIDE DEF day
    <2> QED
      BY <1>4, TestsOfTriple
  <1>6. NowRight'
    <2> HIDE DEF R, h
    <2>1. PICK a, b, c : R = <<a, b, c>>
      BY <1>5 DEF Triple
    <2>2. Len(answer') = 6
      BY <1>1, <2>1, AnswerLength
    <2>3. Len(answer') # 2
      BY <2>2
    <2> QED
      BY <2>3 DEF NowRight, NowAnswered
  <1> QED
    BY <1>1, <1>3, <1>6 DEF ClockInv

LEMMA ClockStep == ClockInv /\ [ClockNext]_clockVars => ClockInv'
  <1> SUFFICES ASSUME ClockInv, [ClockNext]_clockVars PROVE ClockInv'
    OBVIOUS
  <1>1. CASE UNCHANGED clockVars
    <2>1. UNCHANGED <<rtc, clockCall, values, date, answer, began, ticks>>
      BY <1>1 DEF clockVars
    <2>2. (Passed' <=> Passed) /\ (ReadInv' <=> ReadInv) /\ (NoAnswer' <=> NoAnswer)
      BY <2>1 DEF Passed, ReadInv, NoAnswer, SameMinute
    <2>4. (Turned' <=> Turned) /\ (Torn' <=> Torn)
      BY <2>1 DEF Turned, Torn, TornAt, SameMinute
    <2>5. NowRight' <=> NowRight
      BY <2>1 DEF NowRight, NowAnswered, ClockIdle, SameMinute
    <2>3. TodayRight' <=> TodayRight
      BY <2>1 DEF TodayRight, TodayAnswered, ClockIdle, SameMinute
    <2> QED
      BY <2>1, <2>2, <2>3, <2>4, <2>5 DEF ClockInv
  <1> QED
    BY <1>1, ClockCalled, ClockTicks, ClockDumps, ClockDates, ClockNow, ClockToday DEF ClockNext

-----------------------------------------------------------------------------
(* The one thread.                                                         *)

LEMMA DevicesInvariance == Spec => [](DiskInv /\ ClockInv)
  <1>1. Init => DiskInv /\ ClockInv
    BY InitDisk, InitClock DEF Init
  <1>2. DiskInv /\ ClockInv /\ [Next]_vars => DiskInv' /\ ClockInv'
    BY DiskStep, ClockStep DEF Next, ClockTurn, DiskTurn, vars
  <1> QED
    BY <1>1, <1>2, PTL DEF Spec

\* Type correctness: whatever the drive does, no loop moves more words than a sector
\* has, and what is stored of the clock's registers are 16 bits.
THEOREM DevicesTypeCorrect == Spec => []TypeOK
  <1>1. DiskInv /\ ClockInv => TypeOK
    BY TimeFields DEF DiskInv, ClockInv, TypeOK, ClockTypeOK
  <1> QED
    BY <1>1, DevicesInvariance, PTL

\* For every sector size and every drive, no call leaves the drive waiting for words,
\* and one that was answered without an error moved them all.
THEOREM TransfersAlwaysWhole == Spec => []TransfersWhole
  <1>1. DiskInv => TransfersWhole
    <2> SUFFICES ASSUME DiskInv, DiskIdle PROVE TransfersWhole
      BY DEF TransfersWhole
    <2>1. step = "none" /\ (~Present => drive = "ready")
      BY DEF DiskInv, DiskTypeOK, DiskIdle
    <2>2. drive # "data"
      BY <2>1 DEF DiskInv, StepInv
    <2> QED
      BY <2>1, <2>2 DEF DiskInv, TransfersWhole
  <1> QED
    BY <1>1, DevicesInvariance, PTL

\* For every time of the calendar from 2000 to 2079, however the seconds fall between
\* the registers that are read: if the minute stays the same, get_today is right on all
\* days of January to July and on the first 29 days of the other months.
THEOREM TodayAlwaysRight == Spec => []TodayRight
  <1>1. ClockInv => TodayRight
    BY DEF ClockInv, TodayRight, TodayAnswered, ClockIdle
  <1> QED
    BY <1>1, DevicesInvariance, PTL

\* For every time of the calendar until 2079, the last year whose register is stored
\* without a sign, however the seconds fall between the registers: a torn reading is
\* never a time before the call, whichever of its fields are of the next minute, and if
\* the minute stays the same now() is exact.  The arithmetic of cmos.h, a loop over the
\* years and a switch that falls through the months, comes to the closed form of the
\* days since 1970.
THEOREM NowAlwaysRight == Spec => []NowRight
  <1>1. ClockInv => NowRight
    BY DEF ClockInv, NowRight, NowAnswered, ClockIdle
  <1> QED
    BY <1>1, DevicesInvariance, PTL
=============================================================================
