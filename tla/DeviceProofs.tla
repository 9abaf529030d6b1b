---------------------------- MODULE DeviceProofs ----------------------------
(***************************************************************************)
(* Proofs about Device.  UsbInv and ImageInv are the inductive invariants  *)
(* of its two halves, each proved step by step over the half's own actions *)
(* and then carried to the device, whose steps leave one half alone or     *)
(* start both anew.                                                        *)
(***************************************************************************)
EXTENDS Device, TLAPS

\* The notice that is being written is the only place its drops are in.
NoticesAreWritten == writer.at # "Notice" => writer.notice = 0

\* Only a record that asks for it is flushed.
FlushesAreAsked == writer.at = "Flush" => writer.record = "Flush"

\* Until it sends its record, a wait that began with none pending sees none.
NonePending == console.at = "Send" /\ ~older => ~FlushPending /\ ~flushed

\* Afterwards there is one at most.
OnePending ==
  console.at = "Wait" /\ ~older =>
    /\ InWriter => ~InQueue
    /\ \A i, j \in 1..Len(lines) : lines[i] = "Flush" /\ lines[j] = "Flush" => i = j

UsbInv ==
  /\ LogTypeOK
  /\ NoticesAreWritten /\ DropsAreCounted
  /\ FlushesAreAsked /\ NonePending /\ OnePending /\ EarlyFlushIsOwn

-----------------------------------------------------------------------------
(* The console and its output.                                             *)

LEMMA NoRecords == <<>> \in Seq(Records) /\ Len(<<>>) = 0
  OBVIOUS

LEMMA LogInitial == LogInit => UsbInv
<1> SUFFICES ASSUME LogInit PROVE UsbInv
  OBVIOUS
<1>1. LogTypeOK
  <2>1. lines \in Seq(Records) /\ Len(lines) <= Capacity
    BY NoRecords, UsbLogAssumption DEF LogInit
  <2>2. writer \in [at : {"Receive", "Notice", "Line", "Flush"}, record : Records, notice : Nat]
    BY DEF LogInit, Receiving, Records
  <2>3. console \in [at : {"Read", "Reply", "Send", "Wait", "Reset", "Spin"},
                      command : Commands]
    BY DEF LogInit, Reading, Commands, Flushing
  <2> QED BY <2>1, <2>2, <2>3 DEF LogInit, LogTypeOK
<1>2. NoticesAreWritten /\ DropsAreCounted /\ FlushesAreAsked
  BY DEF LogInit, NoticesAreWritten, DropsAreCounted, FlushesAreAsked, Receiving
<1>3. NonePending /\ OnePending /\ EarlyFlushIsOwn
  BY DEF LogInit, NonePending, OnePending, EarlyFlushIsOwn, Reading
<1> QED BY <1>1, <1>2, <1>3 DEF UsbInv

LEMMA LogRestarted == LogRestarts => UsbInv'
<1> SUFFICES ASSUME LogRestarts PROVE UsbInv'
  OBVIOUS
<1>1. LogTypeOK'
  <2>1. lines' \in Seq(Records) /\ Len(lines') <= Capacity
    BY NoRecords, UsbLogAssumption DEF LogRestarts
  <2>2. writer' \in [at : {"Receive", "Notice", "Line", "Flush"}, record : Records, notice : Nat]
    BY DEF LogRestarts, Receiving, Records
  <2>3. console' \in [at : {"Read", "Reply", "Send", "Wait", "Reset", "Spin"},
                      command : Commands]
    BY DEF LogRestarts, Reading, Commands, Flushing
  <2> QED BY <2>1, <2>2, <2>3 DEF LogRestarts, LogTypeOK
<1>2. NoticesAreWritten' /\ DropsAreCounted' /\ FlushesAreAsked'
  BY DEF LogRestarts, NoticesAreWritten, DropsAreCounted, FlushesAreAsked, Receiving
<1>3. NonePending' /\ OnePending' /\ EarlyFlushIsOwn'
  BY DEF LogRestarts, NonePending, OnePending, EarlyFlushIsOwn, Reading
<1> QED BY <1>1, <1>2, <1>3 DEF UsbInv

LEMMA UsbUnchanged == UsbInv /\ UNCHANGED usbVars => UsbInv'
  BY DEF usbVars, UsbInv, LogTypeOK, NoticesAreWritten, DropsAreCounted, FlushesAreAsked,
         NonePending, OnePending, EarlyFlushIsOwn, FlushPending, InQueue, InWriter

\* What a queue holds after a record was added, and after its first was taken.
LEMMA Appended ==
  ASSUME NEW queue \in Seq(Records), NEW record \in Records
  PROVE  /\ Append(queue, record) \in Seq(Records)
         /\ Len(Append(queue, record)) = Len(queue) + 1
         /\ \A i \in 1..Len(queue) : Append(queue, record)[i] = queue[i]
         /\ Append(queue, record)[Len(queue) + 1] = record
  OBVIOUS

LEMMA Taken ==
  ASSUME NEW queue \in Seq(Records), queue # <<>>
  PROVE  /\ Head(queue) \in Records /\ Head(queue) = queue[1]
         /\ Tail(queue) \in Seq(Records)
         /\ Len(queue) \in Nat \ {0}
         /\ Len(Tail(queue)) = Len(queue) - 1
         /\ \A i \in 1..(Len(queue) - 1) : Tail(queue)[i] = queue[i + 1]
  OBVIOUS

\* A line that asks for no flush changes nothing that waits depend on.
LEMMA LineQueued ==
  ASSUME UsbInv, Room, lines' = Append(lines, "Line"), UNCHANGED <<flushed, writer, older>>,
         console'.at \notin {"Send", "Wait"} \/ console' = console
  PROVE  /\ lines' \in Seq(Records) /\ Len(lines') <= Capacity
         /\ NonePending' /\ OnePending' /\ EarlyFlushIsOwn'
<1> USE UsbLogAssumption
<1>1. lines \in Seq(Records) /\ "Line" \in Records
  BY DEF UsbInv, LogTypeOK, Records
<1>2. /\ lines' \in Seq(Records) /\ Len(lines') = Len(lines) + 1
      /\ \A i \in 1..Len(lines) : lines'[i] = lines[i]
      /\ lines'[Len(lines) + 1] = "Line"
  BY <1>1, Appended
<1>3. Len(lines) \in Nat /\ Len(lines') <= Capacity
  BY <1>1, <1>2 DEF Room
<1>4. InQueue' <=> InQueue
  BY <1>2, <1>3 DEF InQueue
<1>5. InWriter' <=> InWriter
  BY DEF InWriter
<1>6. NonePending'
  BY <1>4, <1>5 DEF UsbInv, NonePending, FlushPending
<1>7. OnePending'
  BY <1>2, <1>3, <1>4, <1>5 DEF UsbInv, OnePending
<1>8. EarlyFlushIsOwn'
  BY <1>4, <1>5 DEF UsbInv, EarlyFlushIsOwn, FlushPending
<1> QED BY <1>2, <1>3, <1>6, <1>7, <1>8

LEMMA LogKeeps == UsbInv /\ Log => UsbInv'
<1> SUFFICES ASSUME UsbInv, Log PROVE UsbInv'
  OBVIOUS
<1>1. CASE Room
  <2>1. lines' = Append(lines, "Line")
        /\ UNCHANGED <<dropped, total_dropped, flushed, writer, console, announced, older>>
    BY <1>1 DEF Log
  <2>2. /\ lines' \in Seq(Records) /\ Len(lines') <= Capacity
        /\ NonePending' /\ OnePending' /\ EarlyFlushIsOwn'
    BY <1>1, <2>1, LineQueued
  <2> QED
    BY <2>1, <2>2
       DEF UsbInv, LogTypeOK, NoticesAreWritten, DropsAreCounted, FlushesAreAsked
<1>2. CASE ~Room
  <2>1. /\ dropped' = dropped + 1 /\ total_dropped' = total_dropped + 1
        /\ UNCHANGED <<lines, flushed, writer, console, announced, older>>
    BY <1>2 DEF Log
  <2>2. LogTypeOK' /\ NoticesAreWritten' /\ DropsAreCounted' /\ FlushesAreAsked'
    BY <2>1 DEF UsbInv, LogTypeOK, NoticesAreWritten, DropsAreCounted, FlushesAreAsked
  <2>3. NonePending' /\ OnePending' /\ EarlyFlushIsOwn'
    BY <2>1
       DEF UsbInv, NonePending, OnePending, EarlyFlushIsOwn, FlushPending, InQueue, InWriter
  <2> QED BY <2>2, <2>3 DEF UsbInv
<1> QED BY <1>1, <1>2

LEMMA ReceiveKeeps == UsbInv /\ Receive => UsbInv'
<1> SUFFICES ASSUME UsbInv, Receive PROVE UsbInv'
  OBVIOUS
<1>1. /\ lines # <<>> /\ lines \in Seq(Records) /\ Len(lines) <= Capacity
      /\ writer.at = "Receive" /\ dropped \in Nat /\ Capacity \in Nat
      /\ lines' = Tail(lines) /\ dropped' = 0
      /\ writer' = [at |-> IF dropped # 0 THEN "Notice" ELSE "Line",
                    record |-> Head(lines), notice |-> dropped]
      /\ UNCHANGED <<total_dropped, flushed, console, announced, older>>
  BY UsbLogAssumption DEF UsbInv, LogTypeOK, Receive, Swapped
<1>2. /\ Head(lines) \in Records /\ Head(lines) = lines[1]
      /\ lines' \in Seq(Records)
      /\ Len(lines) \in Nat \ {0}
      /\ Len(lines') = Len(lines) - 1
      /\ \A i \in 1..Len(lines') : lines'[i] = lines[i + 1]
  BY <1>1, Taken
<1>3. LogTypeOK'
  BY <1>1, <1>2 DEF UsbInv, LogTypeOK
<1>4. NoticesAreWritten' /\ DropsAreCounted' /\ FlushesAreAsked'
  BY <1>1 DEF UsbInv, LogTypeOK, NoticesAreWritten, DropsAreCounted, FlushesAreAsked
<1>5. InQueue' => InQueue
  BY <1>2 DEF InQueue
<1>6. /\ InWriter' => lines[1] = "Flush"
      /\ ~InWriter
  BY <1>1, <1>2 DEF InWriter
<1>7. FlushPending' => FlushPending
  BY <1>2, <1>5, <1>6 DEF FlushPending, InQueue
<1>8. NonePending' /\ EarlyFlushIsOwn'
  BY <1>1, <1>7 DEF UsbInv, NonePending, EarlyFlushIsOwn
<1>9. OnePending'
  <2> SUFFICES ASSUME console.at = "Wait", ~older
               PROVE  /\ InWriter' => ~InQueue'
                      /\ \A i, j \in 1..Len(lines') :
                           lines'[i] = "Flush" /\ lines'[j] = "Flush" => i = j
    BY <1>1 DEF OnePending
  <2>1. \A i, j \in 1..Len(lines) : lines[i] = "Flush" /\ lines[j] = "Flush" => i = j
    BY DEF UsbInv, OnePending
  <2>2. InWriter' => ~InQueue'
    BY <1>2, <1>6, <2>1 DEF InQueue
  <2>3. \A i, j \in 1..Len(lines') : lines'[i] = "Flush" /\ lines'[j] = "Flush" => i = j
    BY <1>2, <2>1
  <2> QED BY <2>2, <2>3
<1> QED BY <1>3, <1>4, <1>8, <1>9 DEF UsbInv

LEMMA NoticeKeeps == UsbInv /\ NoticeWritten => UsbInv'
<1> SUFFICES ASSUME UsbInv, NoticeWritten PROVE UsbInv'
  OBVIOUS
<1>1. LogTypeOK' /\ NoticesAreWritten' /\ DropsAreCounted' /\ FlushesAreAsked'
  <2>1. /\ writer.notice \in Nat /\ announced \in Nat
        /\ announced' = announced + writer.notice
        /\ writer' = [at |-> "Line", record |-> writer.record, notice |-> 0]
        /\ UNCHANGED <<lines, dropped, total_dropped, flushed, console, older>>
    BY DEF UsbInv, LogTypeOK, NoticeWritten
  <2>2. LogTypeOK'
    BY <2>1 DEF UsbInv, LogTypeOK
  <2>3. DropsAreCounted'
    BY <2>1 DEF UsbInv, LogTypeOK, DropsAreCounted
  <2>4. NoticesAreWritten' /\ FlushesAreAsked'
    BY <2>1 DEF NoticesAreWritten, FlushesAreAsked
  <2> QED BY <2>2, <2>3, <2>4
<1>2. NonePending' /\ OnePending' /\ EarlyFlushIsOwn'
  BY DEF UsbInv, LogTypeOK, FlushesAreAsked, NonePending, OnePending, EarlyFlushIsOwn, FlushPending,
         InQueue, InWriter, NoticeWritten
<1> QED BY <1>1, <1>2 DEF UsbInv

LEMMA LineKeeps == UsbInv /\ LineWritten => UsbInv'
<1> SUFFICES ASSUME UsbInv, LineWritten PROVE UsbInv'
  OBVIOUS
<1>1. LogTypeOK' /\ NoticesAreWritten' /\ DropsAreCounted' /\ FlushesAreAsked'
  BY DEF UsbInv, LogTypeOK, NoticesAreWritten, DropsAreCounted, FlushesAreAsked,
         LineWritten, Receiving, Records
<1>2. NonePending' /\ OnePending' /\ EarlyFlushIsOwn'
  BY DEF UsbInv, LogTypeOK, FlushesAreAsked, NonePending, OnePending, EarlyFlushIsOwn, FlushPending,
         InQueue, InWriter, LineWritten, Receiving
<1> QED BY <1>1, <1>2 DEF UsbInv

LEMMA FlushKeeps == UsbInv /\ FlushWritten => UsbInv'
<1> SUFFICES ASSUME UsbInv, FlushWritten PROVE UsbInv'
  OBVIOUS
<1>1. LogTypeOK' /\ NoticesAreWritten' /\ DropsAreCounted' /\ FlushesAreAsked'
  BY DEF UsbInv, LogTypeOK, NoticesAreWritten, DropsAreCounted, FlushesAreAsked,
         FlushWritten, Receiving, Records
<1>2. NonePending' /\ OnePending' /\ EarlyFlushIsOwn'
  BY DEF UsbInv, LogTypeOK, FlushesAreAsked, NonePending, OnePending, EarlyFlushIsOwn, FlushPending,
         InQueue, InWriter, FlushWritten, Receiving
<1> QED BY <1>1, <1>2 DEF UsbInv

LEMMA SeenKeeps == UsbInv /\ FlushSeen => UsbInv'
<1> SUFFICES ASSUME UsbInv, FlushSeen PROVE UsbInv'
  OBVIOUS
<1>1. LogTypeOK' /\ NoticesAreWritten' /\ DropsAreCounted' /\ FlushesAreAsked'
  BY DEF UsbInv, LogTypeOK, NoticesAreWritten, DropsAreCounted, FlushesAreAsked,
         FlushSeen, Carried, Reading, Commands, Flushing
<1>2. NonePending' /\ OnePending' /\ EarlyFlushIsOwn'
  BY DEF UsbInv, LogTypeOK, FlushesAreAsked, NonePending, OnePending, EarlyFlushIsOwn, FlushPending,
         InQueue, InWriter, FlushSeen, Carried, Reading
<1> QED BY <1>1, <1>2 DEF UsbInv

LEMMA TimedOutKeeps == UsbInv /\ TimedOut => UsbInv'
<1> SUFFICES ASSUME UsbInv, TimedOut PROVE UsbInv'
  OBVIOUS
<1>1. LogTypeOK' /\ NoticesAreWritten' /\ DropsAreCounted' /\ FlushesAreAsked'
  BY DEF UsbInv, LogTypeOK, NoticesAreWritten, DropsAreCounted, FlushesAreAsked,
         TimedOut, Carried, Reading, Commands, Flushing
<1>2. NonePending' /\ OnePending' /\ EarlyFlushIsOwn'
  BY DEF UsbInv, LogTypeOK, FlushesAreAsked, NonePending, OnePending, EarlyFlushIsOwn, FlushPending,
         InQueue, InWriter, TimedOut, Carried, Reading
<1> QED BY <1>1, <1>2 DEF UsbInv

LEMMA HearKeeps == ASSUME NEW command \in Commands PROVE UsbInv /\ Hear(command) => UsbInv'
<1> SUFFICES ASSUME UsbInv, Hear(command) PROVE UsbInv'
  OBVIOUS
<1>1. /\ UNCHANGED <<lines, dropped, total_dropped, writer, announced>>
      /\ \/ /\ flushed' = FALSE /\ older' = FlushPending
            /\ console' = [at |-> "Send", command |-> command]
         \/ /\ UNCHANGED <<flushed, older>>
            /\ console' = [at |-> "Reply", command |-> command]
  BY DEF Hear, WaitBegins
<1>2. older' \in BOOLEAN /\ flushed' \in BOOLEAN
  BY <1>1 DEF UsbInv, LogTypeOK, FlushPending, InQueue, InWriter
<1>3. LogTypeOK' /\ NoticesAreWritten' /\ DropsAreCounted' /\ FlushesAreAsked'
  BY <1>1, <1>2 DEF UsbInv, LogTypeOK, NoticesAreWritten, DropsAreCounted, FlushesAreAsked
<1>4. FlushPending' <=> FlushPending
  BY <1>1 DEF FlushPending, InQueue, InWriter
<1>5. console'.at # "Wait"
  BY <1>1
<1>6. NonePending'
  <2>1. CASE flushed' = FALSE /\ older' = FlushPending
    BY <2>1, <1>4 DEF NonePending
  <2>2. CASE console' = [at |-> "Reply", command |-> command]
    BY <2>2 DEF NonePending
  <2> QED BY <1>1, <2>1, <2>2
<1>7. OnePending' /\ EarlyFlushIsOwn'
  BY <1>5 DEF OnePending, EarlyFlushIsOwn
<1> QED BY <1>3, <1>6, <1>7 DEF UsbInv

LEMMA ReplyKeeps == UsbInv /\ Reply => UsbInv'
<1> SUFFICES ASSUME UsbInv, Reply PROVE UsbInv'
  OBVIOUS
<1>1. /\ Room /\ lines' = Append(lines, "Line") /\ console' = Reading
      /\ UNCHANGED <<dropped, total_dropped, flushed, writer, announced, older>>
  BY DEF Reply
<1>2. /\ lines' \in Seq(Records) /\ Len(lines') <= Capacity
      /\ NonePending' /\ OnePending' /\ EarlyFlushIsOwn'
  BY <1>1, LineQueued DEF Reading
<1> QED
  BY <1>1, <1>2
     DEF UsbInv, LogTypeOK, NoticesAreWritten, DropsAreCounted, FlushesAreAsked,
         Reading, Commands, Flushing

LEMMA SendKeeps == UsbInv /\ Send => UsbInv'
<1> SUFFICES ASSUME UsbInv, Send PROVE UsbInv'
  OBVIOUS
<1>1. /\ Room /\ lines' = Append(lines, "Flush")
      /\ console.at = "Send" /\ console' = [console EXCEPT !.at = "Wait"]
      /\ UNCHANGED <<dropped, total_dropped, flushed, writer, announced, older>>
  BY DEF Send
<1>2. lines \in Seq(Records) /\ "Flush" \in Records /\ Len(lines) \in Nat /\ Capacity \in Nat
  BY UsbLogAssumption DEF UsbInv, LogTypeOK, Records
<1>3. /\ lines' \in Seq(Records) /\ Len(lines') = Len(lines) + 1
      /\ \A i \in 1..Len(lines) : lines'[i] = lines[i]
      /\ Len(lines') <= Capacity
  BY <1>1, <1>2, Appended DEF Room
<1>4. LogTypeOK' /\ NoticesAreWritten' /\ DropsAreCounted' /\ FlushesAreAsked'
  BY <1>1, <1>3
     DEF UsbInv, LogTypeOK, NoticesAreWritten, DropsAreCounted, FlushesAreAsked
<1>5. console'.at = "Wait"
  BY <1>1 DEF UsbInv, LogTypeOK
<1>6. ~older => ~InQueue /\ ~InWriter /\ ~flushed
  BY <1>1 DEF UsbInv, NonePending, FlushPending
<1>7. ~older => \A i \in 1..Len(lines') : lines'[i] = "Flush" => i = Len(lines')
  BY <1>2, <1>3, <1>6 DEF InQueue
<1>8. OnePending'
  BY <1>1, <1>6, <1>7 DEF OnePending, InWriter
<1>9. NonePending' /\ EarlyFlushIsOwn'
  BY <1>1, <1>5, <1>6 DEF NonePending, EarlyFlushIsOwn
<1> QED BY <1>4, <1>8, <1>9 DEF UsbInv

-----------------------------------------------------------------------------
(* The images.                                                             *)

\* What was ever confirmed is sound.
ConfirmedIsSound == ~flash.unconfirmed => flash.current = "Sound"

\* An image on trial leaves the one it replaces alone.
FallbackIsSound == flash.unconfirmed => flash.other = "Sound"

\* An update is staged by a confirmed image, and is there.
StagedIsWhole == flash.staged => ~flash.unconfirmed /\ flash.other # "Empty"

ImageInv == ImageTypeOK /\ ConfirmedIsSound /\ FallbackIsSound /\ StagedIsWhole

LEMMA PartitionIsStage == "Partition" \in Stages
  BY DEF Stages, Following

LEMMA FirstBounds == 1 \in 1..LongestRetry /\ 0 \in 0..Deadline
  BY UpdateAssumption

LEMMA EarlierIsNat ==
  ASSUME NEW a \in Nat, NEW b \in Nat
  PROVE  Earlier(a, b) \in 0..b /\ (a > 0 /\ b > 0 => Earlier(a, b) \in 1..b)
  BY DEF Earlier

LEMMA ImageInitial == ImageInit => ImageInv
<1> SUFFICES ASSUME ImageInit PROVE ImageInv
  OBVIOUS
<1>1. /\ flash \in Flashes /\ flash.current = "Sound"
      /\ flash.unconfirmed = FALSE /\ flash.staged = FALSE
  BY DEF ImageInit, Flashes, Builds
<1>2. ConfirmedIsSound /\ FallbackIsSound /\ StagedIsWhole
  BY <1>1 DEF ConfirmedIsSound, FallbackIsSound, StagedIsWhole
<1>3. ImageTypeOK
  BY <1>1, PartitionIsStage, FirstBounds DEF ImageInit, ImageTypeOK
<1> QED BY <1>2, <1>3 DEF ImageInv

LEMMA ImageUnchanged == ImageInv /\ UNCHANGED updateVars => ImageInv'
  BY DEF updateVars, ImageInv, ImageTypeOK, ConfirmedIsSound, FallbackIsSound, StagedIsWhole

\* A step that leaves flash alone keeps what is true of it.
LEMMA FlashUnchanged ==
  ImageInv /\ UNCHANGED flash => ConfirmedIsSound' /\ FallbackIsSound' /\ StagedIsWhole'
  BY DEF ImageInv, ConfirmedIsSound, FallbackIsSound, StagedIsWhole

\* The bootloader finds a sound image to return to.
LEMMA SelectedIsSafe ==
  ASSUME ImageInv, flash' = Selected
  PROVE  flash' \in Flashes /\ ConfirmedIsSound' /\ FallbackIsSound' /\ StagedIsWhole'
<1>1. flash \in Flashes
  BY DEF ImageInv, ImageTypeOK
<1>2. CASE flash.staged
  <2>1. flash' = [flash EXCEPT !.current = flash.other, !.other = flash.current,
                               !.staged = FALSE, !.unconfirmed = TRUE]
    BY <1>1, <1>2 DEF Selected, Flashes
  <2> QED
    BY <1>1, <1>2, <2>1
       DEF ImageInv, Flashes, ConfirmedIsSound, FallbackIsSound, StagedIsWhole, Builds
<1>3. CASE ~flash.staged /\ flash.unconfirmed /\ flash.can_roll_back
  <2>1. flash' = [flash EXCEPT !.current = flash.other, !.other = flash.current,
                               !.staged = FALSE, !.unconfirmed = FALSE]
    BY <1>1, <1>3 DEF Selected, Flashes
  <2> QED
    BY <1>1, <1>3, <2>1
       DEF ImageInv, Flashes, ConfirmedIsSound, FallbackIsSound, StagedIsWhole, Builds
<1>4. CASE ~flash.staged /\ ~(flash.unconfirmed /\ flash.can_roll_back)
  <2>1. UNCHANGED flash
    BY <1>4 DEF Selected
  <2> QED BY <1>1, <2>1, FlashUnchanged
<1> QED BY <1>2, <1>3, <1>4

LEMMA ImageRestarted == ImageInv /\ ImageRestarts => ImageInv'
<1> SUFFICES ASSUME ImageInv, ImageRestarts PROVE ImageInv'
  OBVIOUS
<1>1. flash' \in Flashes /\ ConfirmedIsSound' /\ FallbackIsSound' /\ StagedIsWhole'
  BY SelectedIsSafe DEF ImageRestarts
<1>2. ImageTypeOK'
  <2>1. /\ stage' \in Stages /\ delay' \in 1..LongestRetry /\ uptime' \in 0..Deadline
        /\ asleep' = FALSE /\ service' = FALSE /\ leaving' = FALSE
    BY PartitionIsStage, FirstBounds DEF ImageRestarts, Booting
  <2> QED BY <1>1, <2>1 DEF ImageTypeOK
<1> QED BY <1>1, <1>2 DEF ImageInv

LEMMA RestoreKeeps == ASSUME NEW result \in Results PROVE ImageInv /\ Restore(result) => ImageInv'
<1> SUFFICES ASSUME ImageInv, Restore(result) PROVE ImageInv'
  OBVIOUS
<1>1. UNCHANGED <<flash, uptime, leaving>>
  BY DEF Restore
<1>2. /\ stage' \in Stages /\ delay' \in 1..LongestRetry
      /\ asleep' \in BOOLEAN /\ service' \in BOOLEAN
  <2>1. CASE result = "Ok"
    <3>1. /\ stage \in DOMAIN Following /\ stage' = Following[stage] /\ delay' = 1
          /\ service' \in IF stage = "Partition" THEN BOOLEAN ELSE {service}
          /\ UNCHANGED asleep
      BY <2>1 DEF Restore
    <3> QED BY <3>1, UpdateAssumption DEF ImageInv, ImageTypeOK, Stages, Following
  <2>2. CASE result # "Ok"
    BY <2>2 DEF Restore, Results, ImageInv, ImageTypeOK, Stages
  <2> QED BY <2>1, <2>2
<1>3. ImageTypeOK'
  BY <1>1, <1>2 DEF ImageInv, ImageTypeOK
<1> QED BY <1>1, <1>3, FlashUnchanged DEF ImageInv

LEMMA PassKeeps ==
  ASSUME NEW commissioned \in BOOLEAN, NEW healthy \in BOOLEAN, NEW verified \in BOOLEAN
  PROVE  ImageInv /\ Pass(commissioned, healthy, verified) => ImageInv'
<1> SUFFICES ASSUME ImageInv, Pass(commissioned, healthy, verified) PROVE ImageInv'
  OBVIOUS
<1> DEFINE verdict == Verdict(uptime, commissioned, healthy, verified)
<1>1. PICK written \in BOOLEAN :
        flash' = [flash EXCEPT !.unconfirmed = @ /\ ~(verdict = "Confirm" /\ written)]
  BY DEF Pass
<1>2. /\ flash \in Flashes /\ flash.unconfirmed
      /\ leaving' \in BOOLEAN /\ asleep' \in BOOLEAN
      /\ UNCHANGED <<stage, delay, uptime, service>>
  BY DEF Pass, ImageInv, ImageTypeOK
<1>3. verdict = "Confirm" => flash.current = "Sound"
  BY <1>2 DEF Verdict, Pass, Flashes, Builds
<1>4. flash' \in Flashes
  BY <1>1, <1>2 DEF Flashes
<1>5. /\ flash'.current = flash.current /\ flash'.other = flash.other
      /\ flash'.staged = flash.staged
      /\ ~flash'.unconfirmed => verdict = "Confirm"
  BY <1>1, <1>2 DEF Flashes
<1>6. ConfirmedIsSound' /\ FallbackIsSound' /\ StagedIsWhole'
  BY <1>2, <1>3, <1>5 DEF ImageInv, ConfirmedIsSound, FallbackIsSound, StagedIsWhole
<1>7. ImageTypeOK'
  BY <1>2, <1>4 DEF ImageInv, ImageTypeOK
<1> QED BY <1>6, <1>7 DEF ImageInv

LEMMA StagedKeeps == ImageInv /\ StagedReboot => ImageInv'
  BY FlashUnchanged DEF StagedReboot, ImageInv, ImageTypeOK

LEMMA UploadStartsKeeps == ImageInv /\ UploadStarts => ImageInv'
  BY DEF UploadStarts, ImageInv, ImageTypeOK, Flashes,
         ConfirmedIsSound, FallbackIsSound, StagedIsWhole

LEMMA UploadEndsKeeps ==
  ASSUME NEW build \in Builds PROVE ImageInv /\ UploadEnds(build) => ImageInv'
  BY DEF UploadEnds, ImageInv, ImageTypeOK, Flashes, Builds,
         ConfirmedIsSound, FallbackIsSound, StagedIsWhole

LEMMA WakesKeeps == ImageInv /\ Wakes => ImageInv'
<1> SUFFICES ASSUME ImageInv, Wakes PROVE ImageInv'
  OBVIOUS
<1>1. UNCHANGED <<flash, stage, service, leaving>> /\ asleep' = FALSE
  BY DEF Wakes
<1>2. /\ uptime \in Nat /\ delay \in Nat \ {0} /\ Deadline \in Nat
      /\ LongestRetry \in Nat \ {0}
  BY UpdateAssumption DEF ImageInv, ImageTypeOK
<1>3. uptime' \in 0..Deadline
  <2>1. \/ uptime' = Earlier(uptime + 1, Deadline)
        \/ uptime' = Earlier(uptime + delay, Deadline)
    BY DEF Wakes
  <2>2. uptime + 1 \in Nat /\ uptime + delay \in Nat
    BY <1>2
  <2> QED BY <1>2, <2>1, <2>2, EarlierIsNat
<1>4. delay' \in 1..LongestRetry
  <2>1. CASE stage = "Running"
    BY <2>1 DEF Wakes, ImageInv, ImageTypeOK
  <2>2. CASE stage # "Running"
    <3>1. delay' = Earlier(2 * delay, LongestRetry)
      BY <2>2 DEF Wakes, Longer
    <3> QED BY <1>2, <3>1, EarlierIsNat
  <2> QED BY <2>1, <2>2
<1>5. ImageTypeOK'
  BY <1>1, <1>3, <1>4 DEF ImageInv, ImageTypeOK
<1> QED BY <1>1, <1>5, FlashUnchanged DEF ImageInv

-----------------------------------------------------------------------------
(* The device.                                                             *)

DeviceInv == UsbInv /\ ImageInv

LEMMA DeviceInitial == DeviceInit => DeviceInv
  BY LogInitial, ImageInitial DEF DeviceInit, DeviceInv

\* A step of the output or the console, whatever stage the boot is in.
LEMMA UsbStep ==
  UsbInv /\ (Log \/ Writer \/ Console \/ TimedOut) => UsbInv'
  BY LogKeeps, ReceiveKeeps, NoticeKeeps, LineKeeps, FlushKeeps, HearKeeps, ReplyKeeps,
     SendKeeps, SeenKeeps, TimedOutKeeps
     DEF Writer, Console

LEMMA DeviceStep == DeviceInv /\ [DeviceNext]_deviceVars => DeviceInv'
<1> SUFFICES ASSUME UsbInv, ImageInv, [DeviceNext]_deviceVars PROVE UsbInv' /\ ImageInv'
  BY DEF DeviceInv
<1>1. ASSUME Logs \/ Answers \/ TimesOut PROVE UsbInv' /\ ImageInv'
  BY <1>1, UsbStep, ImageUnchanged DEF Logs, Answers, TimesOut, Usb
<1>2. ASSUME Restores PROVE UsbInv' /\ ImageInv'
  BY <1>2, RestoreKeeps, UsbUnchanged DEF Restores, Image
<1>3. ASSUME Passes PROVE UsbInv' /\ ImageInv'
  BY <1>3, PassKeeps, UsbUnchanged DEF Passes, Image
<1>4. ASSUME Reboots PROVE UsbInv' /\ ImageInv'
  BY <1>4, StagedKeeps, UsbUnchanged DEF Reboots, Image
<1>5. ASSUME Uploads PROVE UsbInv' /\ ImageInv'
  BY <1>5, UploadStartsKeeps, UploadEndsKeeps, UsbUnchanged DEF Uploads, Image
<1>6. ASSUME Timer PROVE UsbInv' /\ ImageInv'
  BY <1>6, WakesKeeps, UsbUnchanged DEF Timer, Image
<1>7. ASSUME Resets PROVE UsbInv' /\ ImageInv'
  BY <1>7, LogRestarted, ImageRestarted DEF Resets
<1>8. ASSUME UNCHANGED deviceVars PROVE UsbInv' /\ ImageInv'
  BY <1>8, UsbUnchanged, ImageUnchanged DEF deviceVars
<1> QED
  BY <1>1, <1>2, <1>3, <1>4, <1>5, <1>6, <1>7, <1>8 DEF DeviceNext, AskedReset, OtherReset

LEMMA DeviceInvariant == DeviceSpec => []DeviceInv
  BY DeviceInitial, DeviceStep, PTL DEF DeviceSpec

\* Every variable has its type, the queue its capacity, and the retry delay and
\* the uptime their bounds (output.rs, boot.rs, ota.rs).
THEOREM TypeCorrect == DeviceSpec => []DeviceTypeOK
<1>1. DeviceInv => DeviceTypeOK
  BY DEF DeviceInv, UsbInv, ImageInv, DeviceTypeOK
<1> QED BY <1>1, DeviceInvariant, PTL

\* No drop is lost between the counter, its swap and the notice, however many
\* lines the queue holds (output.rs, writer_task).
THEOREM DropsStayCounted == DeviceSpec => []DropsAreCounted
<1>1. DeviceInv => DropsAreCounted
  BY DEF DeviceInv, UsbInv
<1> QED BY <1>1, DeviceInvariant, PTL

\* A flush that ends a wait early is the wait's own, unless an earlier wait had
\* left one behind (output.rs, response_and_flush).
THEOREM FlushesEndTheirWait == DeviceSpec => []EarlyFlushIsOwn
<1>1. DeviceInv => EarlyFlushIsOwn
  BY DEF DeviceInv, UsbInv
<1> QED BY <1>1, DeviceInvariant, PTL

\* Flash never is without a sound image, for any deadline (ota.rs, supervise;
\* ota_health.rs).
THEOREM GoodImageStays == DeviceSpec => []GoodImageRemains
<1>1. DeviceInv => GoodImageRemains
  BY DEF DeviceInv, ImageInv, ConfirmedIsSound, FallbackIsSound, GoodImageRemains
<1> QED BY <1>1, DeviceInvariant, PTL
=============================================================================
