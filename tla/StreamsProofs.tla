--------------------------- MODULE StreamsProofs ---------------------------
(***************************************************************************)
(* Safety of the tasks behind a bounded channel: the backfill and its      *)
(* checkpoint file (SolanaBackfill), the gateway's connection (WsStream),  *)
(* the SDK's task (SdkStream) and the live Solana stream (SolanaStream),   *)
(* for every capacity and every bound.                                     *)
(***************************************************************************)
EXTENDS MCStreams, SequenceTheorems, TLAPS

(***************************************************************************)
(* SolanaBackfill.  A SlotFinalized in the stream stands behind all events *)
(* of its slot and of those before it, so the slot of a checkpoint is      *)
(* backed from when it is read to when the file is renamed.                *)
(***************************************************************************)
Slot == 1..Slots
Item == Slot \X Int

\* Events in the database or among the first n items of the stream.
Arrived(n) == stored \union {fillStream[j] : j \in 1..n}

\* Every event of slot s is, unless the node did not answer for it.
Complete(s, n) ==
  \/ block[s] = Fill!None \/ s \in unread
  \/ \A k \in 1..block[s] : <<s, k>> \in Arrived(n)

FillTypes ==
  /\ block \in [Slot -> Nat \union {Fill!None}]
  /\ fillPc \in {"off", "next", "fetch", "retry", "sending", "reporting", "done"}
  /\ fillSlot \in 1..Slots + 1 /\ event \in Nat \ {0}
  /\ fillPc \in {"fetch", "retry", "sending", "reporting"} => fillSlot \in Slot
  /\ fillPc = "sending" => block[fillSlot] # Fill!None
  /\ fillStream \in Seq(Item)
  /\ consumer \in {"down", "reading", "writing", "written"}

\* The checkpoint, in the file and on its way there.
FileBacked ==
  /\ file \in Slot \union {Fill!None}
  /\ file # Fill!None => \A s \in 1..file : Complete(s, 0)
  /\ consumer \in {"writing", "written"} =>
       saving \in Slot /\ \A s \in 1..saving : Complete(s, 0)
  /\ consumer = "written" => tmp = saving

\* What the task has sent, while somebody reads it.
SentBacked ==
  consumer # "down" =>
    /\ \A i \in 1..Len(fillStream) :
         fillStream[i][2] = Fill!Final =>
           \A s \in 1..fillStream[i][1] : Complete(s, i - 1)
    /\ \A s \in 1..fillSlot - 1 : Complete(s, Len(fillStream))
    /\ fillPc = "sending" =>
         \A k \in 1..event - 1 : <<fillSlot, k>> \in Arrived(Len(fillStream))

FillInv == FillTypes /\ FileBacked /\ SentBacked

LEMMA FillStarts == Fill!Init => FillInv
<1> SUFFICES ASSUME Fill!Init PROVE FillInv
  OBVIOUS
<1>1. FillTypes
  BY StreamsAssumption DEF Fill!Init, FillTypes, Slot
<1> QED
  BY <1>1 DEF Fill!Init, FillInv, FileBacked, SentBacked

LEMMA MoreArrived ==
  ASSUME NEW m \in Nat, NEW n \in Nat, m <= n
  PROVE  /\ Arrived(m) \subseteq Arrived(n)
         /\ \A s : Complete(s, m) => Complete(s, n)
<1>1. 1..m \subseteq 1..n
  OBVIOUS
<1>2. Arrived(m) \subseteq Arrived(n)
  BY <1>1 DEF Arrived
<1> QED
  BY <1>2 DEF Complete

\* What is complete stays so while the stream and the tables only grow.
LEMMA StaysComplete ==
  ASSUME UNCHANGED block, stored \subseteq stored', unread \subseteq unread',
         NEW n \in Nat, \A j \in 1..n : fillStream'[j] = fillStream[j]
  PROVE  /\ Arrived(n) \subseteq Arrived(n)'
         /\ \A s : Complete(s, n) => Complete(s, n)'
<1>1. Arrived(n) \subseteq Arrived(n)'
  BY DEF Arrived
<1> QED
  BY <1>1 DEF Complete

\* The task steps on without a word: it stays at its slot, or passes over one
\* that is complete.
LEMMA StepsOn ==
  ASSUME FillInv, FillTypes', UNCHANGED <<block, fillStream, Fill!consuming>>,
         unread \subseteq unread',
         fillPc' = "sending" => event' = 1,
         \/ fillSlot' = fillSlot
         \/ \E s \in Slot :
              fillSlot = s /\ fillSlot' = s + 1 /\ Complete(s, 0)'
  PROVE  FillInv'
<1>1. UNCHANGED <<block, fillStream, consumer, saving, tmp, file, stored>>
  BY DEF Fill!consuming, Fill!disk
<1>2. \A n \in Nat : \A s : Complete(s, n) => Complete(s, n)'
  BY <1>1, StaysComplete
<1>3. FileBacked'
  BY <1>1, <1>2 DEF FillInv, FileBacked
<1>4. ASSUME consumer # "down", NEW s \in 1..fillSlot' - 1
      PROVE  Complete(s, Len(fillStream))'
<2>1. PICK n \in Nat : n = Len(fillStream)
  BY DEF FillInv, FillTypes
<2>2. fillSlot \in Nat
  BY StreamsAssumption DEF FillInv, FillTypes
<2>3. CASE s \in 1..fillSlot - 1
  BY <1>2, <1>4, <2>1, <2>3 DEF FillInv, SentBacked
<2>4. CASE s \notin 1..fillSlot - 1
<3>1. s = fillSlot /\ fillSlot' # fillSlot
  BY <1>4, <2>2, <2>4
<3>2. Complete(s, 0)'
  BY <3>1 DEF Complete, Arrived
<3>3. 1..0 \subseteq 1..n
  BY <2>1
<3>4. Complete(s, n)'
  BY <3>2, <3>3 DEF Complete, Arrived
<3> QED
  BY <1>1, <2>1, <3>4
<2> QED
  BY <2>3, <2>4
<1>5. SentBacked'
<2>1. \A i \in 1..Len(fillStream) : i - 1 \in Nat
  OBVIOUS
<2>2. fillPc' = "sending" => 1..event' - 1 = {}
  OBVIOUS
<2> QED
  BY <1>1, <1>2, <1>4, <2>1, <2>2 DEF FillInv, SentBacked, Arrived
<1> QED
  BY <1>3, <1>5 DEF FillInv

\* An item is sent.  A SlotFinalized must be that of a slot all of whose events
\* have been.
LEMMA ItemSent ==
  ASSUME FillInv, FillTypes', UNCHANGED <<block, Fill!consuming, unread>>,
         NEW i \in Item, fillStream' = Append(fillStream, i),
         consumer # "down" /\ i[2] = Fill!Final =>
           \A s \in 1..i[1] : Complete(s, Len(fillStream)),
         consumer # "down" =>
           \A s \in 1..fillSlot' - 1 : Complete(s, Len(fillStream)),
         consumer # "down" /\ fillPc' = "sending" =>
           \A k \in 1..event' - 1 : <<fillSlot', k>> \in Arrived(Len(fillStream)) \union {i}
  PROVE  FillInv'
<1>1. UNCHANGED <<block, consumer, saving, tmp, file, stored, unread>>
  BY DEF Fill!consuming, Fill!disk
<1>2. PICK n \in Nat : n = Len(fillStream) /\ fillStream \in Seq(Item)
  BY DEF FillInv, FillTypes
<1>3. /\ Len(fillStream') = n + 1 /\ fillStream'[n + 1] = i
      /\ \A j \in 1..n : fillStream'[j] = fillStream[j]
  BY <1>2
<1>4. \A m \in 0..n : \A s : Complete(s, m) => Complete(s, m)'
<2> SUFFICES ASSUME NEW m \in 0..n PROVE \A s : Complete(s, m) => Complete(s, m)'
  OBVIOUS
<2>1. m \in Nat /\ \A j \in 1..m : fillStream'[j] = fillStream[j]
  BY <1>2, <1>3
<2> QED
  BY <1>1, <2>1, StaysComplete
<1>5. \A s : Complete(s, n) => Complete(s, n + 1)'
<2>1. 1..n \subseteq 1..n + 1
  BY <1>2
<2>2. Arrived(n) \subseteq Arrived(n + 1)'
  BY <1>1, <1>3, <2>1 DEF Arrived
<2> QED
  BY <1>1, <2>2 DEF Complete
<1>6. Arrived(n) \union {i} \subseteq Arrived(n + 1)'
  BY <1>1, <1>2, <1>3 DEF Arrived
<1>7. FileBacked'
  BY <1>1, <1>2, <1>4 DEF FillInv, FileBacked
<1>8. ASSUME consumer # "down", NEW j \in 1..n + 1, fillStream'[j][2] = Fill!Final,
             NEW s \in 1..fillStream'[j][1]
      PROVE  Complete(s, j - 1)'
<2>1. CASE j = n + 1
<3>1. Complete(s, n)'
  BY <1>2, <1>3, <1>4, <1>8, <2>1
<3>2. j - 1 = n
  BY <2>1
<3> QED
  BY <3>1, <3>2 DEF Complete, Arrived
<2>2. CASE j # n + 1
<3>1. j \in 1..n /\ fillStream'[j] = fillStream[j]
  BY <1>2, <1>3, <2>2
<3>2. PICK m \in 0..n : m = j - 1
  BY <3>1
<3>3. Complete(s, m)
<4>1. fillStream[j][2] = Fill!Final /\ s \in 1..fillStream[j][1] /\ j \in 1..Len(fillStream)
  BY <1>2, <1>8, <3>1
<4>2. Complete(s, j - 1)
  BY <1>8, <4>1 DEF FillInv, SentBacked
<4> QED
  BY <3>2, <4>2
<3>4. Complete(s, m)'
  BY <1>4, <3>3
<3> QED
  BY <3>2, <3>4 DEF Complete, Arrived
<2> QED
  BY <2>1, <2>2
<1>9. SentBacked'
  BY <1>1, <1>3, <1>5, <1>6, <1>8 DEF SentBacked
<1> QED
  BY <1>7, <1>9 DEF FillInv

LEMMA StreamTyped ==
  FillTypes => /\ fillStream \in Seq(Item)
               /\ \A i \in Item : Append(fillStream, i) \in Seq(Item)
BY DEF FillTypes

LEMMA NextSlotKeeps == ASSUME FillInv, Fill!NextSlot PROVE FillInv'
<1>1. FillTypes'
  BY StreamsAssumption DEF FillInv, FillTypes, Fill!NextSlot, Fill!consuming, Slot
<1> QED
  BY <1>1, StepsOn DEF Fill!NextSlot

LEMMA BlockKeeps == ASSUME FillInv, Fill!Block PROVE FillInv'
<1>1. FillTypes'
  BY DEF FillInv, FillTypes, Fill!Block, Fill!consuming
<1> QED
  BY <1>1, StepsOn DEF Fill!Block

\* The slot is passed over: the leader produced no block, or nobody knows.
LEMMA SkipKeeps ==
  ASSUME FillInv, Fill!NoBlock \/ Fill!ErrorBody \/ Fill!RpcError
  PROVE  FillInv'
<1>1. /\ fillPc \in {"fetch", "retry"} /\ fillPc' = "next" /\ fillSlot' = fillSlot + 1
      /\ UNCHANGED <<block, event, fillStream, Fill!consuming>>
  BY DEF Fill!NoBlock, Fill!ErrorBody, Fill!RpcError, Fill!Skip
<1>2. fillSlot \in Slot
  BY <1>1 DEF FillInv, FillTypes
<1>3. FillTypes'
  BY <1>1, <1>2, StreamsAssumption DEF FillInv, FillTypes, Fill!consuming, Slot
<1>4. unread \subseteq unread' /\ (block[fillSlot] = Fill!None \/ fillSlot \in unread')
  BY DEF Fill!NoBlock, Fill!ErrorBody, Fill!RpcError
<1>5. PICK s \in Slot : fillSlot = s
  BY <1>2
<1>6. Complete(s, 0)'
  BY <1>1, <1>4, <1>5 DEF Complete
<1> QED
  BY <1>1, <1>3, <1>4, <1>5, <1>6, StepsOn

LEMMA WaitKeeps ==
  ASSUME FillInv, Fill!RateLimited \/ Fill!RetryFails
  PROVE  FillInv'
<1>1. FillTypes'
  BY DEF FillInv, FillTypes, Fill!RateLimited, Fill!RetryFails, Fill!consuming
<1> QED
  BY <1>1, StepsOn DEF Fill!RateLimited, Fill!RetryFails

LEMMA SendEventKeeps == ASSUME FillInv, Fill!SendEvent PROVE FillInv'
<1> DEFINE i == <<fillSlot, event>>
<1>1. /\ fillPc = "sending" /\ event <= block[fillSlot] /\ event' = event + 1
      /\ fillPc' = IF consumer = "down" THEN "done" ELSE "sending"
      /\ UNCHANGED <<block, fillSlot, Fill!consuming, unread>>
  BY DEF Fill!SendEvent
<1>2. fillSlot \in Slot /\ event \in Nat \ {0} /\ i \in Item
  BY <1>1 DEF FillInv, FillTypes, Item
<1>3. CASE consumer = "down"
<2>1. fillStream' = fillStream /\ fillPc' = "done"
  BY <1>1, <1>3 DEF Fill!SendEvent, Fill!Send
<2>2. FillTypes'
  BY <1>1, <1>2, <2>1 DEF FillInv, FillTypes, Fill!consuming
<2> QED
  BY <1>1, <2>1, <2>2, StepsOn
<1>4. CASE consumer # "down"
<2>1. fillStream' = Append(fillStream, i) /\ fillPc' = "sending"
  BY <1>1, <1>4 DEF Fill!SendEvent, Fill!Send
<2>2. fillStream' \in Seq(Item)
  BY <1>2, <2>1 DEF FillInv, FillTypes
<2>3. FillTypes'
  BY <1>1, <1>2, <2>1, <2>2 DEF FillInv, FillTypes, Fill!consuming
<2>4. i[2] # Fill!Final
  BY <1>2 DEF Fill!Final
<2>5. \A k \in 1..event' - 1 :
        <<fillSlot', k>> \in Arrived(Len(fillStream)) \union {i}
<3>1. \A k \in 1..event' - 1 : k = event \/ k \in 1..event - 1
  BY <1>1, <1>2
<3> QED
  BY <1>1, <1>4, <3>1 DEF FillInv, SentBacked
<2>6. \A s \in 1..fillSlot' - 1 : Complete(s, Len(fillStream))
  BY <1>1, <1>4 DEF FillInv, SentBacked
<2> QED
  BY <1>1, <1>2, <2>1, <2>3, <2>4, <2>5, <2>6, ItemSent
<1> QED
  BY <1>3, <1>4

LEMMA SendFinalizedKeeps == ASSUME FillInv, Fill!SendFinalized PROVE FillInv'
<1> DEFINE i == <<fillSlot, Fill!Final>>
<1>1. /\ fillPc = "sending" /\ event > block[fillSlot] /\ fillPc' = "next"
      /\ fillSlot' = fillSlot + 1
      /\ UNCHANGED <<block, event, Fill!consuming, unread>>
  BY DEF Fill!SendFinalized
<1>2. fillSlot \in Slot /\ event \in Nat \ {0} /\ i \in Item
  BY <1>1 DEF FillInv, FillTypes, Item, Fill!Final
<1>3. fillStream' = fillStream \/ fillStream' = Append(fillStream, i)
  BY DEF Fill!SendFinalized, Fill!Send
<1>4. fillStream' \in Seq(Item)
  BY <1>2, <1>3, StreamTyped DEF FillInv
<1>5. FillTypes'
  BY <1>1, <1>2, <1>4, StreamsAssumption DEF FillInv, FillTypes, Fill!consuming, Slot
<1>6. CASE consumer = "down"
<2>1. UNCHANGED <<consumer, saving, tmp, file, stored, block, unread>>
  BY <1>1 DEF Fill!consuming, Fill!disk
<2>2. \A s : Complete(s, 0) => Complete(s, 0)'
  BY <2>1, StaysComplete
<2> QED
  BY <1>5, <1>6, <2>1, <2>2 DEF FillInv, FileBacked, SentBacked
<1>7. CASE consumer # "down"
<2>1. fillStream' = Append(fillStream, i)
  BY <1>7 DEF Fill!SendFinalized, Fill!Send
<2>2. Complete(fillSlot, Len(fillStream))
<3>1. block[fillSlot] \in Nat
  BY <1>1, <1>2 DEF FillInv, FillTypes
<3>2. 1..block[fillSlot] \subseteq 1..event - 1
  BY <1>1, <1>2, <3>1
<3> QED
  BY <1>1, <1>7, <3>2 DEF FillInv, SentBacked, Complete
<2>3. \A s \in 1..fillSlot : Complete(s, Len(fillStream))
<3>1. \A s \in 1..fillSlot : s = fillSlot \/ s \in 1..fillSlot - 1
  BY <1>2 DEF Slot
<3> QED
  BY <1>7, <2>2, <3>1 DEF FillInv, SentBacked
<2>4. 1..fillSlot' - 1 = 1..fillSlot
  BY <1>1, <1>2 DEF Slot
<2> QED
  BY <1>1, <1>2, <1>5, <2>1, <2>3, <2>4, ItemSent
<1> QED
  BY <1>6, <1>7

LEMMA ReportKeeps == ASSUME FillInv, Fill!Report PROVE FillInv'
<1> DEFINE i == <<fillSlot, Fill!Failed>>
<1>1. /\ fillPc = "reporting" /\ fillPc' = "done"
      /\ UNCHANGED <<block, fillSlot, event, Fill!consuming, unread>>
  BY DEF Fill!Report
<1>2. fillSlot \in Slot /\ i \in Item
  BY <1>1 DEF FillInv, FillTypes, Item, Fill!Failed
<1>3. fillStream' = fillStream \/ fillStream' = Append(fillStream, i)
  BY DEF Fill!Report, Fill!Send
<1>4. fillStream' \in Seq(Item)
  BY <1>2, <1>3, StreamTyped DEF FillInv
<1>5. FillTypes'
  BY <1>1, <1>4 DEF FillInv, FillTypes, Fill!consuming
<1>6. CASE fillStream' = fillStream
  BY <1>1, <1>5, <1>6, StepsOn
<1>7. CASE fillStream' = Append(fillStream, i)
<2>1. i[2] # Fill!Final
  BY DEF Fill!Final, Fill!Failed
<2>2. consumer # "down" => \A s \in 1..fillSlot' - 1 : Complete(s, Len(fillStream))
  BY <1>1 DEF FillInv, SentBacked
<2> QED
  BY <1>1, <1>2, <1>5, <1>7, <2>1, <2>2, ItemSent
<1> QED
  BY <1>3, <1>6, <1>7

\* The stream begins behind the checkpoint, and what is up to it is complete.
LEMMA StartKeeps == ASSUME FillInv, Fill!Start PROVE FillInv'
<1>1. /\ consumer = "down" /\ consumer' = "reading" /\ fillStream' = <<>>
      /\ fillPc' = "next"
      /\ fillSlot' = IF file = Fill!None THEN 1 ELSE file + 1
      /\ UNCHANGED <<block, event, saving, tmp, file, stored, unread>>
  BY DEF Fill!Start, Fill!disk
<1>2. file \in Slot \union {Fill!None}
  BY DEF FillInv, FileBacked
<1>3. fillSlot' \in 1..Slots + 1
  BY <1>1, <1>2, StreamsAssumption DEF Slot
<1>4. FillTypes'
  BY <1>1, <1>3 DEF FillInv, FillTypes
<1>5. \A s : Complete(s, 0) => Complete(s, 0)'
  BY <1>1, StaysComplete
<1>6. FileBacked'
  BY <1>1, <1>5 DEF FillInv, FileBacked
<1>7. SentBacked'
<2>1. \A s \in 1..fillSlot' - 1 : Complete(s, 0)'
  BY <1>1, <1>2, <1>5 DEF FillInv, FileBacked, Slot
<2>2. Len(fillStream') = 0
  BY <1>1
<2> QED
  BY <1>1, <2>1, <2>2 DEF SentBacked, Complete, Arrived
<1> QED
  BY <1>4, <1>6, <1>7 DEF FillInv

\* An item read is an item less in the stream and, if it is an event, one more
\* in the database.
LEMMA EventShifts ==
  ASSUME FillInv, Fill!Read, NEW m \in Nat, m < Len(fillStream),
         NEW s, NEW k \in Nat, <<s, k>> \in Arrived(m + 1)
  PROVE  <<s, k>> \in Arrived(m)'
<1>1. fillStream \in Seq(Item) /\ fillStream # <<>> /\ fillStream' = Tail(fillStream)
  BY DEF FillInv, FillTypes, Fill!Read
<1>2. /\ fillStream[1] = Head(fillStream)
      /\ \A j \in 1..m : fillStream'[j] = fillStream[j + 1]
  BY <1>1
<1>3. CASE <<s, k>> \in stored
<2>1. stored \subseteq stored'
  BY DEF Fill!Read
<2> QED
  BY <1>3, <2>1 DEF Arrived
<1>4. CASE <<s, k>> = Head(fillStream)
<2>1. Head(fillStream)[2] = k /\ k # Fill!Final /\ k # Fill!Failed
  BY <1>4 DEF Fill!Final, Fill!Failed
<2>2. <<s, k>> \in stored'
  BY <1>4, <2>1 DEF Fill!Read
<2> QED
  BY <2>2 DEF Arrived
<1>5. CASE <<s, k>> \notin stored /\ <<s, k>> # Head(fillStream)
<2>1. PICK j \in 1..m + 1 : <<s, k>> = fillStream[j]
  BY <1>5 DEF Arrived
<2>2. j # 1
  BY <1>2, <1>5, <2>1
<2>3. j - 1 \in 1..m /\ (j - 1) + 1 = j
  BY <2>1, <2>2
<2>4. <<s, k>> = fillStream'[j - 1]
  BY <1>2, <2>1, <2>3
<2> QED
  BY <2>3, <2>4 DEF Arrived
<1> QED
  BY <1>3, <1>4, <1>5

LEMMA ReadShifts ==
  ASSUME FillInv, Fill!Read, NEW m \in Nat, m < Len(fillStream), NEW s \in Slot,
         Complete(s, m + 1)
  PROVE  Complete(s, m)'
<1>1. UNCHANGED <<block, unread>>
  BY DEF Fill!Read
<1>2. block[s] \in Nat \/ block[s] = Fill!None
  BY DEF FillInv, FillTypes
<1>3. CASE block[s] = Fill!None \/ s \in unread
  BY <1>1, <1>3 DEF Complete
<1>4. CASE block[s] \in Nat /\ \A k \in 1..block[s] : <<s, k>> \in Arrived(m + 1)
  BY <1>1, <1>4, EventShifts DEF Complete
<1> QED
  BY <1>2, <1>3, <1>4 DEF Complete

LEMMA ReadKeeps == ASSUME FillInv, Fill!Read PROVE FillInv'
<1>1. /\ consumer = "reading" /\ fillStream # <<>> /\ fillStream' = Tail(fillStream)
      /\ UNCHANGED <<block, fillPc, fillSlot, event, file, unread>>
      /\ stored \subseteq stored' /\ consumer' \in {"reading", "writing"}
  BY DEF Fill!Read, Fill!task
<1>2. PICK n \in Nat : n + 1 = Len(fillStream) /\ Len(fillStream') = n
  BY <1>1 DEF FillInv, FillTypes
<1>3. /\ fillStream \in Seq(Item) /\ fillStream' \in Seq(Item)
      /\ Head(fillStream) = fillStream[1] /\ fillStream[1] \in Item
      /\ \A i \in 1..n : fillStream'[i] = fillStream[i + 1] /\ fillStream[i + 1] \in Item
  BY <1>1, <1>2 DEF FillInv, FillTypes
<1>4. FillTypes'
  BY <1>1, <1>3 DEF FillInv, FillTypes
<1>5. \A s : Complete(s, 0) => Complete(s, 0)'
  BY <1>1, StaysComplete
<1>6. FileBacked'
<2>1. CASE consumer' = "reading"
  BY <1>1, <1>5, <2>1 DEF FillInv, FileBacked
<2>2. CASE consumer' = "writing"
<3>1. fillStream[1][2] = Fill!Final /\ saving' = fillStream[1][1]
  BY <1>1, <1>3, <2>2 DEF Fill!Read
<3>2. saving' \in Slot
  BY <1>3, <3>1 DEF Item
<3>3. \A s \in 1..saving' : Complete(s, 0)
<4>1. 1 \in 1..Len(fillStream) /\ 1 - 1 = 0
  BY <1>2
<4> QED
  BY <1>1, <3>1, <4>1 DEF FillInv, SentBacked
<3> QED
  BY <1>1, <1>5, <2>2, <3>2, <3>3 DEF FillInv, FileBacked
<2> QED
  BY <1>1, <2>1, <2>2
<1>7. SentBacked'
<2>1. ASSUME NEW i \in 1..n, fillStream'[i][2] = Fill!Final,
             NEW s \in 1..fillStream'[i][1]
      PROVE  Complete(s, i - 1)'
<3>1. i + 1 \in 1..Len(fillStream) /\ fillStream'[i] = fillStream[i + 1]
  BY <1>2, <1>3
<3>2. s \in Slot
<4>1. fillStream'[i][1] \in Slot
  BY <1>3 DEF Item
<4> QED
  BY <2>1, <4>1, StreamsAssumption DEF Slot
<3>3. PICK m \in Nat : m = i - 1 /\ m + 1 = (i + 1) - 1 /\ m < Len(fillStream)
<4>1. i - 1 \in Nat /\ (i - 1) + 1 = (i + 1) - 1 /\ i - 1 < Len(fillStream)
  BY <1>2
<4> QED
  BY <4>1
<3>4. Complete(s, (i + 1) - 1)
  BY <1>1, <2>1, <3>1 DEF FillInv, SentBacked
<3>5. Complete(s, m)'
  BY <3>2, <3>3, <3>4, ReadShifts
<3> QED
  BY <3>3, <3>5 DEF Complete, Arrived
<2>2. ASSUME NEW s \in 1..fillSlot' - 1 PROVE Complete(s, n)'
<3>1. s \in Slot
  BY <1>1, <2>2, StreamsAssumption DEF FillInv, FillTypes, Slot
<3>2. Complete(s, n + 1)
  BY <1>1, <1>2, <2>2 DEF FillInv, SentBacked
<3> QED
  BY <1>2, <3>1, <3>2, ReadShifts
<2>3. ASSUME fillPc = "sending", NEW k \in 1..event - 1
      PROVE  <<fillSlot, k>> \in Arrived(n)'
<3>1. <<fillSlot, k>> \in Arrived(n + 1)
  BY <1>1, <1>2, <2>3 DEF FillInv, SentBacked
<3>2. PICK c : c = fillSlot
  OBVIOUS
<3>3. k \in Nat /\ n < Len(fillStream) /\ <<c, k>> \in Arrived(n + 1)
  BY <1>2, <3>1, <3>2
<3>4. <<c, k>> \in Arrived(n)'
  BY <3>3, EventShifts
<3> QED
  BY <3>2, <3>4
<2> QED
  BY <1>1, <1>2, <2>1, <2>2, <2>3 DEF SentBacked
<1> QED
  BY <1>4, <1>6, <1>7 DEF FillInv

\* save: the temporary file, then the rename.
LEMMA SavingKeeps ==
  ASSUME FillInv, Fill!Write \/ Fill!Rename
  PROVE  FillInv'
<1>1. UNCHANGED <<block, fillPc, fillSlot, event, fillStream, saving, stored, unread>>
  BY DEF Fill!Write, Fill!Rename, Fill!task
<1>2. /\ consumer \in {"writing", "written"}
      /\ \/ consumer' = "written" /\ tmp' = saving /\ file' = file
         \/ consumer = "written" /\ consumer' = "reading" /\ file' = tmp
  BY DEF Fill!Write, Fill!Rename
<1>3. \A n \in Nat : \A s : Complete(s, n) => Complete(s, n)'
  BY <1>1, StaysComplete
<1>4. FillTypes'
  BY <1>1, <1>2 DEF FillInv, FillTypes
<1>5. saving \in Slot /\ \A s \in 1..saving : Complete(s, 0)
  BY <1>2 DEF FillInv, FileBacked
<1>6. FileBacked'
  BY <1>1, <1>2, <1>3, <1>5 DEF FillInv, FileBacked
<1>7. SentBacked'
<2>1. \A n \in Nat : Arrived(n)' = Arrived(n)
  BY <1>1 DEF Arrived
<2>2. \A i \in 1..Len(fillStream) : i - 1 \in Nat
  OBVIOUS
<2>3. PICK n \in Nat : n = Len(fillStream)
  BY DEF FillInv, FillTypes
<2> QED
  BY <1>1, <1>2, <1>3, <2>1, <2>2, <2>3 DEF FillInv, SentBacked
<1> QED
  BY <1>4, <1>6, <1>7 DEF FillInv

\* Nobody reads on; the file stays as it is.
LEMMA DownKeeps ==
  ASSUME FillInv, Fill!Drop \/ Fill!Crash
  PROVE  FillInv'
<1>1. /\ consumer' = "down" /\ fillStream' = <<>> /\ fillPc' \in {fillPc, "off"}
      /\ UNCHANGED <<block, fillSlot, event, file, stored, unread>>
  BY DEF Fill!Drop, Fill!Crash, Fill!task, Fill!disk
<1>2. FillTypes'
  BY <1>1 DEF FillInv, FillTypes
<1>3. \A s : Complete(s, 0) => Complete(s, 0)'
  BY <1>1, StaysComplete
<1>4. FileBacked'
  BY <1>1, <1>3 DEF FillInv, FileBacked
<1> QED
  BY <1>1, <1>2, <1>4 DEF FillInv, SentBacked

LEMMA FillKeeps == FillInv /\ [Fill!Next]_(Fill!vars) => FillInv'
<1> SUFFICES ASSUME FillInv, [Fill!Next]_(Fill!vars) PROVE FillInv'
  OBVIOUS
<1>1. CASE Fill!NextSlot
  BY <1>1, NextSlotKeeps
<1>2. CASE Fill!Block
  BY <1>2, BlockKeeps
<1>3. CASE Fill!NoBlock \/ Fill!ErrorBody \/ Fill!RpcError
  BY <1>3, SkipKeeps
<1>4. CASE Fill!RateLimited \/ Fill!RetryFails
  BY <1>4, WaitKeeps
<1>5. CASE Fill!SendEvent
  BY <1>5, SendEventKeeps
<1>6. CASE Fill!SendFinalized
  BY <1>6, SendFinalizedKeeps
<1>7. CASE Fill!Report
  BY <1>7, ReportKeeps
<1>8. CASE Fill!Start
  BY <1>8, StartKeeps
<1>9. CASE Fill!Read
  BY <1>9, ReadKeeps
<1>10. CASE Fill!Write \/ Fill!Rename
  BY <1>10, SavingKeeps
<1>11. CASE Fill!Drop \/ Fill!Crash
  BY <1>11, DownKeeps
<1>12. CASE UNCHANGED Fill!vars
<2>1. UNCHANGED <<block, fillPc, fillSlot, event, fillStream, Fill!consuming, unread>>
  BY <1>12 DEF Fill!vars, Fill!task
<2>2. UNCHANGED <<consumer, saving, tmp, file, stored>>
  BY <2>1 DEF Fill!consuming, Fill!disk
<2>3. \A n : Arrived(n)' = Arrived(n)
  BY <2>1, <2>2 DEF Arrived
<2> QED
  BY <2>1, <2>2, <2>3 DEF FillInv, FillTypes, FileBacked, SentBacked, Complete, Arrived
<1> QED
  BY <1>1, <1>2, <1>3, <1>4, <1>5, <1>6, <1>7, <1>8, <1>9, <1>10, <1>11, <1>12
     DEF Fill!Next

LEMMA FillInvExact == FillInv => Fill!CheckpointResumes
<1> SUFFICES ASSUME FillInv PROVE Fill!CheckpointResumes
  OBVIOUS
<1>1. file # Fill!Partial
  BY DEF FillInv, FileBacked, Slot, Fill!None, Fill!Partial
<1>2. Arrived(0) = stored
  BY DEF Arrived
<1> QED
  BY <1>1, <1>2 DEF FillInv, FileBacked, Complete, Fill!CheckpointResumes

\* For every range, every number of events of a block, every capacity of the
\* stream and any crashes: the checkpoint file can be read, and every event up
\* to its slot is stored unless the node did not answer for the slot
\* (FileCheckpointStore::save, build_backfill_stream).
THEOREM CheckpointIsBacked ==
  /\ Fill!Spec => []Fill!CheckpointResumes
  /\ MCSpec => []CheckpointResumes
<1>1. MCInit => FillInv
  BY FillStarts DEF MCInit
<1>2. FillInv /\ [MCNext]_mcVars => FillInv'
<2> SUFFICES ASSUME FillInv, [MCNext]_mcVars PROVE FillInv'
  OBVIOUS
<2>1. CASE Backfill(Fill!Next)
  BY <2>1, FillKeeps DEF Backfill
<2>2. CASE ~Backfill(Fill!Next)
<3>1. UNCHANGED fillVars
  BY <2>2 DEF MCNext, Ethereum, Gateway, Client, Solana, mcVars
<3>2. UNCHANGED Fill!vars
  BY <3>1 DEF fillVars, Fill!vars, Fill!task, Fill!consuming, Fill!disk
<3> QED
  BY <3>2, FillKeeps
<2> QED
  BY <2>1, <2>2
<1>3. FillInv => CheckpointResumes
  BY FillInvExact DEF CheckpointResumes
<1>4. MCSpec => []CheckpointResumes
  BY <1>1, <1>2, <1>3, PTL DEF MCSpec
<1>5. Fill!Spec => []Fill!CheckpointResumes
  BY FillStarts, FillKeeps, FillInvExact, PTL DEF Fill!Spec
<1> QED
  BY <1>4, <1>5

(***************************************************************************)
(* WsStream.                                                               *)
(***************************************************************************)
LEMMA DropsKeep == Ws!DropsAccounted /\ [Ws!Next]_(Ws!vars) => Ws!DropsAccounted'
<1> SUFFICES ASSUME Ws!DropsAccounted, [Ws!Next]_(Ws!vars) PROVE Ws!DropsAccounted'
  OBVIOUS
<1> USE DEF Ws!DropsAccounted, Ws!hist, Ws!conn
<1>1. CASE Ws!Insert
  BY <1>1 DEF Ws!Insert
<1>2. CASE Ws!ClientMessage
  BY <1>2 DEF Ws!ClientMessage, Ws!Subscribe, Ws!SubscribeUnparsable,
     Ws!SubscribeResuming, Ws!Unsubscribe
<1>3. CASE Ws!Poll
  BY <1>3 DEF Ws!Poll
<1>4. CASE Ws!ReplayRow \/ Ws!ReplayDone \/ Ws!SkipRow \/ Ws!QueueRow \/ Ws!PageDone
  BY <1>4 DEF Ws!ReplayRow, Ws!ReplayDone, Ws!SkipRow, Ws!QueueRow, Ws!PageDone
<1>5. CASE Ws!RefuseRow
  BY <1>5 DEF Ws!RefuseRow
<1>6. CASE Ws!SendQueued \/ Ws!Close \/ Ws!Reopen
  BY <1>6 DEF Ws!SendQueued, Ws!Close, Ws!Reopen
<1>7. CASE UNCHANGED Ws!vars
  BY <1>7 DEF Ws!vars
<1> QED
  BY <1>1, <1>2, <1>3, <1>4, <1>5, <1>6, <1>7 DEF Ws!Next, Ws!Work

\* For every buffer, threshold and number of rows: the count a lag notice is
\* about to carry is that of the rows dropped since the last one
\* (handle_ws_connection, dropped_count).
THEOREM DropsAreAccounted ==
  /\ Ws!Spec => []Ws!DropsAccounted
  /\ MCSpec => []DropsAccounted
<1>1. Ws!Init => Ws!DropsAccounted
  BY DEF Ws!Init, Ws!Fresh, Ws!DropsAccounted
<1>2. MCInit => Ws!DropsAccounted
  BY <1>1 DEF MCInit
<1>3. Ws!DropsAccounted /\ [MCNext]_mcVars => Ws!DropsAccounted'
<2> SUFFICES ASSUME Ws!DropsAccounted, [MCNext]_mcVars PROVE Ws!DropsAccounted'
  OBVIOUS
<2>1. CASE Gateway(Ws!Next)
  BY <2>1, DropsKeep DEF Gateway
<2>2. CASE ~Gateway(Ws!Next)
<3>1. UNCHANGED wsVars
  BY <2>2 DEF MCNext, Ethereum, Backfill, Client, Solana, mcVars
<3> QED
  BY <3>1 DEF wsVars, Ws!DropsAccounted
<2> QED
  BY <2>1, <2>2
<1>4. Ws!DropsAccounted => DropsAccounted
  BY DEF DropsAccounted
<1>5. MCSpec => []DropsAccounted
  BY <1>2, <1>3, <1>4, PTL DEF MCSpec
<1>6. Ws!Spec => []Ws!DropsAccounted
  BY <1>1, DropsKeep, PTL DEF Ws!Spec
<1> QED
  BY <1>5, <1>6

(***************************************************************************)
(* SdkStream.  What keeps the items of two connections apart is that the   *)
(* task tries to connect only when the last item for the consumer is a     *)
(* Reconnected, or there is none (Bridged).                                *)
(***************************************************************************)
Sent == [kind : {"none", "error", "reconnected", "anomaly", "risk", "lag",
                 "resume_failed"},
         conn : Nat]

SdkTypes ==
  /\ sdkPc \in {"top", "backoff", "connect", "subscribe", "read", "send", "done"}
  /\ made \in Nat /\ count \in Nat
  /\ channel \in Seq(Sent) /\ taken \in Sent /\ sdkItem \in Sent
  /\ sdkPc = "send" => sdkNext \in {"read", "connect", "done"}

Gap(a, b) ==
  b.conn > a.conn /\ a.kind # "none" => "reconnected" \in {a.kind, b.kind}

\* What a sequence of items must be like for the consumer.
Told(line) == \A i \in 1..Len(line) - 1 : Gap(line[i], line[i + 1])

Bridge == {"none", "reconnected"}

\* The last item, and where the task is or will be once it was sent.
Bridged(last) ==
  LET place == IF sdkPc = "send" THEN sdkNext ELSE sdkPc
  IN  /\ last.conn <= made
      /\ place \in {"top", "backoff", "subscribe", "read"} =>
           last.kind \in Bridge \/ last.conn = made
      /\ place = "connect" => last.kind \in Bridge
      /\ place = "top" /\ count = 0 => last.kind \in Bridge
      /\ place = "done" => last.kind = "error"

SdkInv ==
  /\ SdkTypes
  /\ sdkConsumer => Told(Sdk!Seen) /\ Bridged(Sdk!Seen[Len(Sdk!Seen)])

LEMMA SeenTyped ==
  ASSUME SdkTypes
  PROVE  /\ Sdk!Seen \in Seq(Sent) /\ Len(Sdk!Seen) >= 1
         /\ sdkPc = "send" => Sdk!Seen[Len(Sdk!Seen)] = sdkItem
BY DEF SdkTypes, Sdk!Seen

LEMMA SdkStarts == Sdk!Init => SdkInv
<1> SUFFICES ASSUME Sdk!Init PROVE SdkInv
  OBVIOUS
<1>1. SdkTypes
  BY DEF Sdk!Init, SdkTypes, Sent, Sdk!NoItem
<1>2. Sdk!Seen = <<Sdk!NoItem>>
  BY DEF Sdk!Init, Sdk!Seen
<1> QED
  BY <1>1, <1>2 DEF Sdk!Init, SdkInv, Told, Bridged, Bridge, Sdk!NoItem

\* What the consumer sees stays as it is.
LEMMA SeenStays ==
  ASSUME SdkInv, SdkTypes', sdkConsumer' => sdkConsumer, Sdk!Seen' = Sdk!Seen,
         \A x \in Sent : sdkConsumer' /\ Bridged(x) => Bridged(x)'
  PROVE  SdkInv'
<1>1. SdkTypes
  BY DEF SdkInv
<1>2. PICK x \in Sent : x = Sdk!Seen[Len(Sdk!Seen)]
  BY <1>1, SeenTyped
<1>3. sdkConsumer' => Told(Sdk!Seen') /\ Bridged(x)'
  BY <1>2 DEF SdkInv
<1> QED
  BY <1>2, <1>3 DEF SdkInv, Told, Bridged

\* The task sends nothing.
LEMMA NothingSent ==
  ASSUME SdkInv, SdkTypes', UNCHANGED <<sdkConsumer, channel, taken>>,
         sdkPc # "send", sdkPc' # "send",
         \A x \in Sent : sdkConsumer /\ Bridged(x) => Bridged(x)'
  PROVE  SdkInv'
<1>1. Sdk!Seen' = Sdk!Seen
  BY DEF Sdk!Seen
<1> QED
  BY <1>1, SeenStays

\* The task enters tx.send(item).await.
LEMMA ItemOffered ==
  ASSUME SdkInv, SdkTypes', UNCHANGED <<sdkConsumer, channel, taken>>,
         sdkPc # "send", sdkPc' = "send", NEW i \in Sent, sdkItem' = i,
         \A x \in Sent : sdkConsumer /\ Bridged(x) => Gap(x, i) /\ Bridged(i)'
  PROVE  SdkInv'
<1>1. SdkTypes
  BY DEF SdkInv
<1>2. Sdk!Seen' = Append(Sdk!Seen, i)
  BY <1>1 DEF Sdk!Seen, SdkTypes
<1>3. Sdk!Seen \in Seq(Sent) /\ Len(Sdk!Seen) >= 1
  BY <1>1, SeenTyped
<1>4. PICK n \in Nat \ {0} : n = Len(Sdk!Seen)
  BY <1>3
<1>5. PICK x \in Sent : x = Sdk!Seen[n]
  BY <1>3, <1>4
<1>6. SUFFICES ASSUME sdkConsumer
               PROVE  Told(Sdk!Seen') /\ Bridged(Sdk!Seen[Len(Sdk!Seen)])'
  BY DEF SdkInv
<1>7. Told(Sdk!Seen) /\ Bridged(x)
  BY <1>4, <1>5, <1>6 DEF SdkInv
<1>8. Gap(x, i) /\ Bridged(i)'
  BY <1>6, <1>7
<1>9. /\ Len(Sdk!Seen') = n + 1 /\ Sdk!Seen'[n + 1] = i
      /\ \A j \in 1..n : Sdk!Seen'[j] = Sdk!Seen[j]
  BY <1>2, <1>3, <1>4
<1>10. Told(Sdk!Seen')
<2> SUFFICES ASSUME NEW j \in 1..n PROVE Gap(Sdk!Seen'[j], Sdk!Seen'[j + 1])
  BY <1>9 DEF Told
<2>1. CASE j = n
  BY <1>5, <1>8, <1>9, <2>1
<2>2. CASE j # n
<3>1. j \in 1..n - 1 /\ j + 1 \in 1..n
  BY <2>2
<3> QED
  BY <1>4, <1>7, <1>9, <3>1 DEF Told
<2> QED
  BY <2>1, <2>2
<1>11. Bridged(Sdk!Seen[Len(Sdk!Seen)])'
  BY <1>8, <1>9 DEF Bridged
<1> QED
  BY <1>10, <1>11

LEMMA TopKeeps == ASSUME SdkInv, Sdk!Top PROVE SdkInv'
<1>1. sdkPc = "top" /\ UNCHANGED <<count, lastSeen, channel, sdkConsumer, taken, made>>
  BY DEF Sdk!Top, Sdk!hist
<1>2. SdkTypes
  BY DEF SdkInv
<1>3. CASE sdkPc' \in {"connect", "backoff"} /\ UNCHANGED <<sdkNext, sdkItem>>
            /\ (sdkPc' = "connect" => count = 0)
<2>1. SdkTypes'
  BY <1>1, <1>2, <1>3 DEF SdkTypes
<2>2. \A x \in Sent : Bridged(x) => Bridged(x)'
  BY <1>1, <1>3 DEF Bridged
<2> QED
  BY <1>1, <1>3, <2>1, <2>2, NothingSent
<1>4. CASE Sdk!SendThen(Sdk!Item("error"), "done")
<2> DEFINE i == Sdk!Item("error")
<2>1. i \in Sent /\ i.kind = "error" /\ i.conn = made
  BY <1>2 DEF SdkTypes, Sdk!Item, Sent
<2>2. sdkPc' = "send" /\ sdkNext' = "done" /\ sdkItem' = i
  BY <1>4 DEF Sdk!SendThen
<2>3. SdkTypes'
  BY <1>1, <1>2, <2>1, <2>2 DEF SdkTypes
<2> HIDE DEF i
<2>4. PICK c \in Sent : c = i
  BY <2>1
<2>5. \A x \in Sent : Bridged(x) => Gap(x, c) /\ Bridged(c)'
  BY <1>1, <1>2, <2>1, <2>2, <2>4 DEF Bridged, Gap, Bridge, SdkTypes
<2> QED
  BY <1>1, <2>2, <2>3, <2>4, <2>5, ItemOffered
<1> QED
  BY <1>3, <1>4 DEF Sdk!Top

\* Reconnected comes before every connection but the first.
LEMMA BackoffKeeps == ASSUME SdkInv, Sdk!Backoff PROVE SdkInv'
<1> DEFINE i == Sdk!Item("reconnected")
<1>1. /\ sdkPc = "backoff" /\ sdkPc' = "send" /\ sdkNext' = "connect" /\ sdkItem' = i
      /\ UNCHANGED <<count, lastSeen, channel, sdkConsumer, taken, made>>
  BY DEF Sdk!Backoff, Sdk!SendThen, Sdk!hist
<1>2. SdkTypes
  BY DEF SdkInv
<1>3. i \in Sent /\ i.kind = "reconnected" /\ i.conn = made
  BY <1>2 DEF SdkTypes, Sdk!Item, Sent
<1>4. SdkTypes'
  BY <1>1, <1>2, <1>3 DEF SdkTypes
<1> HIDE DEF i
<1>5. PICK c \in Sent : c = i
  BY <1>3
<1>6. \A x \in Sent : Bridged(x) => Gap(x, c) /\ Bridged(c)'
  BY <1>1, <1>2, <1>3, <1>5 DEF Bridged, Gap, Bridge, SdkTypes
<1> QED
  BY <1>1, <1>4, <1>5, <1>6, ItemOffered

LEMMA ConnectingKeeps ==
  ASSUME SdkInv, Sdk!ConnectFails \/ Sdk!Connect \/ Sdk!SubscribeFails
                   \/ Sdk!Subscribe \/ Sdk!Disconnect
  PROVE  SdkInv'
<1>1. UNCHANGED <<sdkItem, sdkNext, channel, sdkConsumer, taken>>
  BY DEF Sdk!ConnectFails, Sdk!Connect, Sdk!SubscribeFails, Sdk!Subscribe, Sdk!Disconnect
<1>2. SdkTypes
  BY DEF SdkInv
<1>3. \/ /\ sdkPc \in {"connect", "subscribe", "read"} /\ sdkPc' = "top"
         /\ count' = count + 1 /\ made' = made
      \/ sdkPc = "connect" /\ sdkPc' = "subscribe" /\ count' = count /\ made' = made + 1
      \/ sdkPc = "subscribe" /\ sdkPc' = "read" /\ count' = count /\ made' = made
  BY DEF Sdk!ConnectFails, Sdk!Connect, Sdk!SubscribeFails, Sdk!Subscribe,
     Sdk!Disconnect, Sdk!Failed, Sdk!hist
<1>4. SdkTypes'
  BY <1>1, <1>2, <1>3 DEF SdkTypes
<1>5. \A x \in Sent : Bridged(x) => Bridged(x)'
  BY <1>2, <1>3 DEF Bridged, SdkTypes, Sent
<1> QED
  BY <1>1, <1>3, <1>4, <1>5, NothingSent

LEMMA FramesKeep == ASSUME SdkInv, Sdk!Frames PROVE SdkInv'
<1>1. PICK kind \in {"anomaly", "risk", "lag", "resume_failed"} :
        Sdk!SendThen(Sdk!Item(kind), "read")
  BY DEF Sdk!Frames, Sdk!EventFrame, Sdk!NoteFrame, Sdk!ReplayTruncated
<1> DEFINE i == Sdk!Item(kind)
<1>2. /\ sdkPc = "read" /\ sdkPc' = "send" /\ sdkNext' = "read" /\ sdkItem' = i
      /\ UNCHANGED <<count, channel, sdkConsumer, taken, made>>
  BY <1>1 DEF Sdk!Frames, Sdk!EventFrame, Sdk!NoteFrame, Sdk!ReplayTruncated,
     Sdk!SendThen, Sdk!hist
<1>3. SdkTypes
  BY DEF SdkInv
<1>4. i \in Sent /\ i.conn = made
  BY <1>3 DEF SdkTypes, Sdk!Item, Sent
<1>5. SdkTypes'
  BY <1>2, <1>3, <1>4 DEF SdkTypes
<1> HIDE DEF i
<1>6. PICK c \in Sent : c = i
  BY <1>4
<1>7. \A x \in Sent : Bridged(x) => Gap(x, c) /\ Bridged(c)'
  BY <1>2, <1>3, <1>4, <1>6 DEF Bridged, Gap, Bridge, SdkTypes
<1> QED
  BY <1>2, <1>5, <1>6, <1>7, ItemOffered

\* The item goes from the task to the channel.
LEMMA SendItemKeeps == ASSUME SdkInv, Sdk!SendItem PROVE SdkInv'
<1>1. /\ sdkPc = "send" /\ channel' = Append(channel, sdkItem) /\ sdkPc' = sdkNext
      /\ sdkItem' = Sdk!NoItem
      /\ UNCHANGED <<sdkNext, count, lastSeen, sdkConsumer, taken, made>>
  BY DEF Sdk!SendItem, Sdk!hist
<1>2. SdkTypes
  BY DEF SdkInv
<1>3. SdkTypes' /\ sdkPc' # "send"
<2>1. Sdk!NoItem \in Sent
  BY DEF Sdk!NoItem, Sent
<2> QED
  BY <1>1, <1>2, <2>1 DEF SdkTypes
<1>4. Sdk!Seen' = Sdk!Seen
  BY <1>1, <1>2, <1>3 DEF Sdk!Seen, SdkTypes
<1>5. \A x \in Sent : Bridged(x) => Bridged(x)'
  BY <1>1, <1>3 DEF Bridged
<1> QED
  BY <1>1, <1>3, <1>4, <1>5, SeenStays

LEMMA DroppedKeeps ==
  ASSUME SdkInv, Sdk!SendRefused \/ Sdk!DropStream
  PROVE  SdkInv'
<1>1. SdkTypes'
<2>1. Sdk!NoItem \in Sent
  BY DEF Sdk!NoItem, Sent
<2>2. CASE Sdk!SendRefused
  BY <2>1, <2>2 DEF SdkInv, SdkTypes, Sdk!SendRefused, Sdk!hist
<2>3. CASE Sdk!DropStream
<3>1. channel' = <<>> /\ UNCHANGED <<sdkPc, sdkNext, sdkItem, count, taken, made>>
  BY <2>3 DEF Sdk!DropStream, Sdk!task, Sdk!hist
<3> QED
  BY <3>1 DEF SdkInv, SdkTypes
<2> QED
  BY <2>2, <2>3
<1>2. ~sdkConsumer'
  BY DEF Sdk!SendRefused, Sdk!DropStream
<1> QED
  BY <1>1, <1>2 DEF SdkInv

LEMMA ConsumeKeeps == ASSUME SdkInv, Sdk!Consume PROVE SdkInv'
<1>1. /\ sdkConsumer /\ channel # <<>> /\ taken' = Head(channel)
      /\ channel' = Tail(channel)
      /\ UNCHANGED <<sdkPc, sdkNext, sdkItem, count, sdkConsumer, made>>
  BY DEF Sdk!Consume, Sdk!task, Sdk!hist
<1>2. SdkTypes
  BY DEF SdkInv
<1>3. SdkTypes'
  BY <1>1, <1>2 DEF SdkTypes
<1>4. Sdk!Seen' = Tail(Sdk!Seen) /\ Len(Sdk!Seen) >= 2
<2> DEFINE end == IF sdkPc = "send" THEN <<sdkItem>> ELSE <<>>
<2>1. channel \in Seq(Sent) /\ end \in Seq(Sent) /\ taken \in Sent
  BY <1>2 DEF SdkTypes
<2>2. Sdk!Seen = <<taken>> \o channel \o end
      /\ Sdk!Seen' = <<Head(channel)>> \o Tail(channel) \o end
  BY <1>1 DEF Sdk!Seen
<2> HIDE DEF end
<2>3. channel = <<Head(channel)>> \o Tail(channel)
  BY <1>1, <2>1
<2> QED
  BY <1>1, <2>1, <2>2, <2>3
<1>5. Sdk!Seen \in Seq(Sent)
  BY <1>2, SeenTyped
<1>6. PICK n \in Nat \ {0} : Len(Sdk!Seen) = n + 1 /\ Len(Sdk!Seen') = n
  BY <1>4, <1>5
<1>7. \A j \in 1..n : Sdk!Seen'[j] = Sdk!Seen[j + 1]
  BY <1>4, <1>5, <1>6
<1>8. Told(Sdk!Seen')
<2>1. \A j \in 1..n - 1 : j + 1 \in 1..n /\ j \in 1..n
  OBVIOUS
<2> QED
  BY <1>1, <1>6, <1>7, <2>1 DEF SdkInv, Told
<1>9. Bridged(Sdk!Seen[Len(Sdk!Seen)])'
  BY <1>1, <1>6, <1>7 DEF SdkInv, Bridged
<1> QED
  BY <1>3, <1>8, <1>9 DEF SdkInv

LEMMA SdkKeeps == SdkInv /\ [Sdk!Next]_(Sdk!vars) => SdkInv'
<1> SUFFICES ASSUME SdkInv, [Sdk!Next]_(Sdk!vars) PROVE SdkInv'
  OBVIOUS
<1>1. CASE Sdk!Top
  BY <1>1, TopKeeps
<1>2. CASE Sdk!Backoff
  BY <1>2, BackoffKeeps
<1>3. CASE Sdk!ConnectFails \/ Sdk!Connect \/ Sdk!SubscribeFails \/ Sdk!Subscribe
             \/ Sdk!Disconnect
  BY <1>3, ConnectingKeeps
<1>4. CASE Sdk!Frames
  BY <1>4, FramesKeep
<1>5. CASE Sdk!SendItem
  BY <1>5, SendItemKeeps
<1>6. CASE Sdk!SendRefused \/ Sdk!DropStream
  BY <1>6, DroppedKeeps
<1>7. CASE Sdk!Consume
  BY <1>7, ConsumeKeeps
<1>8. CASE UNCHANGED Sdk!vars
  BY <1>8 DEF Sdk!vars, Sdk!task, Sdk!hist, SdkInv, SdkTypes, Told, Bridged, Sdk!Seen
<1> QED
  BY <1>1, <1>2, <1>3, <1>4, <1>5, <1>6, <1>7, <1>8 DEF Sdk!Next, Sdk!Reconnecting

LEMMA SdkInvTold == SdkInv => Sdk!ConsumerTold
<1> SUFFICES ASSUME SdkInv, sdkConsumer PROVE Sdk!ConsumerTold
  BY DEF Sdk!ConsumerTold
<1>1. Told(Sdk!Seen) /\ Bridged(Sdk!Seen[Len(Sdk!Seen)])
  BY DEF SdkInv
<1> QED
  BY <1>1 DEF Told, Gap, Bridged, Sdk!ConsumerTold

\* For every number of reconnects, every channel and whatever the server does:
\* the consumer of an AnomalyStream (ws_connection_loop) finds a Reconnected
\* between the items of two connections, and an error at the end.
THEOREM ConsumerIsTold ==
  /\ Sdk!Spec => []Sdk!ConsumerTold
  /\ MCSpec => []ConsumerTold
<1>1. MCInit => SdkInv
  BY SdkStarts DEF MCInit
<1>2. SdkInv /\ [MCNext]_mcVars => SdkInv'
<2> SUFFICES ASSUME SdkInv, [MCNext]_mcVars PROVE SdkInv'
  OBVIOUS
<2>1. CASE Client(Sdk!Next)
  BY <2>1, SdkKeeps DEF Client
<2>2. CASE ~Client(Sdk!Next)
<3>1. UNCHANGED sdkVars
  BY <2>2 DEF MCNext, Ethereum, Gateway, Backfill, Solana, mcVars
<3>2. UNCHANGED Sdk!vars
  BY <3>1 DEF sdkVars, Sdk!vars, Sdk!task, Sdk!hist
<3> QED
  BY <3>2, SdkKeeps
<2> QED
  BY <2>1, <2>2
<1>3. SdkInv => ConsumerTold
  BY SdkInvTold DEF ConsumerTold
<1>4. MCSpec => []ConsumerTold
  BY <1>1, <1>2, <1>3, PTL DEF MCSpec
<1>5. Sdk!Spec => []Sdk!ConsumerTold
  BY SdkStarts, SdkKeeps, SdkInvTold, PTL DEF Sdk!Spec
<1> QED
  BY <1>4, <1>5

(***************************************************************************)
(* SolanaStream.  What a channel accepted on this connection is what was   *)
(* sent, what is being sent, and what the notifications in it will yield;  *)
(* the last part is named by the places it has in the channel, which move  *)
(* with what is put in at its end and taken from its front.                *)
(***************************************************************************)
Heard == [slot : Nat, ok : BOOLEAN]
Open  == {"subscribe", "asking", "drain", "send"}

\* The slot in the task's hands.
Sending(i) == IF pc = "send" /\ slotItem.of = i THEN <<slotItem.slot>> ELSE <<>>

Kept(i) ==
  \E rest \in Seq(Nat) :
    /\ heard[i] = (sent[i] \o Sending(i)) \o rest
    /\ Live!Yielded(i, queue[i], rest)

LiveTypes ==
  /\ slot \in Nat
  /\ queue \in [Live!Sub -> Seq(Heard)]
  /\ heard \in [Live!Sub -> Seq(Nat)] /\ sent \in [Live!Sub -> Seq(Nat)]
  /\ pc = "send" /\ slotItem.of \in Live!Sub => slotItem.slot \in Nat

LiveInv == LiveTypes /\ (pc \in Open => \A i \in Live!Sub : Kept(i))

LEMMA AppendShape ==
  ASSUME NEW T, NEW q \in Seq(T), NEW x \in T
  PROVE  \E N \in Nat :
           /\ N = Len(q) /\ DOMAIN q = 1..N /\ DOMAIN Append(q, x) = 1..(N + 1)
           /\ Append(q, x)[N + 1] = x /\ \A m \in 1..N : Append(q, x)[m] = q[m]
<1>1. PICK N \in Nat : N = Len(q) /\ DOMAIN q = 1..N
  OBVIOUS
<1>2. PICK p \in Seq(T) : p = Append(q, x)
  BY AppendProperties
<1>3. Len(p) = N + 1 /\ DOMAIN p = 1..(N + 1)
  BY <1>1, <1>2, AppendProperties
<1>4. p[N + 1] = x /\ \A m \in 1..N : p[m] = q[m]
  BY <1>1, <1>2, AppendProperties
<1> QED
  BY <1>1, <1>2, <1>3, <1>4

LEMMA TailShape ==
  ASSUME NEW T, NEW q \in Seq(T), q # <<>>
  PROVE  \E N \in Nat \ {0} :
           /\ N = Len(q) /\ DOMAIN q = 1..N /\ Head(q) = q[1]
           /\ DOMAIN Tail(q) = 1..(N - 1) /\ \A m \in 1..(N - 1) : Tail(q)[m] = q[m + 1]
<1>1. PICK N \in Nat \ {0} : N = Len(q) /\ DOMAIN q = 1..N
  OBVIOUS
<1>2. PICK p \in Seq(T) : p = Tail(q)
  BY HeadTailProperties
<1>3. Len(p) = N - 1 /\ DOMAIN p = 1..(N - 1)
  BY <1>1, <1>2, HeadTailProperties
<1>4. \A m \in 1..(N - 1) : p[m] = q[m + 1]
  BY <1>1, <1>2, <1>3, HeadTailProperties
<1> QED
  BY <1>1, <1>2, <1>3, <1>4

LEMMA YieldedNothing ==
  ASSUME NEW i
  PROVE  Live!Yielded(i, <<>>, <<>>)
<1> DEFINE f == [k \in DOMAIN <<>> |-> k]
<1>1. DOMAIN <<>> = {}
  OBVIOUS
<1>2. f \in [DOMAIN <<>> -> DOMAIN <<>>]
  BY <1>1
<1> QED
  BY <1>1, <1>2 DEF Live!Yielded

\* A notification that yields a slot, at the end of the channel.
LEMMA YieldedMore ==
  ASSUME NEW i, NEW q \in Seq(Heard), NEW n \in Heard, NEW s \in Seq(Nat),
         Live!Yielded(i, q, s), Live!Yields(i, n)
  PROVE  Live!Yielded(i, Append(q, n), Append(s, n.slot))
<1>1. PICK f \in [DOMAIN s -> DOMAIN q] :
        /\ \A j, k \in DOMAIN s : j < k => f[j] < f[k]
        /\ \A m \in DOMAIN q : Live!Yields(i, q[m]) <=> \E k \in DOMAIN s : f[k] = m
        /\ \A k \in DOMAIN s : s[k] = q[f[k]].slot
  BY DEF Live!Yielded
<1> DEFINE p == Append(q, n)
           t == Append(s, n.slot)
<1>2. PICK N \in Nat : /\ N = Len(q) /\ DOMAIN q = 1..N /\ DOMAIN p = 1..(N + 1)
                       /\ p[N + 1] = n /\ \A m \in 1..N : p[m] = q[m]
  BY AppendShape, SMTT(30)
<1>3. n.slot \in Nat
  BY DEF Heard
<1>4. PICK L \in Nat : /\ L = Len(s) /\ DOMAIN s = 1..L /\ DOMAIN t = 1..(L + 1)
                       /\ t[L + 1] = n.slot /\ \A k \in 1..L : t[k] = s[k]
  BY <1>3, AppendShape
<1> HIDE DEF p, t
<1> DEFINE g == [k \in 1..(L + 1) |-> IF k \in 1..L THEN f[k] ELSE N + 1]
<1>a. \A k \in 1..L : f[k] \in 1..N
  BY <1>1, <1>2, <1>4
<1>5. /\ g \in [DOMAIN t -> DOMAIN p]
      /\ \A k \in 1..L : g[k] = f[k] /\ f[k] \in 1..N
      /\ g[L + 1] = N + 1
<2>1. \A k \in 1..L : k \in 1..(L + 1) /\ g[k] = f[k]
  OBVIOUS
<2>2. L + 1 \in 1..(L + 1) /\ L + 1 \notin 1..L
  OBVIOUS
<2>3. g[L + 1] = N + 1
  BY <2>2
<2>4. \A k \in 1..(L + 1) : g[k] \in 1..(N + 1)
  BY <1>a
<2> QED
  BY <1>2, <1>4, <1>a, <2>1, <2>3, <2>4
<1> HIDE DEF g
<1>6. \A j, k \in DOMAIN t : j < k => g[j] < g[k]
<2> SUFFICES ASSUME NEW j \in DOMAIN t, NEW k \in DOMAIN t, j < k PROVE g[j] < g[k]
  OBVIOUS
<2>1. j \in 1..L /\ (k \in 1..L \/ k = L + 1)
  BY <1>4
<2>2. CASE k \in 1..L
  BY <1>1, <1>4, <1>5, <2>1, <2>2
<2>3. CASE k = L + 1
  BY <1>2, <1>5, <2>1, <2>3
<2> QED
  BY <2>1, <2>2, <2>3
<1>7. ASSUME NEW m \in DOMAIN p
      PROVE  Live!Yields(i, p[m]) <=> \E k \in DOMAIN t : g[k] = m
<2>1. CASE m = N + 1
  BY <1>2, <1>4, <1>5, <2>1
<2>2. CASE m \in 1..N
<3>1. Live!Yields(i, p[m]) <=> \E k \in 1..L : g[k] = m
<4>1. m \in DOMAIN q /\ p[m] = q[m] /\ DOMAIN s = 1..L
  BY <1>2, <1>4, <2>2
<4>2. Live!Yields(i, q[m]) <=> \E k \in DOMAIN s : f[k] = m
  BY <1>1, <4>1
<4>3. \A k \in 1..L : g[k] = f[k]
  BY <1>5
<4> QED
  BY <4>1, <4>2, <4>3
<3>2. g[L + 1] # m
  BY <1>2, <1>5, <2>2
<3>3. \A k : k \in DOMAIN t <=> k \in 1..L \/ k = L + 1
  BY <1>4
<3> QED
  BY <3>1, <3>2, <3>3
<2>3. m = N + 1 \/ m \in 1..N
  BY <1>2
<2> QED
  BY <2>1, <2>2, <2>3
<1>8. \A k \in DOMAIN t : t[k] = p[g[k]].slot
<2> SUFFICES ASSUME NEW k \in DOMAIN t PROVE t[k] = p[g[k]].slot
  OBVIOUS
<2>1. CASE k = L + 1
  BY <1>2, <1>4, <1>5, <2>1
<2>2. CASE k \in 1..L
<3>1. g[k] = f[k] /\ f[k] \in 1..N /\ t[k] = s[k] /\ k \in DOMAIN s
  BY <1>4, <1>5, <2>2
<3>2. p[f[k]] = q[f[k]] /\ s[k] = q[f[k]].slot
  BY <1>1, <1>2, <3>1
<3> QED
  BY <3>1, <3>2
<2>3. k \in 1..L \/ k = L + 1
  BY <1>4
<2> QED
  BY <2>1, <2>2, <2>3
<1>9. Live!Yielded(i, p, t)
  BY <1>5, <1>6, <1>7, <1>8 DEF Live!Yielded
<1> QED
  BY <1>9 DEF p, t

\* One that yields nothing.
LEMMA YieldedSame ==
  ASSUME NEW i, NEW q \in Seq(Heard), NEW n \in Heard, NEW s \in Seq(Nat),
         Live!Yielded(i, q, s), ~Live!Yields(i, n)
  PROVE  Live!Yielded(i, Append(q, n), s)
<1>1. PICK f \in [DOMAIN s -> DOMAIN q] :
        /\ \A j, k \in DOMAIN s : j < k => f[j] < f[k]
        /\ \A m \in DOMAIN q : Live!Yields(i, q[m]) <=> \E k \in DOMAIN s : f[k] = m
        /\ \A k \in DOMAIN s : s[k] = q[f[k]].slot
  BY DEF Live!Yielded
<1> DEFINE p == Append(q, n)
<1>2. PICK N \in Nat : /\ N = Len(q) /\ DOMAIN q = 1..N /\ DOMAIN p = 1..(N + 1)
                       /\ p[N + 1] = n /\ \A m \in 1..N : p[m] = q[m]
  BY AppendShape, SMTT(30)
<1> HIDE DEF p
<1>3. f \in [DOMAIN s -> DOMAIN p] /\ \A k \in DOMAIN s : f[k] \in 1..N
  BY <1>1, <1>2
<1>4. ASSUME NEW m \in DOMAIN p
      PROVE  Live!Yields(i, p[m]) <=> \E k \in DOMAIN s : f[k] = m
<2>1. CASE m = N + 1
  BY <1>2, <1>3, <2>1
<2>2. CASE m \in 1..N
  BY <1>1, <1>2, <2>2
<2> QED
  BY <1>2, <2>1, <2>2
<1>5. \A k \in DOMAIN s : s[k] = p[f[k]].slot
  BY <1>1, <1>2, <1>3
<1>6. Live!Yielded(i, p, s)
  BY <1>1, <1>3, <1>4, <1>5 DEF Live!Yielded
<1> QED
  BY <1>6 DEF p

\* The first notification is taken.
LEMMA YieldedFirst ==
  ASSUME NEW i, NEW q \in Seq(Heard), q # <<>>, NEW s \in Seq(Nat),
         Live!Yielded(i, q, s)
  PROVE  /\ Live!Yields(i, Head(q)) =>
              /\ s # <<>> /\ Head(s) = Head(q).slot
              /\ Live!Yielded(i, Tail(q), Tail(s))
         /\ ~Live!Yields(i, Head(q)) => Live!Yielded(i, Tail(q), s)
<1>1. PICK f \in [DOMAIN s -> DOMAIN q] :
        /\ \A j, k \in DOMAIN s : j < k => f[j] < f[k]
        /\ \A m \in DOMAIN q : Live!Yields(i, q[m]) <=> \E k \in DOMAIN s : f[k] = m
        /\ \A k \in DOMAIN s : s[k] = q[f[k]].slot
  BY DEF Live!Yielded
<1> DEFINE p == Tail(q)
<1>2. PICK N \in Nat \ {0} :
        /\ N = Len(q) /\ DOMAIN q = 1..N /\ Head(q) = q[1]
        /\ DOMAIN p = 1..(N - 1) /\ \A m \in 1..(N - 1) : p[m] = q[m + 1]
  BY TailShape
<1>3. PICK L \in Nat : L = Len(s) /\ DOMAIN s = 1..L
  OBVIOUS
<1> HIDE DEF p
<1>4. CASE Live!Yields(i, Head(q))
<2>1. PICK a \in DOMAIN s : f[a] = 1
  BY <1>1, <1>2, <1>4
<2>2. ~(1 < a)
<3> SUFFICES ASSUME 1 < a PROVE FALSE
  OBVIOUS
<3>1. f[1] < f[a] /\ f[1] \in 1..N
  BY <1>1, <1>2, <1>3
<3> QED
  BY <1>2, <2>1, <3>1
<2>3. 1 \in DOMAIN s /\ f[1] = 1
  BY <1>3, <2>1, <2>2
<2>4. \A k \in DOMAIN s : k # 1 => f[k] \in 2..N
<3> SUFFICES ASSUME NEW k \in DOMAIN s, k # 1 PROVE f[k] \in 2..N
  OBVIOUS
<3>1. f[1] < f[k] /\ f[k] \in 1..N
  BY <1>1, <1>2, <1>3, <2>3
<3> QED
  BY <1>2, <2>3, <3>1
<2> DEFINE t == Tail(s)
           g == [k \in DOMAIN t |-> f[k + 1] - 1]
<2>5. /\ s # <<>> /\ Head(s) = s[1]
      /\ DOMAIN t = 1..(L - 1) /\ \A k \in 1..(L - 1) : t[k] = s[k + 1]
  BY <1>3, <2>3
<2> HIDE DEF t
<2>6. \A k \in DOMAIN t : /\ k + 1 \in DOMAIN s /\ f[k + 1] \in 2..N
                          /\ g[k] = f[k + 1] - 1 /\ f[k + 1] - 1 \in DOMAIN p
<3> SUFFICES ASSUME NEW k \in DOMAIN t
             PROVE  /\ k + 1 \in DOMAIN s /\ f[k + 1] \in 2..N
                    /\ g[k] = f[k + 1] - 1 /\ f[k + 1] - 1 \in DOMAIN p
  OBVIOUS
<3>1. k + 1 \in DOMAIN s /\ k + 1 # 1
  BY <1>3, <2>5
<3>2. f[k + 1] \in 2..N
  BY <2>4, <3>1
<3>3. \A v \in 2..N : v - 1 \in 1..(N - 1)
  OBVIOUS
<3> QED
  BY <1>2, <3>1, <3>2, <3>3
<2>7. g \in [DOMAIN t -> DOMAIN p]
  BY <2>6
<2> HIDE DEF g
<2>8. \A j, k \in DOMAIN t : j < k => g[j] < g[k]
<3> SUFFICES ASSUME NEW j \in DOMAIN t, NEW k \in DOMAIN t, j < k PROVE g[j] < g[k]
  OBVIOUS
<3>1. j + 1 < k + 1
  BY <2>5
<3>2. f[j + 1] < f[k + 1]
  BY <1>1, <2>6, <3>1
<3> QED
  BY <1>2, <2>6, <3>2
<2>9. ASSUME NEW m \in DOMAIN p
      PROVE  Live!Yields(i, p[m]) <=> \E k \in DOMAIN t : g[k] = m
<3>1. p[m] = q[m + 1] /\ m + 1 \in DOMAIN q /\ m + 1 # 1 /\ m \in Nat
  BY <1>2
<3>2. Live!Yields(i, p[m]) <=> \E k \in DOMAIN s : f[k] = m + 1
  BY <1>1, <3>1
<3>3. ASSUME NEW k \in DOMAIN s, f[k] = m + 1 PROVE \E b \in DOMAIN t : g[b] = m
<4>1. k # 1 /\ k - 1 \in DOMAIN t /\ (k - 1) + 1 = k
  BY <1>3, <2>3, <2>5, <3>1, <3>3
<4>2. g[k - 1] = f[k] - 1
  BY <2>6, <4>1
<4> QED
  BY <3>1, <3>3, <4>1, <4>2
<3>4. ASSUME NEW b \in DOMAIN t, g[b] = m PROVE \E k \in DOMAIN s : f[k] = m + 1
<4>1. b + 1 \in DOMAIN s /\ f[b + 1] \in 2..N /\ g[b] = f[b + 1] - 1
  BY <2>6
<4>2. f[b + 1] = m + 1
  BY <1>2, <3>1, <3>4, <4>1
<4> QED
  BY <4>1, <4>2
<3> QED
  BY <3>2, <3>3, <3>4
<2>10. \A k \in DOMAIN t : t[k] = p[g[k]].slot
<3> SUFFICES ASSUME NEW k \in DOMAIN t PROVE t[k] = p[g[k]].slot
  OBVIOUS
<3>1. /\ k + 1 \in DOMAIN s /\ f[k + 1] \in 2..N /\ g[k] = f[k + 1] - 1
      /\ t[k] = s[k + 1]
  BY <2>5, <2>6
<3>2. s[k + 1] = q[f[k + 1]].slot
  BY <1>1, <3>1
<3>a. \A v \in 2..N : v - 1 \in 1..(N - 1) /\ (v - 1) + 1 = v
  OBVIOUS
<3>3. g[k] \in 1..(N - 1) /\ g[k] + 1 = f[k + 1]
  BY <3>1, <3>a
<3>4. p[g[k]] = q[f[k + 1]]
  BY <1>2, <3>3
<3> QED
  BY <3>1, <3>2, <3>4
<2>11. Live!Yielded(i, p, t)
  BY <2>7, <2>8, <2>9, <2>10 DEF Live!Yielded
<2>12. Head(s) = Head(q).slot
  BY <1>1, <1>2, <2>3, <2>5
<2> QED
  BY <1>4, <2>5, <2>11, <2>12 DEF p, t
<1>5. CASE ~Live!Yields(i, Head(q))
<2> DEFINE g == [k \in DOMAIN s |-> f[k] - 1]
<2>1. \A k \in DOMAIN s : f[k] \in 2..N
<3> SUFFICES ASSUME NEW k \in DOMAIN s PROVE f[k] \in 2..N
  OBVIOUS
<3>1. f[k] \in 1..N /\ f[k] # 1
  BY <1>1, <1>2, <1>5
<3> QED
  BY <1>2, <3>1
<2>2. \A k \in DOMAIN s : g[k] = f[k] - 1 /\ f[k] - 1 \in DOMAIN p
  BY <1>2, <2>1
<2>3. g \in [DOMAIN s -> DOMAIN p]
  BY <2>2
<2> HIDE DEF g
<2>4. \A j, k \in DOMAIN s : j < k => g[j] < g[k]
  BY <1>1, <1>2, <2>1, <2>2
<2>5. ASSUME NEW m \in DOMAIN p
      PROVE  Live!Yields(i, p[m]) <=> \E k \in DOMAIN s : g[k] = m
<3>1. p[m] = q[m + 1] /\ m + 1 \in DOMAIN q /\ m \in Nat
  BY <1>2
<3>2. Live!Yields(i, p[m]) <=> \E k \in DOMAIN s : f[k] = m + 1
  BY <1>1, <3>1
<3>3. ASSUME NEW k \in DOMAIN s PROVE f[k] = m + 1 <=> g[k] = m
<4>1. f[k] \in 2..N /\ g[k] = f[k] - 1
  BY <2>1, <2>2
<4> QED
  BY <1>2, <3>1, <4>1
<3> QED
  BY <3>2, <3>3
<2>6. \A k \in DOMAIN s : s[k] = p[g[k]].slot
<3> SUFFICES ASSUME NEW k \in DOMAIN s PROVE s[k] = p[g[k]].slot
  OBVIOUS
<3>1. f[k] \in 2..N /\ g[k] = f[k] - 1
  BY <2>1, <2>2
<3>2. g[k] \in 1..(N - 1) /\ g[k] + 1 = f[k]
  BY <1>2, <3>1
<3>3. s[k] = q[f[k]].slot /\ p[g[k]] = q[f[k]]
  BY <1>1, <1>2, <3>2
<3> QED
  BY <3>3
<2>7. Live!Yielded(i, p, s)
  BY <2>3, <2>4, <2>5, <2>6 DEF Live!Yielded
<2> QED
  BY <1>5, <2>7 DEF p
<1> QED
  BY <1>4, <1>5

LEMMA SplitGrows ==
  ASSUME NEW d \in Seq(Nat), NEW rest \in Seq(Nat), NEW x \in Nat
  PROVE  Append(rest, x) \in Seq(Nat) /\ Append(d \o rest, x) = d \o Append(rest, x)
<1>1. <<x>> \in Seq(Nat) /\ d \o rest \in Seq(Nat)
  BY ConcatProperties
<1>2. Append(d \o rest, x) = (d \o rest) \o <<x>> /\ Append(rest, x) = rest \o <<x>>
  BY <1>1, AppendIsConcat
<1> QED
  BY <1>1, <1>2, ConcatAssociative

LEMMA SplitMoves ==
  ASSUME NEW d \in Seq(Nat), NEW rest \in Seq(Nat), rest # <<>>
  PROVE  /\ Tail(rest) \in Seq(Nat)
         /\ d \o rest = (d \o <<Head(rest)>>) \o Tail(rest)
<1>1. Head(rest) \in Nat /\ Tail(rest) \in Seq(Nat) /\ <<Head(rest)>> \in Seq(Nat)
  BY HeadTailProperties
<1>2. rest = <<Head(rest)>> \o Tail(rest)
  OBVIOUS
<1>3. (d \o <<Head(rest)>>) \o Tail(rest) = d \o (<<Head(rest)>> \o Tail(rest))
<2>1. PICK h \in Seq(Nat), t \in Seq(Nat) : h = <<Head(rest)>> /\ t = Tail(rest)
  BY <1>1
<2>2. (d \o h) \o t = d \o (h \o t)
  BY ConcatAssociative, SMTT(30)
<2> QED
  BY <2>1, <2>2
<1> QED
  BY <1>1, <1>2, <1>3

LEMMA SubSeqOfRest ==
  ASSUME NEW d \in Seq(Nat), NEW rest \in Seq(Nat)
  PROVE  SubSeq(d \o rest, Len(d) + 1, Len(d \o rest)) = rest
<1>1. PICK M \in Nat : M = Len(d)
  OBVIOUS
<1>2. PICK R \in Nat : R = Len(rest) /\ DOMAIN rest = 1..R
  OBVIOUS
<1>3. Len(d \o rest) = M + R
  BY <1>1, <1>2, ConcatProperties
<1>4. CASE R = 0
<2>1. rest = <<>>
  BY <1>2, <1>4
<2>2. SubSeq(d \o rest, M + 1, M + R) = <<>>
  BY <1>4, SubSeqEmpty
<2> QED
  BY <1>1, <1>3, <2>1, <2>2
<1>5. CASE R # 0
<2>1. M + 1 \in (M + 1)..(M + R) /\ M + R \in (M + 1)..(M + R)
      /\ (M + 1) - M = 1 /\ (M + R) - M = R
  BY <1>5
<2>2. SubSeq(d \o rest, M + 1, M + R) = SubSeq(rest, 1, R)
  BY <1>1, <1>2, <2>1, SubSeqOfConcat2
<2>3. SubSeq(rest, 1, R) = rest
  BY <1>2, SubSeqFull
<2> QED
  BY <1>1, <1>3, <2>2, <2>3
<1> QED
  BY <1>4, <1>5

LEMMA LiveStarts == Live!Init => LiveInv
<1> SUFFICES ASSUME Live!Init PROVE LiveInv
  OBVIOUS
<1>1. Live!Nothing \in [Live!Sub -> Seq(Heard)] /\ Live!Nothing \in [Live!Sub -> Seq(Nat)]
  BY DEF Live!Nothing
<1> QED
  BY <1>1 DEF Live!Init, LiveInv, LiveTypes, Open

\* A step that leaves the channels alone and the slot in the task's hands.
LEMMA LiveRests ==
  ASSUME LiveInv, UNCHANGED <<queue, heard, sent, slot>>, pc' \in Open => pc \in Open,
         \/ UNCHANGED <<pc, slotItem>>
         \/ pc # "send" /\ pc' # "send"
  PROVE  LiveInv'
<1>1. LiveTypes'
  BY DEF LiveInv, LiveTypes
<1>2. ASSUME NEW i \in Live!Sub, Kept(i) PROVE Kept(i)'
  BY <1>2 DEF Kept, Sending
<1> QED
  BY <1>1, <1>2 DEF LiveInv, Live!Sub

LEMMA Appended ==
  ASSUME NEW D, NEW T, NEW F \in [D -> Seq(T)], NEW i, NEW x \in T
  PROVE  [F EXCEPT ![i] = Append(@, x)] \in [D -> Seq(T)]
<1>1. \A k \in D : Append(F[k], x) \in Seq(T)
  OBVIOUS
<1> QED
  BY <1>1

LEMMA NotifyKeeps ==
  ASSUME LiveInv, Live!Notify
  PROVE  LiveInv'
<1>1. PICK i \in accepted, x \in {slot, slot + 1}, ok \in BOOLEAN :
        LET n == [slot |-> x, ok |-> ok] IN
        /\ slot' = x
        /\ IF i \in live /\ Len(queue[i]) < NoteCap
           THEN /\ queue' = [queue EXCEPT ![i] = Append(@, n)]
                /\ heard' = [heard EXCEPT ![i] =
                               IF i \notin Owners /\ ok THEN Append(@, x) ELSE @]
           ELSE UNCHANGED <<queue, heard>>
  BY DEF Live!Notify
<1>2. LiveTypes /\ UNCHANGED <<pc, slotItem, sent>> /\ x \in Nat /\ slot' \in Nat
  BY <1>1 DEF Live!Notify, Live!task, LiveInv, LiveTypes
<1> DEFINE n == [slot |-> x, ok |-> ok]
<1>3. n \in Heard /\ n.slot = x /\ (Live!Yields(i, n) <=> i \notin Owners /\ ok)
  BY <1>2 DEF Heard, Live!Yields
<1> HIDE DEF n
<1>4. CASE UNCHANGED <<queue, heard>>
<2>1. LiveTypes'
  BY <1>2, <1>4 DEF LiveTypes
<2>2. \A k \in Live!Sub : Kept(k) => Kept(k)'
  BY <1>2, <1>4 DEF Kept, Sending
<2> QED
  BY <1>2, <2>1, <2>2 DEF LiveInv, Live!Sub
<1>5. CASE /\ queue' = [queue EXCEPT ![i] = Append(@, n)]
           /\ heard' = [heard EXCEPT ![i] =
                          IF i \notin Owners /\ ok THEN Append(@, x) ELSE @]
<2>1. LiveTypes'
<3>1. queue' \in [Live!Sub -> Seq(Heard)]
  BY <1>2, <1>3, <1>5, Appended DEF LiveTypes
<3>2. ASSUME i \notin Owners, ok PROVE heard' \in [Live!Sub -> Seq(Nat)]
<4>1. heard' = [heard EXCEPT ![i] = Append(@, x)]
  BY <1>5, <3>2
<4> QED
  BY <1>2, <4>1, Appended DEF LiveTypes
<3>3. ASSUME ~(i \notin Owners /\ ok) PROVE heard' \in [Live!Sub -> Seq(Nat)]
<4>1. heard' = [heard EXCEPT ![i] = @]
  BY <1>5, <3>3
<4> QED
  BY <1>2, <4>1 DEF LiveTypes
<3>4. heard' \in [Live!Sub -> Seq(Nat)]
  BY <3>2, <3>3
<3> QED
  BY <1>2, <3>1, <3>4 DEF LiveTypes, Live!Sub
<2>2. ASSUME NEW k \in Live!Sub, Kept(k) PROVE Kept(k)'
<3>1. CASE k # i
<4>1. queue'[k] = queue[k] /\ heard'[k] = heard[k]
  BY <1>2, <1>5, <3>1 DEF LiveTypes
<4> QED
  BY <1>2, <2>2, <4>1 DEF Kept, Sending
<3>2. CASE k = i
<4>1. PICK rest \in Seq(Nat) : /\ heard[i] = (sent[i] \o Sending(i)) \o rest
                               /\ Live!Yielded(i, queue[i], rest)
  BY <2>2, <3>2 DEF Kept
<4>2. queue[i] \in Seq(Heard) /\ sent[i] \in Seq(Nat) /\ Sending(i) \in Seq(Nat)
  BY <1>2, <2>2, <3>2 DEF LiveTypes, Sending
<4>3. queue'[i] = Append(queue[i], n)
  BY <1>2, <1>5, <2>2, <3>2 DEF LiveTypes
<4>4. Sending(i)' = Sending(i) /\ sent'[i] = sent[i]
  BY <1>2 DEF Sending
<4>5. sent[i] \o Sending(i) \in Seq(Nat)
  BY <4>2, ConcatProperties
<4>6. CASE i \notin Owners /\ ok
<5>1. heard'[i] = Append(heard[i], x)
  BY <1>2, <1>5, <2>2, <3>2, <4>6 DEF LiveTypes
<5>2. Live!Yielded(i, Append(queue[i], n), Append(rest, x))
  BY <1>3, <4>1, <4>2, <4>6, YieldedMore
<5>3. Append(rest, x) \in Seq(Nat)
      /\ heard'[i] = (sent[i] \o Sending(i)) \o Append(rest, x)
<6>1. PICK d \in Seq(Nat) : d = sent[i] \o Sending(i)
  BY <4>5
<6>2. heard[i] = d \o rest
  BY <4>1, <6>1
<6>3. /\ Append(rest, x) \in Seq(Nat)
      /\ Append(d \o rest, x) = d \o Append(rest, x)
  BY <1>2, <4>1, <6>1, SplitGrows
<6> QED
  BY <5>1, <6>1, <6>2, <6>3
<5> QED
  BY <3>2, <4>3, <4>4, <5>2, <5>3 DEF Kept
<4>7. CASE ~(i \notin Owners /\ ok)
<5>1. heard'[i] = heard[i]
  BY <1>2, <1>5, <2>2, <3>2, <4>7 DEF LiveTypes
<5>2. Live!Yielded(i, Append(queue[i], n), rest)
  BY <1>3, <4>1, <4>2, <4>7, YieldedSame
<5> QED
  BY <3>2, <4>1, <4>3, <4>4, <5>1, <5>2 DEF Kept
<4> QED
  BY <4>6, <4>7
<3> QED
  BY <3>1, <3>2
<2> QED
  BY <1>2, <2>1, <2>2 DEF LiveInv, Live!Sub
<1> QED
  BY <1>1, <1>4, <1>5 DEF n

LEMMA ConnectKeeps ==
  ASSUME LiveInv, Live!Connect
  PROVE  LiveInv'
<1>1. /\ queue' = Live!Nothing /\ heard' = Live!Nothing /\ sent' = Live!Nothing
      /\ pc' = "subscribe" /\ slot' = slot
  BY DEF Live!Connect, Live!node
<1>2. Live!Nothing \in [Live!Sub -> Seq(Heard)] /\ Live!Nothing \in [Live!Sub -> Seq(Nat)]
  BY DEF Live!Nothing
<1>3. LiveTypes'
  BY <1>1, <1>2 DEF LiveInv, LiveTypes, Live!Sub
<1>4. ASSUME NEW i \in Live!Sub PROVE Kept(i)'
<2>1. queue'[i] = <<>> /\ heard'[i] = <<>> /\ sent'[i] = <<>> /\ Sending(i)' = <<>>
  BY <1>1 DEF Live!Nothing, Sending
<2>2. <<>> = (<<>> \o <<>>) \o <<>> /\ <<>> \in Seq(Nat)
  OBVIOUS
<2> QED
  BY <2>1, <2>2, YieldedNothing DEF Kept
<1> QED
  BY <1>3, <1>4 DEF LiveInv, Live!Sub

LEMMA TakeNoteKeeps ==
  ASSUME LiveInv, Live!TakeNote
  PROVE  LiveInv'
<1>a. /\ pc = "drain" /\ next \in live /\ queue[next] # <<>>
      /\ queue' = [queue EXCEPT ![next] = Tail(@)]
      /\ UNCHANGED <<heard, sent, slot>>
  BY DEF Live!TakeNote, Live!node, Live!history
<1>1. LiveTypes /\ \A i \in Live!Sub : Kept(i)
  BY <1>a DEF LiveInv, Open
<1> DEFINE n == Head(queue[next])
<1>2. \/ /\ Live!Yields(next, n)
         /\ pc' = "send" /\ slotItem' = [of |-> next, slot |-> n.slot]
      \/ ~Live!Yields(next, n) /\ UNCHANGED <<pc, slotItem>>
  BY DEF Live!TakeNote
<1>3. next \in Live!Sub => queue[next] \in Seq(Heard) /\ n \in Heard /\ n.slot \in Nat
<2> SUFFICES ASSUME next \in Live!Sub
             PROVE  queue[next] \in Seq(Heard) /\ n \in Heard /\ n.slot \in Nat
  OBVIOUS
<2>1. queue[next] \in Seq(Heard)
  BY <1>1 DEF LiveTypes
<2>2. n \in Heard
  BY <1>a, <2>1, HeadTailProperties
<2> QED
  BY <2>1, <2>2 DEF Heard
<1>4. LiveTypes'
<2>1. queue' \in [Live!Sub -> Seq(Heard)]
<3>1. next \in Live!Sub => Tail(queue[next]) \in Seq(Heard)
  BY <1>a, <1>3, HeadTailProperties
<3> QED
  BY <1>a, <1>1, <3>1 DEF LiveTypes
<2>2. (pc = "send" /\ slotItem.of \in Live!Sub => slotItem.slot \in Nat)'
  BY <1>a, <1>1, <1>2, <1>3 DEF LiveTypes, Live!Sub
<2> QED
  BY <1>a, <1>1, <2>1, <2>2 DEF LiveTypes, Live!Sub
<1>5. ASSUME NEW i \in Live!Sub PROVE Kept(i)'
<2>1. PICK rest \in Seq(Nat) : /\ heard[i] = (sent[i] \o Sending(i)) \o rest
                               /\ Live!Yielded(i, queue[i], rest)
  BY <1>1 DEF Kept
<2>2. Sending(i) = <<>> /\ sent[i] \in Seq(Nat) /\ heard[i] = sent[i] \o rest
<3>1. Sending(i) = <<>> /\ sent[i] \in Seq(Nat)
  BY <1>a, <1>1 DEF Sending, LiveTypes
<3> QED
  BY <2>1, <3>1, ConcatEmptySeq
<2>3. CASE i # next
<3>1. queue'[i] = queue[i] /\ Sending(i)' = <<>>
  BY <1>a, <1>1, <1>2, <2>3 DEF LiveTypes, Sending
<3> QED
  BY <1>a, <1>1, <2>1, <2>2, <3>1 DEF Kept
<2>4. CASE i = next
<3>1. queue'[i] = Tail(queue[i]) /\ queue[i] \in Seq(Heard) /\ queue[i] # <<>>
  BY <1>a, <1>1, <2>4 DEF LiveTypes
<3>2. CASE Live!Yields(next, n)
<4>1. Sending(i)' = <<n.slot>>
  BY <1>2, <2>4, <3>2 DEF Sending
<4>2. rest # <<>> /\ Head(rest) = n.slot /\ Live!Yielded(i, Tail(queue[i]), Tail(rest))
  BY <2>1, <2>4, <3>1, <3>2, YieldedFirst
<4>3. Tail(rest) \in Seq(Nat) /\ heard[i] = (sent[i] \o <<n.slot>>) \o Tail(rest)
  BY <2>2, <4>2, SplitMoves
<4> QED
  BY <1>a, <1>1, <3>1, <4>1, <4>2, <4>3 DEF Kept
<3>3. CASE ~Live!Yields(next, n)
<4>1. Sending(i)' = <<>>
  BY <1>a, <1>1, <1>2, <3>3 DEF Sending
<4>2. Live!Yielded(i, Tail(queue[i]), rest)
  BY <2>1, <2>4, <3>1, <3>3, YieldedFirst
<4> QED
  BY <1>a, <1>1, <2>1, <2>2, <3>1, <4>1, <4>2 DEF Kept
<3> QED
  BY <3>2, <3>3
<2> QED
  BY <2>3, <2>4
<1> QED
  BY <1>4, <1>5 DEF LiveInv, Live!Sub

LEMMA SendSlotKeeps ==
  ASSUME LiveInv, Live!SendSlot
  PROVE  LiveInv'
<1>1. /\ LiveTypes /\ pc = "send" /\ pc' = "drain"
      /\ \A i \in Live!Sub : Kept(i)
      /\ sent' = [sent EXCEPT ![slotItem.of] = Append(@, slotItem.slot)]
      /\ UNCHANGED <<heard, queue, slot>>
  BY DEF Live!SendSlot, Live!node, LiveInv, Open
<1>2. sent' \in [Live!Sub -> Seq(Nat)]
<2>1. CASE slotItem.of \in Live!Sub
<3>1. slotItem.slot \in Nat
  BY <1>1, <2>1 DEF LiveTypes
<3> QED
  BY <1>1, <3>1, Appended DEF LiveTypes
<2>2. CASE slotItem.of \notin Live!Sub
  BY <1>1, <2>2 DEF LiveTypes
<2> QED
  BY <2>1, <2>2
<1>3. LiveTypes'
  BY <1>1, <1>2 DEF LiveTypes, Live!Sub
<1>4. ASSUME NEW i \in Live!Sub PROVE Kept(i)'
<2>1. PICK rest \in Seq(Nat) : /\ heard[i] = (sent[i] \o Sending(i)) \o rest
                               /\ Live!Yielded(i, queue[i], rest)
  BY <1>1 DEF Kept
<2>2. Sending(i)' = <<>> /\ sent'[i] \in Seq(Nat)
  BY <1>1, <1>2 DEF Sending
<2>3. sent'[i] \o Sending(i)' = sent'[i]
  BY <2>2, ConcatEmptySeq
<2>4. sent[i] \o Sending(i) = sent'[i]
<3>1. CASE slotItem.of = i
<4>1. sent'[i] = Append(sent[i], slotItem.slot) /\ Sending(i) = <<slotItem.slot>>
  BY <1>1, <3>1 DEF LiveTypes, Sending
<4>2. sent[i] \in Seq(Nat) /\ slotItem.slot \in Nat
  BY <1>1, <3>1 DEF LiveTypes
<4> QED
  BY <4>1, <4>2, AppendIsConcat
<3>2. CASE slotItem.of # i
<4>1. sent'[i] = sent[i] /\ Sending(i) = <<>> /\ sent[i] \in Seq(Nat)
  BY <1>1, <3>2 DEF LiveTypes, Sending
<4> QED
  BY <4>1, ConcatEmptySeq
<3> QED
  BY <3>1, <3>2
<2> QED
  BY <1>1, <2>1, <2>3, <2>4 DEF Kept
<1> QED
  BY <1>3, <1>4 DEF LiveInv, Live!Sub

LEMMA LiveKeeps == LiveInv /\ [Live!Next]_(Live!vars) => LiveInv'
<1> SUFFICES ASSUME LiveInv, [Live!Next]_(Live!vars) PROVE LiveInv'
  OBVIOUS
<1>1. CASE Live!Notify
  BY <1>1, NotifyKeeps
<1>2. CASE Live!Connect
  BY <1>2, ConnectKeeps
<1>3. CASE Live!TakeNote
  BY <1>3, TakeNoteKeeps
<1>4. CASE Live!SendSlot
  BY <1>4, SendSlotKeeps
<1>5. CASE Live!Disconnect \/ Live!NodeAccepts \/ Live!Consume \/ Live!DropStream
             \/ UNCHANGED Live!vars
<2>1. UNCHANGED <<queue, heard, sent, slot, pc, slotItem>>
  BY <1>5 DEF Live!Disconnect, Live!NodeAccepts, Live!Consume, Live!DropStream,
              Live!vars, Live!task, Live!node, Live!history
<2> QED
  BY <2>1, LiveRests
<1>6. CASE Live!Backoff \/ Live!Report \/ Live!ConnectFails \/ Live!SendRefused
<2>1. UNCHANGED <<queue, heard, sent, slot>> /\ pc' \notin Open /\ pc' # "send"
  BY <1>6 DEF Live!Backoff, Live!Report, Live!ConnectFails, Live!SendRefused, Live!Ended,
              Live!node, Live!history, Open
<2>2. LiveTypes'
  BY <2>1 DEF LiveInv, LiveTypes, Live!Sub
<2> QED
  BY <2>1, <2>2 DEF LiveInv
<1>7. CASE Live!NothingToDrain
<2>1. UNCHANGED <<queue, heard, sent, slot>> /\ pc' \notin Open /\ pc' # "send"
  BY <1>7 DEF Live!NothingToDrain, Live!Ended, Live!node, Live!history, Open
<2>2. LiveTypes'
  BY <2>1 DEF LiveInv, LiveTypes, Live!Sub
<2> QED
  BY <2>1, <2>2 DEF LiveInv
<1>8. CASE Live!Ask \/ Live!Subscribed \/ Live!SubscribeFails \/ Live!SubscribeFailsLate
             \/ Live!StartDraining \/ Live!NextReceiver
<2>1. UNCHANGED <<queue, heard, sent, slot>> /\ pc \in Open /\ pc # "send" /\ pc' # "send"
  BY <1>8 DEF Live!Ask, Live!Subscribed, Live!SubscribeFails, Live!SubscribeFailsLate,
              Live!StartDraining, Live!NextReceiver, Live!node, Live!history, Open
<2> QED
  BY <2>1, LiveRests
<1> QED
  BY <1>1, <1>2, <1>3, <1>4, <1>5, <1>6, <1>7, <1>8 DEF Live!Next, Live!Task

LEMMA LiveInvKept == LiveInv => Live!FanInKeeps
<1> SUFFICES ASSUME LiveInv, Live!Streaming, NEW i \in Live!Sub
             PROVE  LET done == sent[i] \o Sending(i)
                        rest == SubSeq(heard[i], Len(done) + 1, Len(heard[i]))
                    IN  heard[i] = done \o rest /\ Live!Yielded(i, queue[i], rest)
  BY DEF Live!FanInKeeps, Sending
<1>1. LiveTypes /\ Kept(i)
  BY DEF LiveInv, Live!Streaming, Open
<1>2. PICK rest \in Seq(Nat) : /\ heard[i] = (sent[i] \o Sending(i)) \o rest
                               /\ Live!Yielded(i, queue[i], rest)
  BY <1>1 DEF Kept
<1>3. sent[i] \in Seq(Nat) /\ Sending(i) \in Seq(Nat)
  BY <1>1 DEF LiveTypes, Sending
<1>4. PICK d \in Seq(Nat) : d = sent[i] \o Sending(i)
  BY <1>3, ConcatProperties
<1>5. SubSeq(d \o rest, Len(d) + 1, Len(d \o rest)) = rest
  BY SubSeqOfRest
<1> QED
  BY <1>2, <1>4, <1>5

\* For every number of subscriptions, every capacity and every turn of the
\* node and the consumer: what fan_in_notifications took from a channel of the
\* live Solana stream was sent in its order, and the rest still waits there.
THEOREM FanInIsKept ==
  /\ Live!Spec => []Live!FanInKeeps
  /\ MCSpec => []FanInKeeps
<1>1. MCInit => LiveInv
  BY LiveStarts DEF MCInit
<1>2. LiveInv /\ [MCNext]_mcVars => LiveInv'
<2> SUFFICES ASSUME LiveInv, [MCNext]_mcVars PROVE LiveInv'
  OBVIOUS
<2>1. CASE Solana(Live!Next)
  BY <2>1, LiveKeeps DEF Solana
<2>2. CASE ~Solana(Live!Next)
<3>1. UNCHANGED liveVars
  BY <2>2 DEF MCNext, Ethereum, Gateway, Client, Backfill, mcVars
<3>2. UNCHANGED Live!vars
  BY <3>1 DEF liveVars, Live!vars, Live!task, Live!socket, Live!node, Live!history
<3> QED
  BY <3>2, LiveKeeps
<2> QED
  BY <2>1, <2>2
<1>3. LiveInv => FanInKeeps
  BY LiveInvKept DEF FanInKeeps
<1>4. MCSpec => []FanInKeeps
  BY <1>1, <1>2, <1>3, PTL DEF MCSpec
<1>5. Live!Spec => []Live!FanInKeeps
  BY LiveStarts, LiveKeeps, LiveInvKept, PTL DEF Live!Spec
<1> QED
  BY <1>4, <1>5
=============================================================================
