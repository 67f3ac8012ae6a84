--------------------------- MODULE NewHeadsProofs ---------------------------
(***************************************************************************)
(* Safety of the JSON-RPC client and of the reorg buffer behind it, for    *)
(* every capacity, any number of heads and of requests and every tree of   *)
(* blocks.                                                                 *)
(*                                                                         *)
(* WaitersFlushed alone is not inductive: a caller between its insert into *)
(* pending and its send must already be in the table (Entered), and        *)
(* a frame that is read must be an answer of the node, not of a third kind *)
(* (Types).                                                                *)
(***************************************************************************)
EXTENDS NewHeads, FiniteSetTheorems, TLAPS

Frame == Answer \union [kind : {"head"}, block : Nat]

Types ==
  /\ parent \in Seq(Nat) /\ head \in Nat
  /\ outbox \in Seq(Callers) /\ asked \subseteq Callers /\ inbox \in Seq(Frame)
  /\ reader \in {"running", "exited"}
  /\ reply \in [Callers -> {"none", "ok", "error"}]
  /\ caller \in [Callers -> {"idle", "send", "wait"}]

\* WaitersFlushed from the moment request_raw fills the table.
Entered ==
  \A c \in Callers :
    caller[c] # "idle" /\ reply[c] = "none" /\ c \notin late
      => c \in waiting /\ reader = "running"

(***************************************************************************)
(* The types.                                                              *)
(***************************************************************************)
LEMMA InitTypes == Init => Types
<1> SUFFICES ASSUME Init PROVE Types
  OBVIOUS
<1>1. <<>> \in Seq(Nat) /\ <<>> \in Seq(Frame) /\ <<>> \in Seq(Callers)
  OBVIOUS
<1> QED
  BY <1>1 DEF Init, Types

LEMMA HeadTypes ==
  ASSUME Types, NewHead
  PROVE  parent' \in Seq(Nat) /\ head' \in Nat /\ inbox' \in Seq(Frame)
<1>1. parent' \in Seq(Nat) /\ head' \in Nat
<2>1. ASSUME NEW p \in {0} \union Block,
             parent' = Append(parent, p), head' = Len(parent')
      PROVE  parent' \in Seq(Nat) /\ head' \in Nat
<3>1. p \in Nat
  BY <2>1 DEF Block, Types
<3>2. parent' \in Seq(Nat)
  BY <2>1, <3>1 DEF Types
<3> QED
  BY <2>1, <3>2
<2>2. ASSUME NEW b \in Block, head' = b, UNCHANGED parent
      PROVE  parent' \in Seq(Nat) /\ head' \in Nat
  BY <2>2 DEF Block, Types
<2> QED
  BY <2>1, <2>2 DEF NewHead
<1>2. [kind |-> "head", block |-> head'] \in Frame
  BY <1>1 DEF Frame
<1>3. inbox' \in Seq(Frame)
  BY <1>2 DEF NewHead, Types
<1> QED
  BY <1>1, <1>3

LEMMA RespondTypes ==
  ASSUME Types, Respond
  PROVE  inbox' \in Seq(Frame)
<1>1. PICK c \in Callers, kind \in {"ok", "error"} :
        inbox' = Append(inbox, [kind |-> kind, to |-> c])
  BY DEF Respond, Types
<1> QED
  BY <1>1 DEF Frame, Answer, Types

LEMMA StepTypes == Types /\ [Next]_vars => Types'
<1> SUFFICES ASSUME Types, [Next]_vars PROVE Types'
  OBVIOUS
<1> USE DEF Types
<1>1. CASE NewHead
  BY <1>1, HeadTypes DEF NewHead, client
<1>2. CASE Respond
<2>1. asked' \subseteq Callers
  BY <1>2 DEF Respond
<2> QED
  BY <1>2, <2>1, RespondTypes DEF Respond, node, client
<1>3. CASE Disconnect
  BY <1>3 DEF Disconnect, node, client
<1>4. CASE RegisterSubscribe
  BY <1>4 DEF RegisterSubscribe, Register, Callers, node, socket
<1>5. CASE RegisterOther
  BY <1>5 DEF RegisterOther, Register, Callers, node, socket
<1>6. ASSUME NEW c \in Callers, Send(c) PROVE Types'
<2>1. outbox' = Append(outbox, c) \/ outbox' = outbox
  BY <1>6 DEF Send
<2>2. Append(outbox, c) \in Seq(Callers)
  BY <1>6
<2>3. reply' \in [Callers -> {"none", "ok", "error"}]
  BY <1>6 DEF Send
<2> QED
  BY <1>6, <2>1, <2>2, <2>3 DEF Send, node
<1>7. CASE WriteFrame
<2>1. Head(outbox) \in Callers /\ outbox' \in Seq(Callers)
  BY <1>7 DEF WriteFrame
<2> QED
  BY <1>7, <2>1 DEF WriteFrame, node, client
<1>8. CASE WriteFails
<2>1. outbox' \in Seq(Callers)
  BY <1>8 DEF WriteFails
<2> QED
  BY <1>8, <2>1 DEF WriteFails, node
<1>9. CASE ReadAnswer
<2>1. Head(inbox) \in Answer /\ inbox' \in Seq(Frame)
  BY <1>9 DEF ReadAnswer, Frame
<2>2. reply' \in [Callers -> {"none", "ok", "error"}]
  BY <1>9, <2>1 DEF ReadAnswer, Answer
<2> QED
  BY <1>9, <2>1, <2>2 DEF ReadAnswer, node
<1>10. CASE ReadHead
<2>1. inbox' \in Seq(Frame)
  BY <1>10 DEF ReadHead
<2> QED
  BY <1>10, <2>1 DEF ReadHead, node, client
<1>11. CASE ReaderExits
<2>1. inbox' \in Seq(Frame)
  BY <1>11 DEF ReaderExits
<2> QED
  BY <1>11, <2>1 DEF ReaderExits, node
<1>12. CASE OtherReturns \/ Subscribed \/ SubscribeFails
  BY <1>12 DEF OtherReturns, Subscribed, SubscribeFails, Callers, node, socket
<1>13. CASE TakeHead \/ Forward \/ ReportError \/ StreamDropped
  BY <1>13 DEF TakeHead, Forward, ReportError, StreamDropped, node, socket,
     client
<1>14. CASE Consuming \/ StopReading \/ UNCHANGED vars
  BY <1>14 DEF Consuming, Consume, ConsumeError, StopReading, vars, node,
     socket, client
<1>15. "driver" \in Callers /\ "other" \in Callers
  BY DEF Callers
<1> QED
  BY <1>1, <1>2, <1>3, <1>4, <1>5, <1>6, <1>7, <1>8, <1>9, <1>10, <1>11,
     <1>12, <1>13, <1>14, <1>15
     DEF Next, Driving, Calling, Writing, Reading, ReadFrame

(***************************************************************************)
(* The table of a running read pump holds whoever entered it in time.      *)
(***************************************************************************)
LEMMA InitEntered == Init => Entered
  BY DEF Init, Entered

LEMMA RegisterEntered ==
  ASSUME Types, Entered, NEW c \in Callers, Register(c)
  PROVE  Entered'
<1> SUFFICES ASSUME NEW d \in Callers, caller'[d] # "idle",
                    reply'[d] = "none", d \notin late'
             PROVE  d \in waiting' /\ reader' = "running"
  BY DEF Entered
<1>1. CASE d = c
  BY <1>1 DEF Register, Types
<1>2. CASE d # c
  BY <1>2 DEF Register, Entered, Types
<1> QED
  BY <1>1, <1>2

LEMMA SendEntered ==
  ASSUME Types, Entered, NEW c \in Callers, Send(c)
  PROVE  Entered'
<1> SUFFICES ASSUME NEW d \in Callers, caller'[d] # "idle",
                    reply'[d] = "none", d \notin late'
             PROVE  d \in waiting' /\ reader' = "running"
  BY DEF Entered
<1>1. CASE d = c
  BY <1>1 DEF Send, Entered, Types
<1>2. CASE d # c
  BY <1>2 DEF Send, Entered, Types
<1> QED
  BY <1>1, <1>2

LEMMA ReadAnswerEntered ==
  ASSUME Types, Entered, ReadAnswer
  PROVE  Entered'
<1>1. Head(inbox) \in Answer
  BY DEF ReadAnswer, Types, Frame
<1>2. Head(inbox).kind # "none" /\ Head(inbox).to \in Callers
  BY <1>1 DEF Answer
<1> QED
  BY <1>2 DEF ReadAnswer, Entered, Types

LEMMA StepEntered == Types /\ Entered /\ [Next]_vars => Entered'
<1> SUFFICES ASSUME Types, Entered, [Next]_vars PROVE Entered'
  OBVIOUS
<1>1. CASE RegisterSubscribe \/ RegisterOther
  BY <1>1, RegisterEntered DEF RegisterSubscribe, RegisterOther, Callers
<1>2. CASE ReadAnswer
  BY <1>2, ReadAnswerEntered
<1>3. CASE ReaderExits
  BY <1>3 DEF ReaderExits, Entered
<1>4. CASE OtherReturns \/ Subscribed \/ SubscribeFails
  BY <1>4 DEF OtherReturns, Subscribed, SubscribeFails, Entered, Types
<1>5. CASE Send("driver") \/ Send("other")
  BY <1>5, SendEntered DEF Callers
<1>6. CASE NewHead \/ Respond \/ Disconnect \/ Writing \/ ReadHead
  BY <1>6 DEF NewHead, Respond, Disconnect, Writing, WriteFrame, WriteFails,
     ReadHead, Entered, client
<1>7. CASE \/ TakeHead \/ Forward \/ ReportError \/ StreamDropped
           \/ Consuming \/ StopReading \/ UNCHANGED vars
  BY <1>7 DEF TakeHead, Forward, ReportError, StreamDropped, Consuming,
     Consume, ConsumeError, StopReading, Entered, client, vars
<1> QED
  BY <1>1, <1>2, <1>3, <1>4, <1>5, <1>6, <1>7
     DEF Next, Driving, Calling, Reading, ReadFrame

\* Whoever entered pending while the read pump of JsonRpcClient ran is, until
\* it has its answer, in the table of a pump that still runs: the flush when
\* the pump leaves misses nobody, wherever the caller is between its insert
\* and its await.
THEOREM EveryWaiterFlushed == Spec => []WaitersFlushed
<1>1. Init => Types /\ Entered
  BY InitTypes, InitEntered
<1>2. Types /\ Entered /\ [Next]_vars => (Types /\ Entered)'
  BY StepTypes, StepEntered
<1>3. Entered => WaitersFlushed
  BY DEF Entered, WaitersFlushed
<1> QED
  BY <1>1, <1>2, <1>3, PTL DEF Spec

(***************************************************************************)
(* The tree of blocks.  A parent is announced before its children, so a    *)
(* block's ancestors are older, are those of its parent and the parent,    *)
(* and stay what they are when blocks are added.                           *)
(***************************************************************************)
Tree == parent \in Seq(Nat) /\ \A b \in Block : parent[b] \in 0..(b - 1)

LEMMA ParentKnown == Tree => \A b \in Block : parent[b] \in Block \union {0}
<1> SUFFICES ASSUME Tree, NEW b \in Block PROVE parent[b] \in Block \union {0}
  OBVIOUS
<1>1. b \in 1..Len(parent) /\ Len(parent) \in Nat /\ parent[b] \in 0..(b - 1)
  BY DEF Tree, Block
<1> QED
  BY <1>1 DEF Block

LEMMA AncestorsOlder ==
  ASSUME Tree, NEW b \in Block
  PROVE  Ancestors(b) \subseteq 1..(b - 1)
<1> DEFINE S == 1..(b - 1)
<1>1. b \in Nat \ {0} /\ S \in SUBSET Block
  BY DEF Tree, Block
<1>2. Closed(S) /\ parent[b] \in S \union {0}
  BY <1>1 DEF Tree, Closed
<1> QED
  BY <1>1, <1>2 DEF Ancestors

LEMMA AncestorsTransitive ==
  ASSUME NEW b \in Block, NEW a \in Ancestors(b)
  PROVE  Ancestors(a) \subseteq Ancestors(b)
<1> SUFFICES ASSUME NEW x \in Ancestors(a), NEW S \in SUBSET Block,
                    Closed(S), parent[b] \in S \union {0}
             PROVE  x \in S
  BY DEF Ancestors
<1>1. a \in S
  BY DEF Ancestors
<1>2. parent[a] \in S \union {0}
  BY <1>1 DEF Closed
<1> QED
  BY <1>2 DEF Ancestors

LEMMA AncestorsOfChild ==
  ASSUME Tree, NEW b \in Block, NEW p \in Block, parent[b] = p
  PROVE  Ancestors(b) = {p} \union Ancestors(p)
<1>1. p \in Ancestors(b)
  BY DEF Ancestors, Tree, Block
<1>2. Ancestors(p) \subseteq Ancestors(b)
  BY <1>1, AncestorsTransitive
<1>3. ASSUME NEW a \in Ancestors(b) PROVE a \in {p} \union Ancestors(p)
<2> DEFINE S == {p} \union Ancestors(p)
<2>1. S \in SUBSET Block
  BY DEF Ancestors
<2>2. parent[p] \in S \union {0}
  BY ParentKnown DEF Ancestors
<2>3. ASSUME NEW c \in Ancestors(p) PROVE parent[c] \in S \union {0}
<3>1. c \in Block /\ parent[c] \in Block \union {0}
  BY ParentKnown DEF Ancestors
<3>2. ASSUME NEW R \in SUBSET Block, Closed(R), parent[p] \in R \union {0}
      PROVE  parent[c] \in R \union {0}
  BY <3>2 DEF Ancestors, Closed
<3> QED
  BY <3>1, <3>2 DEF Ancestors
<2>4. Closed(S)
  BY <2>2, <2>3 DEF Closed
<2>5. parent[b] \in S \union {0}
  OBVIOUS
<2> HIDE DEF S
<2>6. a \in S
  BY <1>3, <2>1, <2>4, <2>5 DEF Ancestors
<2> QED
  BY <2>6 DEF S
<1> QED
  BY <1>1, <1>2, <1>3

\* Blocks are numbered along their chain.
LEMMA NumbersGrow ==
  ASSUME Tree, NEW b \in Block, NEW a \in Ancestors(b)
  PROVE  /\ Header(a).number \in Nat /\ Header(b).number \in Nat
         /\ Header(a).number < Header(b).number
<1>1. a \in Block
  BY DEF Ancestors
<1>2. Ancestors(a) \subseteq Ancestors(b)
  BY AncestorsTransitive
<1>3. a \notin Ancestors(a)
  BY <1>1, AncestorsOlder DEF Block
<1>4. IsFiniteSet(Ancestors(a)) /\ IsFiniteSet(Ancestors(b))
<2>1. b \in Nat /\ IsFiniteSet(1..(b - 1))
  BY FS_Interval DEF Block
<2>2. Ancestors(b) \subseteq 1..(b - 1)
  BY AncestorsOlder
<2> QED
  BY <2>1, <2>2, <1>2, FS_Subset
<1>5. /\ Cardinality(Ancestors(a)) \in Nat /\ Cardinality(Ancestors(b)) \in Nat
      /\ Cardinality(Ancestors(a)) < Cardinality(Ancestors(b))
  BY <1>2, <1>3, <1>4, FS_CardinalityType, FS_Subset
<1> QED
  BY <1>5 DEF Header

LEMMA TreeGrows ==
  ASSUME Tree, NewHead
  PROVE  Tree' /\ Block \subseteq Block' /\ head' \in Block'
         /\ \A b \in Block : parent'[b] = parent[b]
<1>1. CASE \E p \in {0} \union Block : parent' = Append(parent, p) /\ head' = Len(parent')
<2>1. PICK p \in {0} \union Block : parent' = Append(parent, p) /\ head' = Len(parent')
  BY <1>1
<2>2. p \in Nat /\ p <= Len(parent) /\ Len(parent) \in Nat
  BY DEF Block, Tree
<2>3. /\ parent' \in Seq(Nat) /\ Len(parent') = Len(parent) + 1
      /\ \A b \in 1..Len(parent) : parent'[b] = parent[b]
      /\ parent'[Len(parent) + 1] = p
  BY <2>1, <2>2 DEF Tree
<2> QED
  BY <2>1, <2>2, <2>3 DEF Tree, Block
<1>2. CASE \E b \in Block \ {head} : head' = b /\ UNCHANGED parent
  BY <1>2 DEF Tree, Block
<1> QED
  BY <1>1, <1>2 DEF NewHead

LEMMA AncestorsStay ==
  ASSUME Tree, NewHead, NEW b \in Block
  PROVE  Ancestors(b)' = Ancestors(b)
<1>1. /\ Tree' /\ Block \subseteq Block'
      /\ \A c \in Block : parent'[c] = parent[c]
  BY TreeGrows
<1>2. ASSUME NEW S \in SUBSET Block PROVE Closed(S)' <=> Closed(S)
  BY <1>1, <1>2 DEF Closed
<1>3. ASSUME NEW a \in Ancestors(b)' PROVE a \in Ancestors(b)
<2>1. ASSUME NEW S \in SUBSET Block, Closed(S), parent[b] \in S \union {0}
      PROVE  a \in S
  BY <1>1, <1>2, <1>3, <2>1 DEF Ancestors
<2>2. Closed(Block) /\ parent[b] \in Block \union {0}
  BY DEF Tree, Closed, Block
<2> QED
  BY <2>1, <2>2 DEF Ancestors
<1>4. ASSUME NEW a \in Ancestors(b) PROVE a \in Ancestors(b)'
<2>1. ASSUME NEW S \in SUBSET Block', Closed(S)', parent'[b] \in S \union {0}
      PROVE  a \in S
<3> DEFINE R == S \intersect Block
<3>1. parent[b] \in R \union {0}
  BY <1>1, <2>1, ParentKnown
<3>2. Closed(R)
  BY <1>1, <2>1, ParentKnown DEF Closed
<3> HIDE DEF R
<3>3. a \in R
  BY <1>4, <3>1, <3>2 DEF Ancestors, R
<3> QED
  BY <3>3 DEF R
<2> QED
  BY <1>1, <1>4, <2>1 DEF Ancestors
<1> QED
  BY <1>3, <1>4

LEMMA HeaderStays ==
  ASSUME Tree, NewHead, NEW b \in Block
  PROVE  Header(b)' = Header(b)
<1>1. Ancestors(b)' = Ancestors(b) /\ parent'[b] = parent[b]
  BY AncestorsStay, TreeGrows
<1> QED
  BY <1>1 DEF Header

(***************************************************************************)
(* A header on its way, wherever it is, is of a known block.               *)
(***************************************************************************)
Item == [kind : {"head"}, block : Nat] \union {Error}

Known ==
  /\ \A i \in DOMAIN inbox : inbox[i].kind = "head" => inbox[i].block \in Block
  /\ subq \in Seq(Nat) /\ \A i \in DOMAIN subq : subq[i] \in Block
  /\ driver = "forward" => item \in Block
  /\ stream \in Seq(Item)
  /\ \A i \in DOMAIN stream : stream[i].kind = "head" => stream[i].block \in Block

LEMMA InitKnown == Init => Tree /\ Known
<1>1. <<>> \in Seq(Nat) /\ <<>> \in Seq(Item)
  OBVIOUS
<1> QED
  BY <1>1 DEF Init, Tree, Known, Block

LEMMA StepKnown == Types /\ Tree /\ Known /\ [Next]_vars => Tree' /\ Known'
<1> SUFFICES ASSUME Types, Tree, Known, [Next]_vars PROVE Tree' /\ Known'
  OBVIOUS
<1>1. CASE NewHead
<2>1. Tree' /\ Block \subseteq Block' /\ head' \in Block'
  BY <1>1, TreeGrows
<2>2. inbox' = inbox \/ inbox' = Append(inbox, [kind |-> "head", block |-> head'])
  BY <1>1 DEF NewHead
<2>3. \A i \in DOMAIN inbox' : inbox'[i].kind = "head" => inbox'[i].block \in Block'
<3>1. CASE inbox' = inbox
  BY <2>1, <3>1 DEF Known
<3>2. CASE inbox' = Append(inbox, [kind |-> "head", block |-> head'])
<4>1. /\ DOMAIN inbox = 1..Len(inbox) /\ Len(inbox) \in Nat
      /\ DOMAIN inbox' = 1..(Len(inbox) + 1)
      /\ inbox'[Len(inbox) + 1].block = head'
      /\ \A i \in 1..Len(inbox) : inbox'[i] = inbox[i]
  BY <3>2 DEF Types
<4> QED
  BY <2>1, <4>1 DEF Known
<3> QED
  BY <2>2, <3>1, <3>2
<2>4. UNCHANGED <<subq, driver, item, stream>>
  BY <1>1 DEF NewHead, driving
<2> QED
  BY <2>1, <2>3, <2>4 DEF Known
<1>2. CASE ~NewHead
<2>1. UNCHANGED parent
  BY <1>2 DEF Next, Driving, Calling, Writing, Reading, ReadFrame, Consuming,
     Respond, Disconnect, RegisterSubscribe, RegisterOther, Register, Send,
     WriteFrame, WriteFails, ReadAnswer, ReadHead, ReaderExits, OtherReturns,
     Subscribed, SubscribeFails, TakeHead, Forward, ReportError,
     StreamDropped, Consume, ConsumeError, StopReading, node, vars
<2>2. Tree' /\ Block' = Block
  BY <2>1 DEF Tree, Block
<2>3. \A i \in DOMAIN inbox' : inbox'[i].kind = "head" => inbox'[i].block \in Block
<3>1. CASE Respond
<4>1. PICK c \in Callers, kind \in {"ok", "error"} :
        inbox' = Append(inbox, [kind |-> kind, to |-> c])
<5>1. \E c \in asked, kind \in {"ok", "error"} :
        inbox' = Append(inbox, [kind |-> kind, to |-> c])
  BY <3>1 DEF Respond
<5> QED
  BY <5>1 DEF Types
<4> QED
  BY <4>1 DEF Known, Types
<3>2. CASE ReadAnswer \/ ReadHead
<4>1. inbox # <<>> /\ inbox' = Tail(inbox)
  BY <3>2 DEF ReadAnswer, ReadHead
<4> QED
  BY <4>1 DEF Known, Types
<3>3. CASE ReaderExits
  BY <3>3 DEF ReaderExits
<3>4. CASE UNCHANGED inbox
  BY <3>4 DEF Known
<3> QED
  BY <1>2, <3>1, <3>2, <3>3, <3>4 DEF Next, Driving, Calling, Writing,
     Reading, ReadFrame, Consuming, Disconnect, RegisterSubscribe,
     RegisterOther, Register, Send, WriteFrame, WriteFails, OtherReturns,
     Subscribed, SubscribeFails, TakeHead, Forward, ReportError,
     StreamDropped, Consume, ConsumeError, StopReading, socket, vars
<2>4. /\ subq' \in Seq(Nat) /\ \A i \in DOMAIN subq' : subq'[i] \in Block
      /\ driver' = "forward" => item' \in Block
<3>1. CASE ReadHead
<4>1. Head(inbox).block \in Block
  BY <3>1 DEF ReadHead, Known, Types
<4>2. /\ subq' = subq \/ subq' = Append(subq, Head(inbox).block)
      /\ UNCHANGED <<driver, item>>
  BY <3>1 DEF ReadHead
<4>3. CASE subq' = Append(subq, Head(inbox).block)
<5>1. Head(inbox).block \in Nat
  BY <4>1 DEF Block
<5>2. /\ subq' \in Seq(Nat) /\ DOMAIN subq' = 1..(Len(subq) + 1)
      /\ Len(subq) \in Nat /\ DOMAIN subq = 1..Len(subq)
      /\ subq'[Len(subq) + 1] = Head(inbox).block
      /\ \A i \in 1..Len(subq) : subq'[i] = subq[i]
  BY <4>3, <5>1 DEF Known
<5> QED
  BY <4>1, <4>2, <5>2 DEF Known
<4> QED
  BY <4>2, <4>3 DEF Known
<3>2. CASE TakeHead
<4>1. subq # <<>> /\ item' = Head(subq) /\ subq' = Tail(subq)
  BY <3>2 DEF TakeHead
<4> QED
  BY <4>1 DEF Known
<3>3. CASE Subscribed \/ SubscribeFails \/ Forward \/ ReportError \/ StreamDropped
  BY <3>3 DEF Subscribed, SubscribeFails, Forward, ReportError, StreamDropped, Known
<3>4. CASE UNCHANGED driving
  BY <3>4 DEF driving, Known
<3> QED
  BY <1>2, <3>1, <3>2, <3>3, <3>4 DEF Next, Driving, Calling, Writing,
     Reading, ReadFrame, Consuming, Respond, Disconnect, RegisterSubscribe,
     RegisterOther, Register, Send, WriteFrame, WriteFails, ReadAnswer,
     ReaderExits, OtherReturns, Consume, ConsumeError, StopReading, vars
<2>5. /\ stream' \in Seq(Item)
      /\ \A i \in DOMAIN stream' : stream'[i].kind = "head" => stream'[i].block \in Block
<3>1. CASE Forward
<4>1. [kind |-> "head", block |-> item] \in Item /\ item \in Block
  BY <3>1 DEF Forward, Known, Item, Block
<4>2. stream' = Append(stream, [kind |-> "head", block |-> item])
  BY <3>1 DEF Forward
<4> QED
  BY <4>1, <4>2 DEF Known
<3>2. CASE ReportError
<4>1. stream' = Append(stream, Error) /\ Error \in Item /\ Error.kind = "error"
  BY <3>2 DEF ReportError, Item, Error
<4> QED
  BY <4>1 DEF Known
<3>3. CASE Consume \/ ConsumeError
<4>1. stream # <<>> /\ stream' = Tail(stream)
  BY <3>3 DEF Consume, ConsumeError
<4> QED
  BY <4>1 DEF Known
<3>4. CASE StopReading
  BY <3>4 DEF StopReading
<3>5. CASE UNCHANGED stream
  BY <3>5 DEF Known
<3> QED
  BY <1>2, <3>1, <3>2, <3>3, <3>4, <3>5 DEF Next, Driving, Calling, Writing,
     Reading, ReadFrame, Consuming, Respond, Disconnect, RegisterSubscribe,
     RegisterOther, Register, Send, WriteFrame, WriteFails, ReadAnswer,
     ReadHead, ReaderExits, OtherReturns, Subscribed, SubscribeFails,
     TakeHead, StreamDropped, vars
<2> QED
  BY <2>2, <2>3, <2>4, <2>5 DEF Known
<1> QED
  BY <1>1, <1>2

(***************************************************************************)
(* The buffer.  It is a chain of the tree, each header the descendant of   *)
(* those before it (Chain), and it holds what was pushed, not reverted and *)
(* not dropped by the capacity (Held).                                     *)
(***************************************************************************)
BlockHeader == [hash : Nat, parent : Nat, number : Nat]

Chain ==
  /\ buffer \in Seq(BlockHeader)
  /\ \A i \in DOMAIN buffer :
       buffer[i].hash \in Block /\ buffer[i] = Header(buffer[i].hash)
  /\ \A i, j \in DOMAIN buffer :
       i < j => buffer[i].hash \in Ancestors(buffer[j].hash)

Held ==
  /\ kept \subseteq Block
  /\ kept \ trimmed \subseteq {buffer[i].hash : i \in DOMAIN buffer}

LEMMA HeaderType ==
  ASSUME Tree, NEW b \in Block
  PROVE  /\ Header(b) \in BlockHeader
         /\ Header(b).hash = b /\ Header(b).parent = parent[b]
<1>1. b \in Nat /\ parent[b] \in Nat
  BY ParentKnown DEF Block
<1>2. IsFiniteSet(Ancestors(b))
<2>1. Ancestors(b) \subseteq 1..(b - 1)
  BY AncestorsOlder
<2>2. IsFiniteSet(1..(b - 1))
  BY <1>1, FS_Interval
<2> QED
  BY <2>1, <2>2, FS_Subset
<1> QED
  BY <1>1, <1>2, FS_CardinalityType DEF Header, BlockHeader

\* No hash is buffered twice, so the parent is found at one place or nowhere.
LEMMA ForkPointIs ==
  ASSUME Tree, Chain, NEW b \in Block
  PROVE  \/ /\ ForkPoint(buffer, Header(b)) = 0
            /\ \A i \in DOMAIN buffer : buffer[i].hash # parent[b]
         \/ /\ ForkPoint(buffer, Header(b)) \in DOMAIN buffer
            /\ buffer[ForkPoint(buffer, Header(b))].hash = parent[b]
<1> DEFINE I == {i \in 1..Len(buffer) : buffer[i].hash = parent[b]}
<1>1. ForkPoint(buffer, Header(b)) = IF I # {} THEN Max(I) ELSE 0
  BY HeaderType DEF ForkPoint, SelectLastInSeq
<1>2. DOMAIN buffer = 1..Len(buffer) /\ Len(buffer) \in Nat
  BY DEF Chain
<1>3. CASE I = {}
  BY <1>1, <1>2, <1>3
<1>4. CASE I # {}
<2>1. PICK i \in I : TRUE
  BY <1>4
<2>2. ASSUME NEW j \in I PROVE j = i
<3>1. buffer[i].hash = parent[b] /\ buffer[j].hash = parent[b] /\ parent[b] \in Block
  BY <1>2 DEF Chain
<3>2. parent[b] \notin Ancestors(parent[b])
  BY <3>1, AncestorsOlder DEF Block
<3>3. ~(i < j) /\ ~(j < i)
  BY <1>2, <3>1, <3>2 DEF Chain
<3> QED
  BY <3>3
<2>3. I = {i}
  BY <2>1, <2>2
<2>4. Max(I) = i
  BY <2>3 DEF Max
<2> QED
  BY <1>1, <1>2, <1>4, <2>1, <2>4
<1> QED
  BY <1>3, <1>4

\* ReorgBuffer::push keeps the headers after k and up to n, puts the new one
\* after them and reverts those after n: k is 1 when the capacity drops one.
Pushed(b, k, n) ==
  LET push == Push(buffer, Header(b)) IN
    /\ n \in 0..Len(buffer) /\ k <= n /\ (k = 1 => n = Len(buffer))
    /\ \/ n > 0 /\ buffer[n].hash = parent[b]
       \/ n = 0 /\ \A i \in DOMAIN buffer : buffer[i].hash # parent[b]
    /\ push.headers \in Seq(BlockHeader) /\ Len(push.headers) = n - k + 1
    /\ \A i \in 1..(n - k) : push.headers[i] = buffer[i + k]
    /\ push.headers[n - k + 1] = Header(b)
    /\ DOMAIN push.reverted = 1..(Len(buffer) - n)
    /\ \A i \in 1..(Len(buffer) - n) : push.reverted[i] = buffer[n + i].number
    /\ n = Len(buffer) => push.reverted = <<>>

LEMMA PushShape ==
  ASSUME Tree, Chain, NEW b \in Block
  PROVE  \E k \in {0, 1} : \E n \in Nat : Pushed(b, k, n)
<1> DEFINE new == Header(b)
<1>1. /\ DOMAIN buffer = 1..Len(buffer) /\ Len(buffer) \in Nat
      /\ buffer \in Seq(BlockHeader)
  BY DEF Chain
<1>2. new \in BlockHeader /\ new.parent = parent[b] /\ new.hash = b
  BY HeaderType
<1> HIDE DEF new
<1>3. CASE Extends(buffer, new)
<2>1. /\ Push(buffer, new).headers = Extended(buffer, new)
      /\ Push(buffer, new).reverted = <<>>
  BY <1>3 DEF Push
<2>2. /\ Append(buffer, new) \in Seq(BlockHeader)
      /\ Len(Append(buffer, new)) = Len(buffer) + 1
      /\ \A i \in 1..Len(buffer) : Append(buffer, new)[i] = buffer[i]
      /\ Append(buffer, new)[Len(buffer) + 1] = new
  BY <1>1, <1>2
<2>3. CASE buffer # <<>> /\ Len(buffer) + 1 > Capacity
<3>1. Extended(buffer, new) = Tail(Append(buffer, new)) /\ Len(buffer) > 0
  BY <1>1, <2>2, <2>3 DEF Extended
<3>2. /\ Tail(Append(buffer, new)) \in Seq(BlockHeader)
      /\ Len(Tail(Append(buffer, new))) = Len(buffer)
      /\ \A i \in 1..Len(buffer) : Tail(Append(buffer, new))[i] = Append(buffer, new)[i + 1]
  BY <2>2, <1>1
<3>3. buffer[Len(buffer)].hash = parent[b]
  BY <1>2, <1>3, <2>3 DEF Extends, Last
<3>4. Pushed(b, 1, Len(buffer))
  BY <1>1, <2>1, <2>2, <3>1, <3>2, <3>3 DEF Pushed, new
<3> QED
  BY <1>1, <3>4
<2>4. CASE ~(buffer # <<>> /\ Len(buffer) + 1 > Capacity)
<3>1. Extended(buffer, new) = Append(buffer, new)
  BY <2>2, <2>4 DEF Extended
<3>2. buffer # <<>> => Len(buffer) > 0 /\ buffer[Len(buffer)].hash = parent[b]
  BY <1>1, <1>2, <1>3 DEF Extends, Last
<3>3. buffer = <<>> => Len(buffer) = 0
  OBVIOUS
<3>4. Pushed(b, 0, Len(buffer))
  BY <1>1, <2>1, <2>2, <3>1, <3>2, <3>3 DEF Pushed, new
<3> QED
  BY <1>1, <3>4
<2> QED
  BY <2>3, <2>4
<1>4. CASE ~Extends(buffer, new)
<2>1. \/ /\ ForkPoint(buffer, new) = 0
         /\ \A i \in DOMAIN buffer : buffer[i].hash # parent[b]
      \/ /\ ForkPoint(buffer, new) \in DOMAIN buffer
         /\ buffer[ForkPoint(buffer, new)].hash = parent[b]
  BY ForkPointIs DEF new
<2>2. PICK n \in Nat :
        /\ n = ForkPoint(buffer, new) /\ n < Len(buffer)
        /\ \/ n > 0 /\ buffer[n].hash = parent[b]
           \/ n = 0 /\ \A i \in DOMAIN buffer : buffer[i].hash # parent[b]
<3>1. buffer # <<>> /\ buffer[Len(buffer)].hash # parent[b]
  BY <1>2, <1>4 DEF Extends, Last
<3>2. Len(buffer) # 0
  BY <1>1, <3>1
<3> QED
  BY <1>1, <2>1, <3>1, <3>2
<2>3. /\ Push(buffer, new).headers = Append(SubSeq(buffer, 1, n), new)
      /\ Push(buffer, new).reverted = [i \in DOMAIN SubSeq(buffer, n + 1, Len(buffer)) |->
                                         SubSeq(buffer, n + 1, Len(buffer))[i].number]
  BY <1>4, <2>2 DEF Push, Forked, Evicted
<2>4. /\ SubSeq(buffer, 1, n) \in Seq(BlockHeader) /\ Len(SubSeq(buffer, 1, n)) = n
      /\ \A i \in 1..n : SubSeq(buffer, 1, n)[i] = buffer[i]
  BY <1>1, <2>2
<2>5. /\ DOMAIN SubSeq(buffer, n + 1, Len(buffer)) = 1..(Len(buffer) - n)
      /\ \A i \in 1..(Len(buffer) - n) :
           SubSeq(buffer, n + 1, Len(buffer))[i] = buffer[n + i]
  BY <1>1, <2>2
<2>6. /\ Push(buffer, new).headers \in Seq(BlockHeader)
      /\ Len(Push(buffer, new).headers) = n + 1
      /\ \A i \in 1..n : Push(buffer, new).headers[i] = buffer[i]
      /\ Push(buffer, new).headers[n + 1] = new
  BY <1>2, <2>2, <2>3, <2>4
<2>7. /\ DOMAIN Push(buffer, new).reverted = 1..(Len(buffer) - n)
      /\ \A i \in 1..(Len(buffer) - n) :
           Push(buffer, new).reverted[i] = buffer[n + i].number
  BY <2>3, <2>5
<2>8. Pushed(b, 0, n)
  BY <1>1, <2>2, <2>6, <2>7 DEF Pushed, new
<2> QED
  BY <2>8
<1> QED
  BY <1>3, <1>4

Buffered == Types /\ Tree /\ Known /\ Chain /\ Held

LEMMA ConsumedBlock ==
  ASSUME Buffered, Consume
  PROVE  Head(stream).block \in Block
<1>1. stream \in Seq(Item) /\ stream # <<>>
  BY DEF Buffered, Known, Consume
<1>2. 1 \in DOMAIN stream /\ stream[1].kind = "head" /\ Head(stream) = stream[1]
  BY <1>1 DEF Consume
<1> QED
  BY <1>2 DEF Buffered, Known

LEMMA ConsumeChain ==
  ASSUME Buffered, Consume
  PROVE  Chain'
<1>1. PICK b \in Block : b = Head(stream).block
  BY ConsumedBlock
<1>2. PICK k \in {0, 1}, n \in Nat : Pushed(b, k, n)
  BY PushShape DEF Buffered
<1>3. UNCHANGED parent /\ buffer' = Push(buffer, Header(b)).headers
  BY <1>1 DEF Consume, node
<1>4. Block' = Block /\ \A c : Ancestors(c)' = Ancestors(c) /\ Header(c)' = Header(c)
  BY <1>3 DEF Ancestors, Block, Closed, Header
<1>5. /\ Len(buffer) \in Nat /\ DOMAIN buffer = 1..Len(buffer)
      /\ DOMAIN buffer' = 1..(n - k + 1) /\ n - k \in Nat /\ n <= Len(buffer)
      /\ \A i \in 1..(n - k) : buffer'[i] = buffer[i + k]
      /\ buffer'[n - k + 1] = Header(b) /\ Header(b).hash = b
  BY <1>2, <1>3, HeaderType DEF Pushed, Buffered, Chain
<1>6. \A i \in 1..(n - k) : i + k \in DOMAIN buffer /\ i + k <= n
  BY <1>5
<1>7. ASSUME NEW i \in 1..n, n > 0
      PROVE  buffer[i].hash \in Ancestors(b)
<2>1. buffer[n].hash = parent[b] /\ n \in DOMAIN buffer /\ i \in DOMAIN buffer
  BY <1>2, <1>5, <1>7 DEF Pushed
<2>2. Ancestors(b) = {parent[b]} \union Ancestors(parent[b])
  BY <2>1, AncestorsOfChild DEF Buffered, Chain
<2>3. i = n \/ buffer[i].hash \in Ancestors(buffer[n].hash)
  BY <1>7, <2>1 DEF Buffered, Chain
<2> QED
  BY <2>1, <2>2, <2>3
<1>8. \A i \in DOMAIN buffer' :
        buffer'[i].hash \in Block /\ buffer'[i] = Header(buffer'[i].hash)
<2>1. ASSUME NEW i \in 1..(n - k)
      PROVE  buffer'[i].hash \in Block /\ buffer'[i] = Header(buffer'[i].hash)
  BY <1>5, <1>6, <2>1 DEF Buffered, Chain
<2> QED
  BY <1>5, <2>1
<1>9. ASSUME NEW i \in DOMAIN buffer', NEW j \in DOMAIN buffer', i < j
      PROVE  buffer'[i].hash \in Ancestors(buffer'[j].hash)
<2>1. i \in 1..(n - k) /\ i + k \in DOMAIN buffer /\ i + k \in 1..n /\ n > 0
  BY <1>5, <1>6, <1>9
<2>2. CASE j = n - k + 1
  BY <1>5, <1>7, <2>1, <2>2
<2>3. CASE j # n - k + 1
<3>1. j \in 1..(n - k) /\ i + k < j + k
  BY <1>5, <1>9, <2>3
<3> QED
  BY <1>5, <1>6, <2>1, <3>1 DEF Buffered, Chain
<2> QED
  BY <2>2, <2>3
<1>10. buffer' \in Seq(BlockHeader)
  BY <1>2, <1>3 DEF Pushed
<1> QED
  BY <1>4, <1>8, <1>9, <1>10 DEF Chain

LEMMA ConsumeHeld ==
  ASSUME Buffered, Consume
  PROVE  Held'
<1>1. PICK b \in Block : b = Head(stream).block
  BY ConsumedBlock
<1>2. PICK k \in {0, 1}, n \in Nat : Pushed(b, k, n)
  BY PushShape DEF Buffered
<1> DEFINE push == Push(buffer, Header(b))
<1>3. /\ UNCHANGED parent /\ buffer' = push.headers
      /\ kept' = (kept \ {c \in kept : \E i \in DOMAIN push.reverted :
                                         push.reverted[i] = Header(c).number})
                   \union {b}
      /\ trimmed' = IF push.reverted = <<>> /\ buffer # <<>>
                       /\ Len(push.headers) <= Len(buffer)
                    THEN trimmed \union {buffer[1].hash} ELSE trimmed
  BY <1>1 DEF Consume, node
<1>4. /\ Len(buffer) \in Nat /\ DOMAIN buffer = 1..Len(buffer)
      /\ DOMAIN buffer' = 1..(n - k + 1) /\ n - k \in Nat /\ n <= Len(buffer)
      /\ \A i \in 1..(n - k) : buffer'[i] = buffer[i + k]
      /\ buffer'[n - k + 1] = Header(b) /\ Header(b).hash = b
  BY <1>2, <1>3, HeaderType DEF Pushed, Buffered, Chain
<1>5. Block' = Block /\ kept' \subseteq Block
  BY <1>3 DEF Block, Buffered, Held
<1>6. ASSUME NEW c \in kept' \ trimmed'
      PROVE  \E i \in DOMAIN buffer' : buffer'[i].hash = c
<2>1. CASE c = b
  BY <1>4, <2>1
<2>2. CASE c # b
<3>1. /\ c \in kept \ trimmed
      /\ ~\E i \in DOMAIN push.reverted : push.reverted[i] = Header(c).number
  BY <1>3, <1>6, <2>2
<3>2. PICK i \in DOMAIN buffer : buffer[i].hash = c
  BY <3>1 DEF Buffered, Held
<3>3. i <= n
<4> SUFFICES ASSUME ~(i <= n) PROVE FALSE
  OBVIOUS
<4>1. i - n \in 1..(Len(buffer) - n) /\ n + (i - n) = i
  BY <1>4
<4>2. i - n \in DOMAIN push.reverted /\ push.reverted[i - n] = buffer[i].number
  BY <1>2, <4>1 DEF Pushed
<4>3. buffer[i].number = Header(c).number
  BY <3>2 DEF Buffered, Chain
<4> QED
  BY <3>1, <4>2, <4>3
<3>4. ~(k = 1 /\ i = 1)
<4> SUFFICES ASSUME k = 1, i = 1 PROVE FALSE
  OBVIOUS
<4>1. push.reverted = <<>> /\ Len(push.headers) <= Len(buffer)
  BY <1>2, <1>4 DEF Pushed
<4>2. buffer # <<>>
  BY <1>4
<4> QED
  BY <1>3, <1>6, <3>2, <4>1, <4>2
<3>5. i - k \in 1..(n - k) /\ (i - k) + k = i
  BY <1>4, <3>3, <3>4
<3> QED
  BY <1>4, <3>2, <3>5
<2> QED
  BY <2>1, <2>2
<1> QED
  BY <1>5, <1>6 DEF Held

LEMMA StepBuffered == Buffered /\ [Next]_vars => Buffered'
<1> SUFFICES ASSUME Buffered, [Next]_vars PROVE Buffered'
  OBVIOUS
<1>1. Types' /\ Tree' /\ Known'
  BY StepTypes, StepKnown DEF Buffered
<1>2. CASE Consume
  BY <1>1, <1>2, ConsumeChain, ConsumeHeld DEF Buffered
<1>3. CASE NewHead
<2>1. /\ UNCHANGED consuming /\ Block \subseteq Block'
      /\ \A c \in Block : Ancestors(c)' = Ancestors(c) /\ Header(c)' = Header(c)
  BY <1>3, AncestorsStay, HeaderStays, TreeGrows DEF Buffered, NewHead
<2> QED
  BY <1>1, <2>1 DEF Buffered, Chain, Held, consuming
<1>4. CASE ~Consume /\ ~NewHead
<2>1. UNCHANGED <<parent, buffer, kept, trimmed>>
  BY <1>4 DEF Next, Driving, Calling, Writing, Reading, ReadFrame, Consuming,
     Respond, Disconnect, RegisterSubscribe, RegisterOther, Register, Send,
     WriteFrame, WriteFails, ReadAnswer, ReadHead, ReaderExits, OtherReturns,
     Subscribed, SubscribeFails, TakeHead, Forward, ReportError,
     StreamDropped, ConsumeError, StopReading, node, consuming, vars
<2>2. Block' = Block /\ \A c : Ancestors(c)' = Ancestors(c) /\ Header(c)' = Header(c)
  BY <2>1 DEF Ancestors, Block, Closed, Header
<2> QED
  BY <1>1, <2>1, <2>2 DEF Buffered, Chain, Held
<1> QED
  BY <1>2, <1>3, <1>4

LEMMA InitBuffered == Init => Buffered
<1>1. <<>> \in Seq(BlockHeader)
  OBVIOUS
<1> QED
  BY <1>1, InitTypes, InitKnown DEF Init, Buffered, Chain, Held

LEMMA BufferedOnTipChain == Buffered => KeptOnTipChain
<1> SUFFICES ASSUME Buffered, buffer # <<>>,
                    NEW c \in kept \ trimmed, c # Last(buffer).hash
             PROVE  c \in Ancestors(Last(buffer).hash)
  BY DEF KeptOnTipChain
<1>1. PICK i \in DOMAIN buffer : buffer[i].hash = c
  BY DEF Buffered, Held
<1>2. Len(buffer) \in DOMAIN buffer /\ i <= Len(buffer) /\ i # Len(buffer)
  BY <1>1 DEF Buffered, Chain, Last
<1>3. i < Len(buffer)
  BY <1>2 DEF Buffered, Chain
<1> QED
  BY <1>1, <1>2, <1>3 DEF Buffered, Chain, Last

\* For every tree of blocks, order and loss of heads, capacity of the channels
\* and of the buffer: what ReorgBuffer::push was given and has not reverted is on
\* the chain of its tip, or left by the capacity.
THEOREM KeptIsOnTipChain == Spec => []KeptOnTipChain
  BY InitBuffered, StepBuffered, BufferedOnTipChain, PTL DEF Spec

LEMMA ConsumeSparesAncestors ==
  ASSUME Buffered, Consume,
         NEW i \in DOMAIN buffer, buffer[i].hash = Last(buffer').parent,
         NEW c \in kept \ kept'
  PROVE  c \notin Ancestors(Last(buffer').hash)
<1>1. PICK b \in Block : b = Head(stream).block
  BY ConsumedBlock
<1>2. PICK k \in {0, 1}, n \in Nat : Pushed(b, k, n)
  BY PushShape DEF Buffered
<1> DEFINE push == Push(buffer, Header(b))
<1>3. /\ buffer' = push.headers
      /\ \E j \in DOMAIN push.reverted : push.reverted[j] = Header(c).number
  BY <1>1 DEF Consume
<1>4. /\ Last(buffer') = Header(b) /\ Header(b).hash = b
      /\ Header(b).parent = parent[b]
  BY <1>2, <1>3, HeaderType DEF Pushed, Last, Buffered
<1>5. PICK j \in 1..(Len(buffer) - n) : buffer[n + j].number = Header(c).number
  BY <1>2, <1>3 DEF Pushed
<1>6. n > 0 /\ buffer[n].hash = parent[b]
  BY <1>2, <1>4 DEF Pushed
<1>7. Len(buffer) \in Nat /\ n \in DOMAIN buffer /\ n + j \in DOMAIN buffer /\ n < n + j
  BY <1>2, <1>5, <1>6 DEF Pushed, Buffered, Chain
<1>8. /\ parent[b] \in Block /\ buffer[n + j].hash \in Block
      /\ parent[b] \in Ancestors(buffer[n + j].hash)
      /\ buffer[n + j] = Header(buffer[n + j].hash)
  BY <1>6, <1>7 DEF Buffered, Chain
<1>9. /\ Header(parent[b]).number < Header(c).number
      /\ Header(parent[b]).number \in Nat /\ Header(c).number \in Nat
  BY <1>5, <1>8, NumbersGrow DEF Buffered
<1>10. Ancestors(b) = {parent[b]} \union Ancestors(parent[b])
  BY <1>8, AncestorsOfChild DEF Buffered
<1>11. c # parent[b]
  BY <1>9
<1>12. c \notin Ancestors(parent[b])
  BY <1>8, <1>9, NumbersGrow DEF Buffered
<1> QED
  BY <1>4, <1>10, <1>11, <1>12

\* For every tree and order of heads: if the fork point is buffered, what
\* ReorgBuffer::push reverts is no ancestor of the new head.
THEOREM AncestorsAreSpared == Spec => NoAncestorReverted
<1>1. Buffered /\ [Next]_vars
        => [LET tip == Last(buffer') IN
              buffer' # buffer /\ (\E i \in DOMAIN buffer : buffer[i].hash = tip.parent)
                => (kept \ kept') \intersect Ancestors(tip.hash) = {}]_vars
<2> SUFFICES ASSUME Buffered, [Next]_vars, buffer' # buffer,
                    NEW i \in DOMAIN buffer, buffer[i].hash = Last(buffer').parent
             PROVE  (kept \ kept') \intersect Ancestors(Last(buffer').hash) = {}
  OBVIOUS
<2>1. Consume
  BY DEF Next, Driving, Calling, Writing, Reading, ReadFrame, Consuming,
     NewHead, Respond, Disconnect, RegisterSubscribe, RegisterOther, Register,
     Send, WriteFrame, WriteFails, ReadAnswer, ReadHead, ReaderExits,
     OtherReturns, Subscribed, SubscribeFails, TakeHead, Forward, ReportError,
     StreamDropped, ConsumeError, StopReading, consuming, vars
<2> QED
  BY <2>1, ConsumeSparesAncestors
<1> QED
  BY <1>1, InitBuffered, StepBuffered, PTL DEF Spec, NoAncestorReverted
=============================================================================
