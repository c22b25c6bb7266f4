------------------------- MODULE LogPipelineProofs ---------------------------
(***************************************************************************)
(* For any channel size, batch size and number of entries: the log         *)
(* pipeline keeps its types and its bounds, and implements LossyLog.       *)
(***************************************************************************)
EXTENDS LogPipeline, SequenceTheorems, TLAPS

\* TypeOK in two parts, which different steps disturb.
Control ==
    /\ expired \in BOOLEAN
    /\ phase \in {"serving", "drained", "closed", "exited"}
    /\ pg \in Databases

Data ==
    /\ offered \in 0..MaxEntries
    /\ logCh \in Seq(1..MaxEntries) /\ batch \in Seq(1..MaxEntries)
    /\ flushed \in -1..(BatchMax - 1)
    /\ written \in Seq(1..MaxEntries) /\ lost \subseteq 1..MaxEntries

\* What flushLogs is given becomes its batch, or is lost when there is no
\* database.
LEMMA StartFlushKeeps ==
    ASSUME Data, ~Flushing, NEW b \in Seq(1..MaxEntries),
           Len(b) \in 1..BatchMax, StartFlush(b)
    PROVE  /\ batch' \in Seq(1..MaxEntries) /\ Len(batch') <= BatchMax
           /\ flushed' \in -1..(BatchMax - 1)
           /\ flushed' # -1 => flushed' < Len(batch')
           /\ flushed' = -1 => Len(batch') < BatchMax
           /\ lost' \subseteq 1..MaxEntries
<1> USE PipelineAssumption DEF Data
<1>1. CASE pg
  <2>1. batch' = b /\ flushed' = 0 /\ lost' = lost
    BY <1>1 DEF StartFlush
  <2>2. QED
    BY <2>1
<1>2. CASE ~pg
  <2>1. Elements(b) \subseteq 1..MaxEntries
    BY DEF Elements
  <2>2. batch' = <<>> /\ flushed' = -1 /\ lost' = lost \cup Elements(b)
    BY <1>2 DEF StartFlush, Flushing
  <2>3. lost' \subseteq 1..MaxEntries
    BY <2>1, <2>2
  <2>4. batch' \in Seq(1..MaxEntries) /\ Len(batch') = 0
    BY <2>2
  <2>5. flushed' = -1 /\ flushed' \in -1..(BatchMax - 1)
    BY <2>2
  <2>6. QED
    BY <2>3, <2>4, <2>5
<1>3. QED
  BY <1>1, <1>2

\* Stepping over an entry stays inside the batch, or ends the flush.
LEMMA AdvanceKeeps ==
    ASSUME Data, Bounded, Flushing, Advance
    PROVE  /\ batch' \in Seq(1..MaxEntries) /\ Len(batch') <= BatchMax
           /\ flushed' \in -1..(BatchMax - 1)
           /\ flushed' # -1 => flushed' < Len(batch')
           /\ flushed' = -1 => Len(batch') < BatchMax
           /\ Current \in 1..MaxEntries
<1> USE PipelineAssumption DEF Data, Bounded, Flushing
<1>1. flushed + 1 \in 1..Len(batch) /\ Len(batch) \in Nat
  OBVIOUS
<1>2. Current \in 1..MaxEntries
  BY <1>1 DEF Current
<1>3. CASE flushed + 1 = Len(batch)
  <2>1. batch' = <<>> /\ flushed' = -1
    BY <1>3 DEF Advance
  <2>2. QED
    BY <1>2, <2>1
<1>4. CASE flushed + 1 # Len(batch)
  <2>1. batch' = batch /\ flushed' = flushed + 1
    BY <1>4 DEF Advance
  <2>2. QED
    BY <1>1, <1>2, <1>4, <2>1
<1>5. QED
  BY <1>3, <1>4

\* The flags and phases keep their values.
LEMMA ControlKeeps == ASSUME Control, [Next]_vars PROVE Control'
<1> USE PipelineAssumption DEF Control, StartFlush, Advance
<1>1. CASE AsyncLog \/ FlushDeadline \/ Stop \/ UNCHANGED vars
  BY <1>1 DEF AsyncLog, FlushDeadline, Stop, vars
<1>2. CASE Receive
  BY <1>2 DEF Receive
<1>3. CASE Ticker \/ Insert \/ InsertFails
  BY <1>3 DEF Ticker, Insert, InsertFails
<1>4. QED
  BY <1>1, <1>2, <1>3 DEF Next, Writer

\* The channel, the batch and the entries keep their types and bounds.
LEMMA DataKeeps == ASSUME Data, Bounded, [Next]_vars PROVE (Data /\ Bounded)'
<1> USE PipelineAssumption DEF Flushing
<1>1. CASE AsyncLog
  <2>1. offered + 1 \in 1..MaxEntries
    BY <1>1 DEF AsyncLog, Data
  <2>2. /\ batch' = batch /\ flushed' = flushed /\ written' = written
        /\ offered' = offered + 1
    BY <1>1 DEF AsyncLog
  <2>3. CASE Len(logCh) < ChannelSize
    <3>1. logCh' = Append(logCh, offered + 1) /\ lost' = lost
      BY <1>1, <2>3 DEF AsyncLog
    <3>2. QED
      BY <2>1, <2>2, <2>3, <3>1 DEF Data, Bounded
  <2>4. CASE ~(Len(logCh) < ChannelSize)
    <3>1. logCh' = logCh /\ lost' = lost \cup {offered + 1}
      BY <1>1, <2>4 DEF AsyncLog
    <3>2. QED
      BY <2>1, <2>2, <3>1 DEF Data, Bounded
  <2>5. QED
    BY <2>3, <2>4
<1>2. CASE Receive
  <2> DEFINE b == Append(batch, Head(logCh))
  <2>1. /\ logCh' \in Seq(1..MaxEntries) /\ Len(logCh') <= ChannelSize
        /\ b \in Seq(1..MaxEntries) /\ Len(b) = Len(batch) + 1
        /\ Len(b) \in 1..BatchMax
    <3>1. /\ logCh \in Seq(1..MaxEntries) /\ batch \in Seq(1..MaxEntries)
          /\ Len(logCh) <= ChannelSize /\ Len(batch) < BatchMax
          /\ logCh # << >> /\ logCh' = Tail(logCh)
      BY <1>2 DEF Receive, Data, Bounded
    <3>2. logCh' \in Seq(1..MaxEntries) /\ Len(logCh') = Len(logCh) - 1
      BY <3>1
    <3>3. Head(logCh) \in 1..MaxEntries
      BY <3>1
    <3>4. b \in Seq(1..MaxEntries) /\ Len(b) = Len(batch) + 1
      BY <3>1, <3>3
    <3>5. QED
      BY <3>1, <3>2, <3>4
  <2>2. ~Flushing /\ offered' = offered /\ written' = written
    BY <1>2 DEF Receive
  <2> HIDE DEF b
  <2>3. CASE Len(b) >= BatchMax
    <3>1. StartFlush(b)
      BY <1>2, <2>3 DEF Receive, b
    <3>2. QED
      BY <2>1, <2>2, <3>1, StartFlushKeeps DEF Data, Bounded
  <2>4. CASE ~(Len(b) >= BatchMax)
    <3>1. batch' = b /\ flushed' = flushed /\ lost' = lost
      BY <1>2, <2>4 DEF Receive, b
    <3>2. QED
      BY <2>1, <2>2, <2>4, <3>1 DEF Data, Bounded
  <2>5. QED
    BY <2>3, <2>4
<1>3. CASE Ticker
  <2>1. /\ StartFlush(batch) /\ ~Flushing /\ logCh' = logCh
        /\ offered' = offered /\ written' = written
    BY <1>3 DEF Ticker
  <2>2. Len(batch) \in 1..BatchMax
    BY <1>3 DEF Ticker, Data, Bounded
  <2>3. QED
    BY <2>1, <2>2, StartFlushKeeps DEF Data, Bounded
<1>4. CASE Insert
  <2>1. /\ Advance /\ Flushing /\ logCh' = logCh /\ offered' = offered
        /\ lost' = lost /\ written' = Append(written, Current)
    BY <1>4 DEF Insert
  <2>2. QED
    BY <2>1, AdvanceKeeps DEF Data, Bounded
<1>5. CASE InsertFails
  <2>1. /\ Advance /\ Flushing /\ logCh' = logCh /\ offered' = offered
        /\ lost' = lost \cup {Current} /\ written' = written
    BY <1>5 DEF InsertFails
  <2>2. QED
    BY <2>1, AdvanceKeeps DEF Data, Bounded
<1>6. CASE FlushDeadline \/ Stop \/ UNCHANGED vars
  <2>1. /\ logCh' = logCh /\ batch' = batch /\ flushed' = flushed
        /\ offered' = offered /\ written' = written /\ lost' = lost
    BY <1>6 DEF FlushDeadline, Stop, vars
  <2>2. QED
    BY <2>1 DEF Data, Bounded
<1>7. QED
  BY <1>1, <1>2, <1>3, <1>4, <1>5, <1>6 DEF Next, Writer

\* The pipeline keeps its types and never outgrows its channel or its batch
\* (handler.go:484-544).
THEOREM PipelineBounded == Spec => [](TypeOK /\ Bounded)
<1>1. TypeOK <=> Control /\ Data
  BY DEF TypeOK, Control, Data
<1>2. Init => Control
  BY PipelineAssumption DEF Init, Control
<1>3. Init => Data /\ Bounded
  BY PipelineAssumption DEF Init, Data, Bounded, Flushing
<1>4. Control /\ Data /\ Bounded /\ [Next]_vars => (Control /\ Data /\ Bounded)'
  BY ControlKeeps, DataKeeps
<1>5. QED
  BY <1>1, <1>2, <1>3, <1>4, PTL DEF Spec

\* Every variable keeps its type.
THEOREM PipelineTypes == Spec => []TypeOK
  BY PipelineBounded, PTL

-----------------------------------------------------------------------------
(* Refinement of LossyLog *)

Entry == 1..MaxEntries

\* What is left of the batch; Pending is that and the channel.
Rest == SubSeq(batch, IF Flushing THEN flushed + 1 ELSE 1, Len(batch))

LEMMA PendingParts ==
    ASSUME Data, Bounded
    PROVE  /\ Rest \in Seq(Entry) /\ logCh \in Seq(Entry)
           /\ Pending = Rest \o logCh /\ Pending \in Seq(Entry)
<1>1. logCh \in Seq(Entry) /\ batch \in Seq(Entry) /\ Len(batch) \in Nat
  BY DEF Data, Entry
<1> DEFINE m == IF Flushing THEN flushed + 1 ELSE 1
<1>2. m \in Int /\ m >= 1
  BY PipelineAssumption DEF Data, Flushing
<1>3. \A i \in m..Len(batch): batch[i] \in Entry
  BY <1>1, <1>2
<1> HIDE DEF m
<1>4. SubSeq(batch, m, Len(batch)) \in Seq(Entry)
  BY <1>1, <1>2, <1>3, SubSeqProperties
<1> QED
  BY <1>1, <1>4, ConcatProperties DEF Rest, Pending, m

\* The back part of a concatenation.
LEMMA BackPart ==
    ASSUME NEW S, NEW u \in Seq(S), NEW v \in Seq(S)
    PROVE  SubSeq(u \o v, Len(u) + 1, Len(u \o v)) = v
<1>1. Len(u) \in Nat /\ Len(v) \in Nat /\ Len(u \o v) = Len(u) + Len(v)
  BY ConcatProperties, LenProperties
<1>2. CASE v = <<>>
  BY <1>1, <1>2, SubSeqEmpty
<1>3. CASE v # <<>>
  <2>1. Len(v) >= 1
    BY <1>1, <1>3, EmptySeq
  <2>2. SubSeq(u \o v, Len(u) + 1, Len(u) + Len(v)) = SubSeq(v, 1, Len(v))
    BY <1>1, <2>1, SubSeqOfConcat2
  <2> QED
    BY <1>1, <2>2, SubSeqFull
<1> QED
  BY <1>2, <1>3

\* To give up a front part of what is pending is to Lose it.
LEMMA GivingUp ==
    ASSUME Data, Bounded, NEW u \in Seq(Entry), NEW v \in Seq(Entry), u # <<>>,
           Pending = u \o v, Pending' = v, lost' = lost \cup Elements(u),
           UNCHANGED <<offered, written>>
    PROVE  Abstract!Next
<1>1. /\ Len(u) \in Nat \ {0} /\ Len(v) \in Nat /\ Len(Pending) = Len(u) + Len(v)
      /\ \A i \in 1..Len(u): Pending[i] = u[i]
  BY ConcatProperties, LenProperties, EmptySeq
<1>2. Pending' = SubSeq(Pending, Len(u) + 1, Len(Pending))
  BY BackPart
<1>3. lost' = lost \cup {Pending[i]: i \in 1..Len(u)}
  BY <1>1 DEF Elements
<1>4. Abstract!Lose(Len(u))
  BY <1>2, <1>3 DEF Abstract!Lose
<1> QED
  BY <1>1, <1>4 DEF Abstract!Next

\* A flush begins with the batch, or gives it up.
LEMMA FlushStep ==
    ASSUME Data, Bounded, ~Flushing, NEW b \in Seq(Entry), b # <<>>, StartFlush(b),
           logCh' \in Seq(Entry), Pending = b \o logCh', UNCHANGED <<offered, written>>
    PROVE  Abstract!Next \/ UNCHANGED <<offered, Pending, written, lost>>
<1>1. CASE pg
  <2>1. batch' = b /\ flushed' = 0 /\ lost' = lost
    BY <1>1 DEF StartFlush
  <2>2. Pending' = SubSeq(b, 1, Len(b)) \o logCh'
    BY <2>1 DEF Pending, Flushing
  <2> QED
    BY <2>1, <2>2, SubSeqFull
<1>2. CASE ~pg
  <2>1. batch' = <<>> /\ flushed' = -1 /\ lost' = lost \cup Elements(b)
    BY <1>2 DEF StartFlush, Flushing
  <2>2. Pending' = SubSeq(<<>>, 1, 0) \o logCh'
    BY <2>1 DEF Pending, Flushing
  <2>3. SubSeq(<<>>, 1, 0) = <<>>
    BY SubSeqEmpty
  <2>4. Pending' = logCh'
    BY <2>2, <2>3, ConcatEmptySeq
  <2> QED
    BY <2>1, <2>4, GivingUp
<1> QED
  BY <1>1, <1>2

\* While a flush runs, its next entry is the first that is pending, and a step
\* over it leaves the others.
LEMMA AdvanceStep ==
    ASSUME Data, Bounded, Flushing, Advance, logCh' = logCh
    PROVE  /\ Current \in Entry
           /\ Pending = <<Current>> \o Pending'
           /\ Pending' \in Seq(Entry)
<1> USE PipelineAssumption
<1>1. /\ batch \in Seq(Entry) /\ Len(batch) \in Nat
      /\ flushed + 1 \in 1..Len(batch) /\ flushed \in Nat
  BY DEF Data, Bounded, Flushing, Entry
<1>2. Current \in Entry
  BY <1>1 DEF Current
<1> DEFINE others == SubSeq(batch, flushed + 2, Len(batch))
<1>3. others \in Seq(Entry)
  <2>1. \A i \in (flushed + 2)..Len(batch): batch[i] \in Entry
    BY <1>1
  <2> QED
    BY <1>1, <2>1, SubSeqProperties
<1>4. Rest = <<Current>> \o others
  <2>1. SubSeq(batch, flushed + 1, Len(batch)) = <<batch[flushed + 1]>> \o SubSeq(batch, (flushed + 1) + 1, Len(batch))
    BY <1>1, SubSeqRecursiveFirst
  <2>2. (flushed + 1) + 1 = flushed + 2
    BY <1>1
  <2> QED
    BY <2>1, <2>2 DEF Rest, Current
<1>5. Pending' = others \o logCh
  <2>1. CASE flushed + 1 = Len(batch)
    <3>1. batch' = <<>> /\ flushed' = -1
      BY <2>1 DEF Advance
    <3>2. Pending' = SubSeq(<<>>, 1, 0) \o logCh
      BY <3>1 DEF Pending, Flushing
    <3>3. SubSeq(<<>>, 1, 0) = <<>> /\ others = <<>>
      BY <1>1, <2>1, SubSeqEmpty
    <3> QED
      BY <3>2, <3>3
  <2>2. CASE flushed + 1 # Len(batch)
    <3>1. batch' = batch /\ flushed' = flushed + 1
      BY <2>2 DEF Advance
    <3>2. flushed' # -1 /\ flushed' + 1 = flushed + 2
      BY <1>1, <3>1
    <3> QED
      BY <3>1, <3>2 DEF Pending, Flushing
  <2> QED
    BY <2>1, <2>2
<1>6. <<Current>> \in Seq(Entry) /\ logCh \in Seq(Entry)
  BY <1>2 DEF Data, Entry
<1> HIDE DEF others
<1>7. Pending = <<Current>> \o (others \o logCh)
  <2>1. (<<Current>> \o others) \o logCh = <<Current>> \o (others \o logCh)
    BY <1>3, <1>6, ConcatAssociative
  <2>2. Pending = Rest \o logCh
    BY PendingParts
  <2> QED
    BY <1>4, <2>1, <2>2
<1> QED
  BY <1>2, <1>3, <1>5, <1>6, <1>7, ConcatProperties

LEMMA PipelineStep ==
    ASSUME Data, Bounded, (Data /\ Bounded)', [Next]_vars
    PROVE  Abstract!Next \/ UNCHANGED <<offered, Pending, written, lost>>
<1> USE PipelineAssumption
<1>1. CASE AsyncLog
  <2>1. /\ UNCHANGED <<batch, flushed, written>> /\ offered' = offered + 1
        /\ offered + 1 \in Entry
    BY <1>1 DEF AsyncLog, Data, Entry
  <2>2. Rest' = Rest
    BY <2>1 DEF Rest, Flushing
  <2>3. CASE logCh' = Append(logCh, offered + 1) /\ lost' = lost
    <3>1. Append(logCh, offered + 1) = logCh \o <<offered + 1>>
      BY <2>1, PendingParts, AppendIsConcat
    <3>2. <<offered + 1>> \in Seq(Entry)
      BY <2>1
    <3>3. Pending' = Rest \o (logCh \o <<offered + 1>>)
      BY <2>1, <2>3, <3>1 DEF Pending, Rest, Flushing
    <3>4. Pending' = Pending \o <<offered + 1>>
      <4>1. /\ Rest \in Seq(Entry) /\ logCh \in Seq(Entry)
            /\ Pending = Rest \o logCh
        BY PendingParts
      <4>2. Rest \o (logCh \o <<offered + 1>>) = (Rest \o logCh) \o <<offered + 1>>
        BY <3>2, <4>1, ConcatAssociative
      <4> QED
        BY <3>3, <4>1, <4>2
    <3>5. Pending' = Append(Pending, offered + 1)
      BY <2>1, <3>4, PendingParts, AppendIsConcat
    <3> QED
      BY <2>1, <2>3, <3>5 DEF Abstract!Next, Abstract!Offer
  <2>4. CASE logCh' = logCh /\ lost' = lost \cup {offered + 1}
    <3>1. Pending' = Pending
      BY <2>1, <2>4 DEF Pending, Flushing
    <3> QED
      BY <2>1, <2>4, <3>1 DEF Abstract!Next, Abstract!Offer
  <2> QED
    BY <1>1, <2>3, <2>4 DEF AsyncLog
<1>2. CASE Receive
  <2> DEFINE b == Append(batch, Head(logCh))
  <2>1. /\ ~Flushing /\ logCh # <<>> /\ logCh' = Tail(logCh)
        /\ UNCHANGED <<offered, written>>
        /\ batch \in Seq(Entry) /\ logCh \in Seq(Entry)
    BY <1>2 DEF Receive, Data, Entry
  <2>2. /\ Head(logCh) \in Entry /\ Tail(logCh) \in Seq(Entry)
        /\ logCh = <<Head(logCh)>> \o Tail(logCh)
    BY <2>1, HeadTailProperties
  <2>3. b \in Seq(Entry) /\ b # <<>> /\ b = batch \o <<Head(logCh)>>
    BY <2>1, <2>2, AppendProperties, AppendIsConcat
  <2>4. Pending = batch \o logCh
    BY <2>1, SubSeqFull DEF Pending
  <2>5. Pending = b \o Tail(logCh)
    <3>1. <<Head(logCh)>> \in Seq(Entry)
      BY <2>2
    <3>2. batch \o (<<Head(logCh)>> \o Tail(logCh)) = (batch \o <<Head(logCh)>>) \o Tail(logCh)
      BY <2>1, <2>2, <3>1, ConcatAssociative
    <3> QED
      BY <2>2, <2>3, <2>4, <3>2
  <2> HIDE DEF b
  <2>6. CASE StartFlush(b)
    BY <2>1, <2>2, <2>3, <2>5, <2>6, FlushStep
  <2>7. CASE batch' = b /\ UNCHANGED <<flushed, expired, lost>>
    <3>1. Pending' = SubSeq(b, 1, Len(b)) \o Tail(logCh)
      BY <2>1, <2>7 DEF Pending, Flushing
    <3> QED
      BY <2>1, <2>3, <2>5, <2>7, <3>1, SubSeqFull
  <2> QED
    BY <1>2, <2>6, <2>7 DEF Receive, b
<1>3. CASE Ticker
  <2>1. /\ ~Flushing /\ batch # <<>> /\ StartFlush(batch) /\ logCh' = logCh
        /\ UNCHANGED <<offered, written>>
        /\ batch \in Seq(Entry) /\ logCh \in Seq(Entry)
    BY <1>3 DEF Ticker, Data, Entry
  <2>2. Pending = batch \o logCh
    BY <2>1, SubSeqFull DEF Pending
  <2> QED
    BY <2>1, <2>2, FlushStep
<1>4. CASE Insert
  <2>1. /\ Flushing /\ Advance /\ logCh' = logCh
        /\ written' = Append(written, Current) /\ UNCHANGED <<offered, lost>>
    BY <1>4 DEF Insert
  <2>2. /\ Current \in Entry /\ Pending = <<Current>> \o Pending'
        /\ Pending' \in Seq(Entry)
    BY <2>1, AdvanceStep
  <2>3. Pending # <<>> /\ Head(Pending) = Current /\ Tail(Pending) = Pending'
    <3>1. <<Current>> \in Seq(Entry) /\ Len(<<Current>>) = 1 /\ <<Current>>[1] = Current
      BY <2>2
    <3>2. /\ Len(Pending) = 1 + Len(Pending') /\ Len(Pending') \in Nat
          /\ Pending[1] = Current
      BY <2>2, <3>1, ConcatProperties, LenProperties
    <3>3. Pending # <<>> /\ Pending \in Seq(Entry)
      BY <3>2, PendingParts, EmptySeq
    <3>4. Head(Pending) = Current
      BY <3>2, <3>3
    <3>5. SubSeq(Pending, 1 + 1, Len(Pending)) = Pending'
      BY <2>2, <3>1, BackPart
    <3>6. Tail(Pending) = SubSeq(Pending, 2, Len(Pending))
      BY <3>3, TailIsSubSeq
    <3> QED
      BY <3>3, <3>4, <3>5, <3>6
  <2> QED
    BY <2>1, <2>3 DEF Abstract!Next, Abstract!Write
<1>5. CASE InsertFails
  <2>1. /\ Flushing /\ Advance /\ logCh' = logCh
        /\ lost' = lost \cup {Current} /\ UNCHANGED <<offered, written>>
    BY <1>5 DEF InsertFails
  <2>2. /\ Current \in Entry /\ Pending = <<Current>> \o Pending'
        /\ Pending' \in Seq(Entry)
    BY <2>1, AdvanceStep
  <2>3. Elements(<<Current>>) = {Current}
    BY DEF Elements
  <2>4. <<Current>> \in Seq(Entry) /\ <<Current>> # <<>>
    BY <2>2
  <2> QED
    BY <2>1, <2>2, <2>3, <2>4, GivingUp
<1>6. CASE FlushDeadline \/ Stop \/ UNCHANGED vars
  BY <1>6 DEF FlushDeadline, Stop, vars, Pending, Flushing
<1> QED
  BY <1>1, <1>2, <1>3, <1>4, <1>5, <1>6 DEF Next, Writer

\* No entry is lost track of, written twice or written out of order
\* (handler.go:484-544).
THEOREM PipelineImplements == Spec => ImplementsLossyLog
<1>1. Init => Abstract!Init
  <2> SUFFICES ASSUME Init PROVE Abstract!Init
    OBVIOUS
  <2>1. Pending = SubSeq(<<>>, 1, 0) \o <<>>
    BY DEF Init, Pending, Flushing
  <2>2. SubSeq(<<>>, 1, 0) = <<>> /\ <<>> \o <<>> = <<>>
    BY SubSeqEmpty
  <2> QED
    BY <2>1, <2>2 DEF Init, Abstract!Init
<1>2. TypeOK /\ Bounded /\ (TypeOK /\ Bounded)' /\ [Next]_vars
        => [Abstract!Next]_Abstract!vars
  <2>1. TypeOK => Data
    BY DEF TypeOK, Data
  <2>2. TypeOK' => Data'
    BY DEF TypeOK, Data
  <2> QED
    BY <2>1, <2>2, PipelineStep DEF Abstract!vars
<1> QED
  BY <1>1, <1>2, PipelineBounded, PTL DEF Spec, ImplementsLossyLog, Abstract!Spec

=============================================================================
