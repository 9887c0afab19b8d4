--------------------------- MODULE DeviceScanProofs ---------------------------
(***************************************************************************)
(* Proofs about DeviceScan, for every number of device indexes, every list *)
(* of features and every set of devices, however long their names and many *)
(* their buttons, and for any number of failed exchanges and strays.       *)
(*                                                                         *)
(* What a step of the scan does depends on how its exchange ended and on   *)
(* what was read.  Exchanged reduces every step but Ask to an Outcome, and *)
(* each invariant is then shown for the functions that use an outcome.     *)
(***************************************************************************)
EXTENDS DeviceScan, SequenceTheorems, TLAPS

LOCAL INSTANCE SequencesExt

-------------------------------------------------------------------------------
(* The invariants.                                                         *)

\* The types of the scan's own variables, and of the others.
ScanType ==
  /\ index \in 1..(LastIndex + 1)
  /\ step \in Steps \cup {"done"}
  /\ progress \in Nat
  /\ step = "feature" => progress < Len(FeatureIds)
  /\ chunks \in 0..MaxChunks
  /\ device \in DeviceType
  /\ devices \in Seq([index : Indexes, kind : DeviceType])
  /\ heap \subseteq Indexes \X Parts

RestType ==
  /\ busy \in BOOLEAN
  /\ backlog \in Seq([index : Indexes, step : Steps, arg : Nat])
  /\ strays \in 0..MaxStrays
  /\ hardware \in [Indexes -> Kinds \cup {NoDevice}]
  /\ errors \in 0..MaxErrors
  /\ misled \subseteq Indexes

\* Until a stray is handed out, the only reply to come is the one waited for.
InOrder ==
  /\ busy => step # "done"
  /\ strays = 0 => backlog = IF busy THEN <<Question>> ELSE <<>>

Holds(p) == <<index, p>> \in heap

\* What the device under construction has been given at each step.
Construction ==
  /\ step = "done" <=> index = LastIndex + 1
  /\ step = "feature" =>
       \A n \in 1..progress : FeatureIds[n] = "root" => "root" \in device.features
  /\ step \notin {"feature", "done"} => "root" \in device.features
  /\ step # "button" => device.buttons = <<>> /\ device.count = 0
  /\ step = "button" => Len(device.buttons) = progress /\ progress < device.count
  /\ step = "button" /\ "count" \notin device.unread =>
       /\ device.count < IndexRange
       /\ \A n \in DOMAIN device.buttons : device.buttons[n].round = n - 1

\* Which of its blocks are allocated: all but "features" exactly when this says.
Allocated ==
  /\ \A i \in Indexes, p \in Parts : i > index => <<i, p>> \notin heap
  /\ Holds("device") <=> step # "done"
  /\ "root" \in device.features => Holds("features")
  /\ Holds("protocol") <=> step \in {"type", "length", "name", "count", "button"}
  /\ Holds("name") <=> step \in {"name", "count", "button"}
  /\ Holds("buttons") <=> step = "button"
  /\ Holds("button") <=> device.buttons # <<>>

Behind == \A n \in DOMAIN devices : devices[n].index < index

ScanInv ==
  /\ ScanType
  /\ Construction
  /\ Allocated
  /\ Behind
  /\ CollectedOwnsAll
  /\ OnlyTheseLeak

FeaturesOf(k) == IF k = NoDevice THEN {} ELSE k.features

\* What a device knows comes from the hardware at its index.
FirstButtons(s, k) ==
  Len(s) <= Len(k.buttons) /\ \A n \in DOMAIN s : s[n] = Made(k.buttons)[n]

Sound(d, k) ==
  /\ k # NoDevice
  /\ d.features \subseteq k.features
  /\ FirstButtons(d.buttons, k)
  /\ "count" \notin d.unread => d.buttons = Made(k.buttons)

CollectedSound ==
  \A n \in DOMAIN devices :
    devices[n].index \notin misled => Sound(devices[n].kind, hardware[devices[n].index])

DeviceSound ==
  index \notin misled =>
    /\ step # "done" => device.features \subseteq FeaturesOf(hardware[index])
    /\ step = "button" =>
         /\ FirstButtons(device.buttons, hardware[index])
         /\ "count" \notin device.unread => device.count = Len(hardware[index].buttons)

MixInv == CollectedSound /\ DeviceSound

\* Until a stray is handed out, only a device that is there can be described.
There ==
  /\ device.features # {} => hardware[index] # NoDevice
  /\ \A n \in DOMAIN devices : hardware[devices[n].index] # NoDevice

ThereInv == strays = 0 => There

\* Nothing has gone wrong and no device is asked for a feature it lacks.
Clean ==
  /\ errors = 0
  /\ strays = 0
  /\ \A i \in Indexes : Predictable(hardware[i])

\* The indexes behind the scan have been given their due, and the device under
\* construction is what has been asked of the hardware so far.
CollectedClean ==
  /\ misled = {}
  /\ \A m, n \in DOMAIN devices : m < n => devices[m].index < devices[n].index
  /\ \A n \in DOMAIN devices :
       /\ Detectable(hardware[devices[n].index])
       /\ devices[n] = Description(devices[n].index)
  /\ \A i \in 1..(index - 1) : Detectable(hardware[i]) => Collected(i)

DeviceClean ==
  /\ device.unread = {}
  /\ step = "feature" =>
       device.features = FeaturesOf(hardware[index]) \cap {FeatureIds[n] : n \in 1..progress}
  /\ step \notin {"feature", "done"} => device.features = FeaturesOf(hardware[index])
  /\ step \in {"length", "name", "count", "button"} =>
       device.type = "mouse" /\ hardware[index].type = "mouse"
  /\ step = "button" => device.count = Len(hardware[index].buttons)

CleanInv == Clean => CollectedClean /\ DeviceClean
-------------------------------------------------------------------------------
(* How an exchange ends.                                                   *)

\* What Use is given: how the exchange ended, and a reading.  Data is the truth about
\* the device or misleads the scan; as long as replies come in order there is none
\* from an index at which nothing is paired; and as long as nothing fails, only what
\* a device does not understand ends in an error or misleads.
Outcome(how, v) ==
  /\ how \in {"refused", "error", "data"}
  /\ v \in Readings(how)
  /\ strays' = 0 => strays = 0
  /\ errors' = 0 => errors = 0
  /\ misled' = misled \/ (how = "data" /\ misled' = misled \cup {index})
  /\ how = "data" /\ index \notin misled' => Understood /\ v = Truth(hardware[index])
  /\ strays' = 0 /\ how = "data" => hardware[index] # NoDevice
  /\ strays' = 0 /\ errors' = 0 /\ index \notin misled =>
       /\ how # "refused"
       /\ how = "error" \/ index \in misled' => ~Understood

LEMMA ByteFacts ==
  ASSUME progress \in Nat
  PROVE  /\ IndexRange \in Nat \ {0} /\ IndexRange <= MaxButtons
         /\ Byte \in Nat /\ Byte < IndexRange
         /\ progress < IndexRange => Byte = progress
<1>1. IndexRange \in Nat \ {0} /\ IndexRange <= MaxButtons /\ MaxButtons \in Nat
  BY ScanAssumption
<1> QED
  BY <1>1 DEF Byte

LEMMA ReadingsFacts ==
  ASSUME NEW how
  PROVE  /\ step = "feature" => Readings(how) = BOOLEAN
         /\ step = "type" => Readings(how) = {"mouse", "other"}
         /\ step = "length" => Readings(how) = {Endless} \cup 1..MaxChunks
         /\ step = "count" => Readings(how) = (IF how = "data" THEN 0..(IndexRange - 1) ELSE 0..MaxButtons)
         /\ step = "button" => Readings(how) = ButtonIds
         /\ step = "protocol" => Readings(how) = {TRUE}
         /\ step = "name" => Readings(how) = {TRUE}
<1>1. step = "feature" => Readings(how) = BOOLEAN
  BY DEF Readings
<1>2. step = "type" => Readings(how) = {"mouse", "other"}
  BY DEF Readings
<1>3. step = "length" => Readings(how) = {Endless} \cup 1..MaxChunks
  BY DEF Readings
<1>4. step = "count" => Readings(how) = (IF how = "data" THEN 0..(IndexRange - 1) ELSE 0..MaxButtons)
  BY DEF Readings
<1>5. step = "button" => Readings(how) = ButtonIds
  BY DEF Readings
<1>6. step = "protocol" => Readings(how) = {TRUE}
  BY DEF Readings
<1>7. step = "name" => Readings(how) = {TRUE}
  BY DEF Readings
<1> QED
  BY <1>1, <1>2, <1>3, <1>4, <1>5, <1>6, <1>7

LEMMA TruthFacts ==
  ASSUME NEW k
  PROVE  /\ step = "feature" => Truth(k) = (FeatureIds[progress + 1] \in k.features)
         /\ step = "type" => Truth(k) = k.type
         /\ step = "length" => Truth(k) = k.chunks
         /\ step = "count" => Truth(k) = Len(k.buttons)
         /\ step = "button" /\ Byte < Len(k.buttons) => Truth(k) = k.buttons[Byte + 1]
         /\ step \in {"protocol", "name"} => Truth(k) = TRUE
BY DEF Truth

LEMMA IndexInRange ==
  ASSUME ScanType, Construction, step # "done"
  PROVE  index \in Indexes
BY ScanAssumption DEF ScanType, Construction, Indexes

LEMMA TruthIsAReading ==
  ASSUME ScanType, RestType, index \in Indexes, step # "done", Understood
  PROVE  Truth(hardware[index]) \in Readings("data")
<1> DEFINE k == hardware[index]
<1>1. k \in Kinds
  BY DEF RestType, Understood
<1>2. k \in KindType /\ Len(k.buttons) < IndexRange
  BY <1>1, ScanAssumption
<1>3. /\ k.type \in {"mouse", "other"}
      /\ k.chunks \in {Endless} \cup 1..MaxChunks
      /\ k.buttons \in Seq(ButtonIds)
  BY <1>2 DEF KindType
<1>4. Len(k.buttons) \in 0..(IndexRange - 1)
  BY <1>2, <1>3, LenProperties, ScanAssumption
<1> HIDE DEF k
<1>5. CASE step = "feature"
  <2>1. Truth(k) = (FeatureIds[progress + 1] \in k.features)
    BY <1>5, TruthFacts
  <2>2. (FeatureIds[progress + 1] \in k.features) \in BOOLEAN
    OBVIOUS
  <2> QED
    BY <1>5, <2>1, <2>2, ReadingsFacts DEF k
<1>6. CASE step = "type"
  BY <1>6, <1>3, ReadingsFacts, TruthFacts DEF k
<1>7. CASE step = "length"
  BY <1>7, <1>3, ReadingsFacts, TruthFacts DEF k
<1>8. CASE step = "count"
  BY <1>8, <1>4, ReadingsFacts, TruthFacts DEF k
<1>9. CASE step = "button"
  <2>1. Byte \in Nat /\ Byte < Len(k.buttons)
    BY <1>9, ByteFacts DEF Understood, ScanType, k
  <2>2. k.buttons[Byte + 1] \in ButtonIds
    BY <2>1, <1>3, ElementOfSeq
  <2> QED
    BY <1>9, <2>1, <2>2, ReadingsFacts, TruthFacts DEF k
<1>10. CASE step \in {"protocol", "name"}
  BY <1>10, ReadingsFacts, TruthFacts
<1> QED
  BY <1>5, <1>6, <1>7, <1>8, <1>9, <1>10 DEF ScanType, Steps

\* How each exchange changes the number of strays.
LEMMA Asked ==
  ASSUME RestType, RR!Call(Question), Question \in [index : Indexes, step : Steps, arg : Nat]
  PROVE  /\ strays' = strays
         /\ busy' \in BOOLEAN
         /\ backlog' \in Seq([index : Indexes, step : Steps, arg : Nat])
<1> DEFINE Q == [index : Indexes, step : Steps, arg : Nat]
<1>1. backlog \in Seq(Q) /\ Question \in Q
  BY DEF RestType
<1>2. busy = FALSE /\ busy' = TRUE /\ backlog' = Append(backlog, Question)
  BY DEF RR!Call, RestType
<1> HIDE DEF Q
<1>3. backlog' \in Seq(Q) /\ Len(backlog') = Len(backlog) + 1 /\ Len(backlog) \in Nat
  BY <1>1, <1>2, AppendProperties, LenProperties
<1>4. strays = Len(backlog) - 0 /\ strays' = Len(backlog') - 1
  BY <1>2 DEF strays
<1> QED
  BY <1>2, <1>3, <1>4 DEF Q

LEMMA Received ==
  ASSUME RestType, RR!Reply \/ RR!Stray \/ RR!Refuse
  PROVE  /\ busy' = FALSE
         /\ backlog' \in Seq([index : Indexes, step : Steps, arg : Nat])
         /\ RR!Stray => strays' = strays + 1
         /\ ~RR!Stray => strays' = strays
         /\ strays' = Len(backlog')
<1> DEFINE Q == [index : Indexes, step : Steps, arg : Nat]
<1>1. backlog \in Seq(Q) /\ busy \in BOOLEAN /\ strays \in 0..MaxStrays
  BY DEF RestType
<1> HIDE DEF Q
<1>2. Len(backlog) \in Nat
  BY <1>1, LenProperties
<1>3. CASE RR!Reply /\ ~RR!Stray
  <2>1. busy = TRUE /\ busy' = FALSE /\ backlog # <<>> /\ backlog' = Tail(backlog)
    BY <1>1, <1>3 DEF RR!Reply
  <2>2. backlog' \in Seq(Q) /\ Len(backlog') = Len(backlog) - 1
    BY <1>1, <2>1, HeadTailProperties
  <2>3. strays = Len(backlog) - 1 /\ strays' = Len(backlog') - 0
    BY <2>1 DEF strays
  <2>4. strays' = strays /\ strays' = Len(backlog')
    BY <1>2, <2>2, <2>3
  <2> QED
    BY <1>3, <2>1, <2>2, <2>4 DEF Q
<1>4. CASE RR!Stray
  <2>1. busy = TRUE /\ busy' = FALSE /\ backlog' = backlog
    BY <1>1, <1>4 DEF RR!Stray
  <2>3. strays = Len(backlog) - 1 /\ strays' = Len(backlog) - 0
    BY <2>1 DEF strays
  <2> QED
    BY <1>1, <1>2, <1>4, <2>1, <2>3 DEF Q
<1>5. CASE RR!Refuse /\ ~RR!Stray
  <2>1. busy = FALSE /\ busy' = FALSE /\ backlog' = backlog
    BY <1>1, <1>5 DEF RR!Refuse
  <2>3. strays = Len(backlog) - 0 /\ strays' = Len(backlog) - 0
    BY <2>1 DEF strays
  <2> QED
    BY <1>1, <1>2, <1>5, <2>1, <2>3 DEF Q
<1> QED
  BY <1>3, <1>4, <1>5

LEMMA Exchanged ==
  ASSUME ScanType, Construction, RestType, InOrder, WriteFails \/ Answered
  PROVE  \E how, v : Outcome(how, v) /\ Use(how, v) /\ UNCHANGED hardware
<1>1. errors \in 0..MaxErrors /\ strays \in 0..MaxStrays /\ busy \in BOOLEAN
  BY DEF RestType
<1>2. CASE WriteFails
  <2>1. PICK v \in Readings("refused") : Use("refused", v)
    BY <1>2 DEF WriteFails
  <2>2. RR!Refuse /\ errors' = errors + 1 /\ UNCHANGED <<hardware, misled>>
    BY <1>2 DEF WriteFails
  <2>3. strays' = 0 => strays = 0
    BY <1>1, <2>2, Received
  <2>4. errors' # 0
    BY <1>1, <2>2
  <2>5. Outcome("refused", v)
    BY <2>2, <2>3, <2>4 DEF Outcome
  <2> QED
    BY <2>1, <2>2, <2>5
<1>3. CASE OwnReply
  <2>1. /\ RR!Reply
        /\ Understood
        /\ Use("data", Truth(hardware[index]))
        /\ UNCHANGED <<errors, misled, hardware>>
    BY <1>3 DEF OwnReply, history
  <2>2. strays' = 0 => strays = 0
    BY <1>1, <2>1, Received
  <2>3. step # "done" /\ index \in Indexes
    BY <2>1, IndexInRange DEF Use
  <2>4. Truth(hardware[index]) \in Readings("data")
    BY <2>1, <2>3, TruthIsAReading
  <2>5. hardware[index] # NoDevice
    BY <2>1 DEF Understood
  <2>6. Outcome("data", Truth(hardware[index]))
    BY <2>1, <2>2, <2>4, <2>5 DEF Outcome
  <2> QED
    BY <2>1, <2>6
<1>4. CASE NotUnderstood
  <2>1. PICK how \in {"error"} \cup (IF hardware[index] = NoDevice THEN {} ELSE {"data"}) :
          (\E v \in Readings(how) : Use(how, v)) /\ Misread(how)
    BY <1>4 DEF NotUnderstood
  <2>2. PICK v \in Readings(how) : Use(how, v)
    BY <2>1
  <2>3. /\ RR!Reply /\ UNCHANGED <<errors, hardware>>
        /\ ~Understood \/ index \in misled
    BY <1>4 DEF NotUnderstood
  <2>4. strays' = 0 => strays = 0
    BY <1>1, <2>3, Received
  <2>5. /\ how = "data" => misled' = misled \cup {index}
        /\ how # "data" => misled' = misled
    BY <2>1 DEF Misread
  <2>6. /\ how \in {"error", "data"}
        /\ how = "data" => hardware[index] # NoDevice
    BY <2>1
  <2>7. Outcome(how, v)
    BY <2>3, <2>4, <2>5, <2>6 DEF Outcome
  <2> QED
    BY <2>2, <2>3, <2>7
<1>5. CASE ErrorReply
  <2>1. PICK how \in {"error", "data"} :
          (\E v \in Readings(how) : Use(how, v)) /\ Misread(how)
    BY <1>5 DEF ErrorReply
  <2>2. PICK v \in Readings(how) : Use(how, v)
    BY <2>1
  <2>3. RR!Reply /\ Understood /\ errors' = errors + 1 /\ UNCHANGED hardware
    BY <1>5 DEF ErrorReply
  <2>4. strays' = 0 => strays = 0
    BY <1>1, <2>3, Received
  <2>5. errors' # 0
    BY <1>1, <2>3
  <2>6. /\ how = "data" => misled' = misled \cup {index}
        /\ how # "data" => misled' = misled
    BY <2>1 DEF Misread
  <2>7. hardware[index] # NoDevice
    BY <2>3 DEF Understood
  <2>8. Outcome(how, v)
    BY <2>1, <2>4, <2>5, <2>6, <2>7 DEF Outcome
  <2> QED
    BY <2>2, <2>3, <2>8
<1>6. CASE StaleReply
  <2>1. PICK how \in {"error", "data"} :
          (\E v \in Readings(how) : Use(how, v)) /\ Misread(how)
    BY <1>6 DEF StaleReply
  <2>2. PICK v \in Readings(how) : Use(how, v)
    BY <2>1
  <2>3. RR!Reply /\ answer' # Question /\ UNCHANGED <<errors, hardware>>
    BY <1>6 DEF StaleReply
  <2>4. strays' = strays
    <3>1. CASE ~RR!Stray
      BY <2>3, <3>1, Received
    <3>2. CASE RR!Stray
      <4>1. backlog' = backlog /\ backlog # <<>> /\ backlog' = Tail(backlog)
        BY <2>3, <3>2 DEF RR!Reply, RR!Stray
      <4>2. backlog \in Seq([index : Indexes, step : Steps, arg : Nat])
        BY DEF RestType
      <4>3. Len(backlog) \in Nat /\ Len(backlog') = Len(backlog) - 1
        BY <4>1, <4>2, HeadTailProperties, LenProperties
      <4> QED
        BY <4>1, <4>3
    <3> QED
      BY <3>1, <3>2
  <2>5. strays # 0
    <3>1. SUFFICES ASSUME strays = 0 PROVE FALSE
      OBVIOUS
    <3>2. busy /\ answer' = Head(backlog)
      BY <2>3 DEF RR!Reply
    <3>3. backlog = <<Question>>
      BY <3>1, <3>2 DEF InOrder
    <3> QED
      BY <2>3, <3>2, <3>3
  <2>6. /\ how = "data" => misled' = misled \cup {index}
        /\ how # "data" => misled' = misled
    BY <2>1 DEF Misread
  <2>7. Outcome(how, v)
    BY <2>1, <2>3, <2>4, <2>5, <2>6 DEF Outcome
  <2> QED
    BY <2>2, <2>3, <2>7
<1>7. CASE StrayReport
  <2>1. PICK how \in {"error", "data"} :
          (\E v \in Readings(how) : Use(how, v)) /\ Misread(how)
    BY <1>7 DEF StrayReport
  <2>2. PICK v \in Readings(how) : Use(how, v)
    BY <2>1
  <2>3. RR!Stray /\ UNCHANGED <<errors, hardware>>
    BY <1>7 DEF StrayReport
  <2>4. strays' # 0
    BY <1>1, <2>3, Received
  <2>5. /\ how = "data" => misled' = misled \cup {index}
        /\ how # "data" => misled' = misled
    BY <2>1 DEF Misread
  <2>6. Outcome(how, v)
    BY <2>1, <2>3, <2>4, <2>5 DEF Outcome
  <2> QED
    BY <2>2, <2>3, <2>6
<1> QED
  BY <1>2, <1>3, <1>4, <1>5, <1>6, <1>7 DEF Answered

LEMMA RestStep ==
  ASSUME ScanType, Construction, RestType, InOrder, [Next]_vars
  PROVE  RestType' /\ InOrder'
<1> USE DEF RestType, InOrder
<1>1. errors \in 0..MaxErrors /\ strays \in 0..MaxStrays /\ busy \in BOOLEAN
  OBVIOUS
<1>2. CASE Ask
  <2>1. step # "done" /\ RR!Call(Question) /\ UNCHANGED <<errors, misled, scan, hardware>>
    BY <1>2 DEF Ask, history
  <2>2. index \in Indexes /\ step \in Steps /\ progress + 1 \in Nat /\ Byte + 1 \in Nat
    BY <2>1, IndexInRange, ByteFacts DEF ScanType
  <2>3. Question \in [index : Indexes, step : Steps, arg : Nat]
    BY <2>2 DEF Question
  <2>4. /\ strays' = strays
        /\ busy' \in BOOLEAN
        /\ backlog' \in Seq([index : Indexes, step : Steps, arg : Nat])
    BY <2>1, <2>3, Asked
  <2>5. Question' = Question
    BY <2>1 DEF Question, Byte, scan
  <2>6. strays' = 0 => backlog' = IF busy' THEN <<Question'>> ELSE <<>>
    <3>1. busy' = TRUE /\ busy = FALSE /\ backlog' = Append(backlog, Question)
      BY <2>1 DEF RR!Call, RestType
    <3>2. strays' = 0 => backlog = <<>>
      BY <2>4, <3>1
    <3> QED
      BY <2>5, <3>1, <3>2
  <2>7. busy' => step' # "done"
    BY <2>1 DEF scan
  <2>8. /\ hardware' \in [Indexes -> Kinds \cup {NoDevice}]
        /\ errors' \in 0..MaxErrors /\ misled' \subseteq Indexes
    BY <2>1
  <2> QED
    BY <1>1, <2>4, <2>6, <2>7, <2>8
<1>3. CASE WriteFails \/ Answered
  <2>1. RR!Reply \/ RR!Stray \/ RR!Refuse
    BY <1>3 DEF WriteFails, Answered, OwnReply, NotUnderstood, ErrorReply, StaleReply,
                StrayReport
  <2>2. /\ busy' = FALSE
        /\ backlog' \in Seq([index : Indexes, step : Steps, arg : Nat])
        /\ RR!Stray => strays' = strays + 1
        /\ ~RR!Stray => strays' = strays
        /\ strays' = Len(backlog')
    BY <2>1, Received
  <2>3. RR!Stray => strays < MaxStrays
    BY <1>3 DEF WriteFails, Answered, OwnReply, NotUnderstood, ErrorReply, StaleReply,
                StrayReport, RR!Reply, RR!Refuse, RR!Stray
  <2>4. strays' \in 0..MaxStrays
    BY <1>1, <2>2, <2>3, ScanAssumption
  <2>5. strays' = 0 => backlog' = <<>>
    BY <2>2, EmptySeq
  <2>6. hardware' = hardware
    BY <1>3 DEF WriteFails, Answered, OwnReply, NotUnderstood, ErrorReply, StaleReply,
                StrayReport
  <2>7. errors' = errors \/ (errors < MaxErrors /\ errors' = errors + 1)
    BY <1>3 DEF WriteFails, Answered, OwnReply, NotUnderstood, ErrorReply, StaleReply,
                StrayReport, history
  <2>8. errors' \in 0..MaxErrors
    BY <1>1, <2>7, ScanAssumption
  <2>9. misled' \subseteq Indexes
    <3>1. PICK how, v : Outcome(how, v) /\ Use(how, v)
      BY <1>3, Exchanged
    <3>2. index \in Indexes
      BY <3>1, IndexInRange DEF Use
    <3> QED
      BY <3>1, <3>2 DEF Outcome
  <2> QED
    BY <2>2, <2>4, <2>5, <2>6, <2>8, <2>9
<1>4. CASE UNCHANGED vars
  BY <1>4 DEF vars, channel, scan, history, strays, Question, Byte
<1> QED
  BY <1>2, <1>3, <1>4 DEF Next

-------------------------------------------------------------------------------
(* The blocks of a scan.                                                   *)

LEMMA FeatureIdsFacts ==
  /\ Len(FeatureIds) \in Nat
  /\ Len(FeatureIds) > 0
  /\ DOMAIN FeatureIds = 1..Len(FeatureIds)
  /\ \E n \in 1..Len(FeatureIds) : FeatureIds[n] = "root"
<1>1. FeatureIds \in Seq(STRING)
  BY ScanAssumption
<1>2. Len(FeatureIds) \in Nat /\ DOMAIN FeatureIds = 1..Len(FeatureIds)
  BY <1>1, LenProperties
<1>3. \E n \in DOMAIN FeatureIds : FeatureIds[n] = "root"
  BY ScanAssumption DEF Features
<1> QED
  BY <1>2, <1>3

ButtonType == [cid : ButtonIds, round : Nat]

LEMMA StoredFacts ==
  ASSUME NEW S, NEW buttons \in Seq(S), NEW b \in S, progress \in Nat, Len(buttons) = progress
  PROVE  /\ Stored(buttons, b) \in Seq(S)
         /\ Len(Stored(buttons, b)) = progress + 1
         /\ Stored(buttons, b) # <<>>
         /\ DOMAIN Stored(buttons, b) = 1..(progress + 1)
         /\ progress < IndexRange =>
              /\ \A n \in 1..progress : Stored(buttons, b)[n] = buttons[n]
              /\ Stored(buttons, b)[progress + 1] = b
<1> DEFINE t == Stored(buttons, b)
<1>1. DOMAIN buttons = 1..progress /\ \A n \in 1..progress : buttons[n] \in S
  BY LenProperties, ElementOfSeq
<1>2. \A n \in 1..(progress + 1) : n # progress + 1 => n \in 1..progress
  OBVIOUS
<1>3. t \in [1..(progress + 1) -> S]
  BY <1>1, <1>2 DEF Stored
<1>4. t \in Seq(S) /\ progress + 1 \in Nat
  BY <1>3, SeqDef
<1>5. DOMAIN t = 1..(progress + 1)
  BY <1>3
<1>6. Len(t) = progress + 1
  BY <1>4, <1>5, LenProperties
<1>7. t # <<>>
  BY <1>4, <1>6, EmptySeq
<1>8. ASSUME progress < IndexRange
      PROVE  /\ \A n \in 1..progress : t[n] = buttons[n]
             /\ t[progress + 1] = b
  <2>1. Byte = progress
    BY <1>8, ByteFacts
  <2> QED
    BY <2>1 DEF Stored
<1> HIDE DEF t
<1> QED
  BY <1>4, <1>5, <1>6, <1>7, <1>8 DEF t

LEMMA BlankType == Blank \in DeviceType
<1>1. Blank.buttons \in Seq([cid : ButtonIds, round : Nat])
  BY EmptySeq DEF Blank
<1>2. 0 \in 0..MaxButtons
  BY ScanAssumption
<1> QED
  BY <1>1, <1>2 DEF Blank, DeviceType

LEMMA CollectedType ==
  ASSUME ScanType, NEW n \in DOMAIN devices
  PROVE  devices[n].index \in Indexes /\ devices[n].kind \in DeviceType
<1>1. devices \in Seq([index : Indexes, kind : DeviceType])
  BY DEF ScanType
<1>2. devices[n] \in [index : Indexes, kind : DeviceType]
  BY <1>1, LenProperties, ElementOfSeq
<1> QED
  BY <1>2

\* Where the scan stands once a device has been dealt with.
LEMMA Left ==
  ASSUME ScanType, Construction, step # "done",
         NEW blocks, Leave(blocks),
         blocks \subseteq Indexes \X Parts,
         \A i \in Indexes, p \in Parts : i > index => <<i, p>> \notin blocks
  PROVE  /\ index' = index + 1
         /\ Construction'
         /\ Allocated'
         /\ index' \in 1..(LastIndex + 1)
         /\ step' \in Steps \cup {"done"}
         /\ progress' \in Nat
         /\ step' = "feature" => progress' < Len(FeatureIds)
         /\ chunks' \in 0..MaxChunks
         /\ device' \in DeviceType
         /\ heap' \subseteq Indexes \X Parts
         /\ \A i \in Indexes, p \in Parts : i <= index => (<<i, p>> \in heap' <=> <<i, p>> \in blocks)
<1>1. index \in Indexes /\ index \in 1..LastIndex /\ LastIndex \in Nat
  BY IndexInRange, ScanAssumption DEF Indexes
<1>2. /\ index' = index + 1
      /\ index < LastIndex => step' = "feature"
      /\ ~(index < LastIndex) => step' = "done"
      /\ progress' = 0
      /\ chunks' = 0
      /\ device' = Blank
      /\ index < LastIndex => heap' = blocks \cup {<<index + 1, "device">>}
      /\ ~(index < LastIndex) => heap' = blocks
  BY DEF Leave, LeaveFor
<1>3. Blank.features = {} /\ Blank.buttons = <<>> /\ Blank.count = 0
  BY DEF Blank
<1>4. "device" \in Parts /\ "feature" \in Steps
  BY DEF Parts, Steps
<1>5. index < LastIndex => index + 1 \in Indexes
  BY <1>1 DEF Indexes
<1>6. heap' \subseteq Indexes \X Parts
  BY <1>2, <1>4, <1>5
<1>7. ASSUME NEW i \in Indexes, NEW p \in Parts
      PROVE  /\ i <= index => (<<i, p>> \in heap' <=> <<i, p>> \in blocks)
             /\ i > index + 1 => <<i, p>> \notin heap'
             /\ i = index + 1 => (<<i, p>> \in heap' <=> p = "device" /\ index < LastIndex)
  <2>1. i \in Nat /\ index \in Nat
    BY <1>1 DEF Indexes
  <2>2. <<i, p>> \in heap' <=>
          <<i, p>> \in blocks \/ (index < LastIndex /\ i = index + 1 /\ p = "device")
    BY <1>2
  <2>3. i > index => <<i, p>> \notin blocks
    OBVIOUS
  <2> QED
    BY <2>1, <2>2, <2>3
<1>8. step' = "done" <=> index' = LastIndex + 1
  BY <1>1, <1>2
<1>9. Construction'
  <2>1. step' = "feature" \/ step' = "done"
    BY <1>2
  <2>2. device'.buttons = <<>> /\ device'.count = 0
    BY <1>2, <1>3
  <2>3. \A n \in 1..progress' : FALSE
    BY <1>2
  <2> QED
    BY <1>8, <2>1, <2>2, <2>3 DEF Construction
<1>10. ASSUME NEW p \in Parts
       PROVE  Holds(p)' <=> p = "device" /\ step' = "feature"
  <2>1. CASE index < LastIndex
    BY <2>1, <1>2, <1>5, <1>7 DEF Holds
  <2>2. CASE ~(index < LastIndex)
    <3>1. index + 1 \notin Indexes
      BY <1>1, <2>2 DEF Indexes
    <3> QED
      BY <3>1, <2>2, <1>2, <1>6 DEF Holds
  <2> QED
    BY <2>1, <2>2
<1>11. Allocated'
  <2>1. /\ Holds("device")' <=> step' # "done"
        /\ ~Holds("protocol")' /\ ~Holds("name")' /\ ~Holds("buttons")' /\ ~Holds("button")'
    BY <1>2, <1>10 DEF Parts
  <2>2. device'.features = {} /\ device'.buttons = <<>>
    BY <1>2, <1>3
  <2>3. \A i \in Indexes, p \in Parts : i > index' => <<i, p>> \notin heap'
    BY <1>2, <1>7
  <2>4. step' = "feature" \/ step' = "done"
    BY <1>2
  <2> QED
    BY <2>1, <2>2, <2>3, <2>4 DEF Allocated
<1>12. /\ index' \in 1..(LastIndex + 1)
       /\ step' \in Steps \cup {"done"}
       /\ progress' \in Nat
       /\ chunks' \in 0..MaxChunks
       /\ device' \in DeviceType
       /\ step' = "feature" => progress' < Len(FeatureIds)
  BY <1>1, <1>2, <1>4, BlankType, FeatureIdsFacts, ScanAssumption
<1> QED
  BY <1>2, <1>6, <1>7, <1>9, <1>11, <1>12

\* get_device returning NULL: what is not freed of the device is in the list.
LEMMA AbandonKeeps ==
  ASSUME ScanInv, step # "done", NEW parts \in SUBSET Parts, Abandon(parts),
         \A p \in Parts : Holds(p) => p \in parts \cup {"device", "features", "name", "button"}
  PROVE  ScanInv'
<1> DEFINE blocks == heap \ Blocks(parts \cup {"device"})
<1>1. Leave(blocks) /\ devices' = devices
  BY DEF Abandon
<1>2. index \in Indexes /\ index \in Nat /\ LastIndex \in Nat
  BY IndexInRange, ScanAssumption DEF ScanInv, Indexes
<1>3. \A i, p : <<i, p>> \in blocks <=>
        <<i, p>> \in heap /\ ~(i = index /\ p \in parts \cup {"device"})
  BY DEF Blocks
<1>4. /\ blocks \subseteq Indexes \X Parts
      /\ \A i \in Indexes, p \in Parts : i > index => <<i, p>> \notin blocks
  BY <1>3 DEF ScanInv, ScanType, Allocated
<1> HIDE DEF blocks
<1>5. /\ index' = index + 1
      /\ Construction'
      /\ Allocated'
      /\ index' \in 1..(LastIndex + 1)
      /\ step' \in Steps \cup {"done"}
      /\ progress' \in Nat
      /\ step' = "feature" => progress' < Len(FeatureIds)
      /\ chunks' \in 0..MaxChunks
      /\ device' \in DeviceType
      /\ heap' \subseteq Indexes \X Parts
      /\ \A i \in Indexes, p \in Parts : i <= index => (<<i, p>> \in heap' <=> <<i, p>> \in blocks)
  BY <1>1, <1>4, Left DEF ScanInv
<1>6. ScanType'
  BY <1>1, <1>5 DEF ScanInv, ScanType
<1>7. \A n \in DOMAIN devices : devices[n].index \in Indexes /\ devices[n].index < index
  BY CollectedType DEF ScanInv, Behind
<1>8. Behind'
  BY <1>1, <1>2, <1>5, <1>7 DEF Behind, Indexes
<1>9. ASSUME NEW i \in Indexes, i < index, NEW p \in Parts
      PROVE  <<i, p>> \in heap' <=> <<i, p>> \in heap
  BY <1>2, <1>3, <1>5, <1>9 DEF Indexes
<1>10. CollectedOwnsAll'
  <2>1. SUFFICES ASSUME NEW n \in DOMAIN devices
                 PROVE  LET d == devices[n].kind
                            i == devices[n].index
                        IN  /\ {<<i, p>> : p \in Parts \ {"button"}} \subseteq heap'
                            /\ d.count = Len(d.buttons)
                            /\ d.buttons # <<>> => <<i, "button">> \in heap'
                            /\ "count" \notin d.unread =>
                                 \A c, e \in DOMAIN d.buttons :
                                   d.buttons[c] = d.buttons[e] => c = e
    BY <1>1 DEF CollectedOwnsAll
  <2>2. "button" \in Parts
    BY DEF Parts
  <2> QED
    BY <1>7, <1>9, <2>2 DEF ScanInv, CollectedOwnsAll
<1>11. OnlyTheseLeak'
  <2>1. SUFFICES ASSUME NEW i \in 1..index
                 PROVE  Collected(i) \/ {p \in Parts : <<i, p>> \in heap'}
                                           \subseteq {"features", "name", "button"}
    BY <1>1, <1>2, <1>5 DEF OnlyTheseLeak, Collected
  <2>2. i \in Indexes
    BY <1>2 DEF Indexes
  <2>3. CASE i < index
    <3>1. {p \in Parts : <<i, p>> \in heap'} = {p \in Parts : <<i, p>> \in heap}
      BY <1>9, <2>2, <2>3
    <3> QED
      BY <1>2, <2>3, <3>1 DEF ScanInv, OnlyTheseLeak
  <2>4. CASE i = index
    BY <1>2, <1>3, <1>5, <2>4 DEF Holds
  <2> QED
    BY <1>2, <2>3, <2>4
<1> QED
  BY <1>5, <1>6, <1>8, <1>10, <1>11 DEF ScanInv

\* get_device returning a device: all that slavery_device_free frees is there.
LEMMA PublishKeeps ==
  ASSUME ScanInv, step # "done", NEW d \in DeviceType, NEW part \in Parts,
         Publish(d, Allocate(part)),
         \A p \in Parts \ {"button"} : p = part \/ Holds(p),
         d.count = Len(d.buttons),
         d.buttons # <<>> => part = "button" \/ Holds("button"),
         "count" \notin d.unread =>
           \A n \in DOMAIN d.buttons : d.buttons[n].round = n - 1
  PROVE  ScanInv'
<1> DEFINE blocks == heap \cup {<<index, part>>}
           new == [index |-> index, kind |-> d]
           Entries == [index : Indexes, kind : DeviceType]
<1>1. Leave(blocks) /\ devices' = Append(devices, new)
  BY DEF Publish, Allocate
<1>2. index \in Indexes /\ index \in Nat /\ LastIndex \in Nat
  BY IndexInRange, ScanAssumption DEF ScanInv, Indexes
<1>3. \A i, p : <<i, p>> \in blocks <=> <<i, p>> \in heap \/ (i = index /\ p = part)
  OBVIOUS
<1>4. /\ blocks \subseteq Indexes \X Parts
      /\ \A i \in Indexes, p \in Parts : i > index => <<i, p>> \notin blocks
  BY <1>2, <1>3 DEF ScanInv, ScanType, Allocated
<1>5. devices \in Seq(Entries) /\ new \in Entries
  BY <1>2 DEF ScanInv, ScanType
<1>a. new.index = index /\ new.kind = d
  OBVIOUS
<1> HIDE DEF blocks, new, Entries
<1>6. /\ index' = index + 1
      /\ Construction'
      /\ Allocated'
      /\ index' \in 1..(LastIndex + 1)
      /\ step' \in Steps \cup {"done"}
      /\ progress' \in Nat
      /\ step' = "feature" => progress' < Len(FeatureIds)
      /\ chunks' \in 0..MaxChunks
      /\ device' \in DeviceType
      /\ heap' \subseteq Indexes \X Parts
      /\ \A i \in Indexes, p \in Parts : i <= index => (<<i, p>> \in heap' <=> <<i, p>> \in blocks)
  BY <1>1, <1>4, Left DEF ScanInv
<1>7. /\ devices' \in Seq(Entries)
      /\ Len(devices) \in Nat
      /\ DOMAIN devices = 1..Len(devices)
      /\ DOMAIN devices' = 1..(Len(devices) + 1)
      /\ \A n \in DOMAIN devices : devices'[n] = devices[n]
      /\ devices'[Len(devices) + 1] = new
  BY <1>1, <1>5, AppendProperties, LenProperties
<1>8. ScanType'
  BY <1>6, <1>7 DEF ScanInv, ScanType, Entries
<1>9. \A n \in DOMAIN devices : devices[n].index \in Indexes /\ devices[n].index < index
  BY CollectedType DEF ScanInv, Behind
<1>10. \A n \in DOMAIN devices' : n \in DOMAIN devices \/ devices'[n] = new
  BY <1>7
<1>11. Behind'
  BY <1>a, <1>2, <1>6, <1>7, <1>9, <1>10 DEF Behind, Indexes
<1>12. ASSUME NEW i \in Indexes, i < index, NEW p \in Parts
      PROVE  <<i, p>> \in heap' <=> <<i, p>> \in heap
  BY <1>2, <1>3, <1>6, <1>12 DEF Indexes
<1>13. ASSUME NEW p \in Parts
       PROVE  <<index, p>> \in heap' <=> Holds(p) \/ p = part
  BY <1>2, <1>3, <1>6 DEF Holds
<1>b. /\ d.buttons \in Seq(ButtonType) /\ DOMAIN d.buttons = 1..Len(d.buttons)
      /\ Len(d.buttons) \in Nat
  BY LenProperties DEF DeviceType, ButtonType
<1>c. ASSUME "count" \notin d.unread,
             NEW c \in DOMAIN d.buttons, NEW e \in DOMAIN d.buttons, d.buttons[c] = d.buttons[e]
      PROVE  c = e
  <2>1. c - 1 = e - 1
    BY <1>c
  <2>2. c \in Int /\ e \in Int
    BY <1>b, <1>c
  <2> QED
    BY <2>1, <2>2
<1>14. CollectedOwnsAll'
  <2>1. SUFFICES ASSUME NEW n \in DOMAIN devices'
                 PROVE  LET k == devices'[n].kind
                            i == devices'[n].index
                        IN  /\ {<<i, p>> : p \in Parts \ {"button"}} \subseteq heap'
                            /\ k.count = Len(k.buttons)
                            /\ k.buttons # <<>> => <<i, "button">> \in heap'
                            /\ "count" \notin k.unread =>
                                 \A c, e \in DOMAIN k.buttons :
                                   k.buttons[c] = k.buttons[e] => c = e
    BY DEF CollectedOwnsAll
  <2>2. "button" \in Parts
    BY DEF Parts
  <2>3. CASE n \in DOMAIN devices
    BY <1>7, <1>9, <1>12, <2>2, <2>3 DEF ScanInv, CollectedOwnsAll
  <2>4. CASE devices'[n] = new
    BY <1>a, <1>c, <1>13, <2>2, <2>4
  <2> QED
    BY <1>10, <2>3, <2>4
<1>15. OnlyTheseLeak'
  <2>1. SUFFICES ASSUME NEW i \in 1..index
                 PROVE  Collected(i)' \/ {p \in Parts : <<i, p>> \in heap'}
                                            \subseteq {"features", "name", "button"}
    BY <1>2, <1>6 DEF OnlyTheseLeak, Collected
  <2>2. i \in Indexes
    BY <1>2 DEF Indexes
  <2>3. CASE i < index
    <3>1. {p \in Parts : <<i, p>> \in heap'} = {p \in Parts : <<i, p>> \in heap}
      BY <1>12, <2>2, <2>3
    <3>2. Collected(i) => Collected(i)'
      BY <1>7 DEF Collected
    <3> QED
      BY <1>2, <2>3, <3>1, <3>2 DEF ScanInv, OnlyTheseLeak
  <2>4. CASE i = index
    BY <1>a, <1>7, <2>4 DEF Collected
  <2> QED
    BY <1>2, <2>3, <2>4
<1> QED
  BY <1>6, <1>8, <1>11, <1>14, <1>15 DEF ScanInv

\* A step that stays with the device may only allocate a block of it.
LEMMA SameDevice ==
  ASSUME ScanInv, step # "done", index' = index, devices' = devices,
         NEW part \in Parts, heap' = heap \/ heap' = Allocate(part)
  PROVE  /\ Behind'
         /\ CollectedOwnsAll'
         /\ OnlyTheseLeak'
         /\ index \in Indexes
         /\ index' \in 1..(LastIndex + 1)
         /\ index' # LastIndex + 1
         /\ devices' \in Seq([index : Indexes, kind : DeviceType])
         /\ heap' \subseteq Indexes \X Parts
         /\ \A i \in Indexes, p \in Parts : i > index' => <<i, p>> \notin heap'
         /\ heap' = heap => \A p : Holds(p)' <=> Holds(p)
         /\ heap' = Allocate(part) => \A p : Holds(p)' <=> Holds(p) \/ p = part
<1>1. index \in Indexes /\ index \in Nat /\ LastIndex \in Nat /\ index <= LastIndex
  BY IndexInRange, ScanAssumption DEF ScanInv, Indexes
<1>2. \A i, p : <<i, p>> \in heap => <<i, p>> \in heap'
  BY DEF Allocate
<1>3. \A i, p : i # index => (<<i, p>> \in heap' <=> <<i, p>> \in heap)
  BY DEF Allocate
<1>4. Behind'
  BY DEF ScanInv, Behind
<1>5. CollectedOwnsAll'
  BY <1>2 DEF ScanInv, CollectedOwnsAll
<1>6. OnlyTheseLeak'
  <2>1. SUFFICES ASSUME NEW i \in 1..(index - 1)
                 PROVE  Collected(i) \/ {p \in Parts : <<i, p>> \in heap'}
                                            \subseteq {"features", "name", "button"}
    BY DEF OnlyTheseLeak, Collected
  <2>2. {p \in Parts : <<i, p>> \in heap'} = {p \in Parts : <<i, p>> \in heap}
    BY <1>1, <1>3
  <2> QED
    BY <2>2 DEF ScanInv, OnlyTheseLeak
<1>7. heap' \subseteq Indexes \X Parts
  BY <1>1 DEF ScanInv, ScanType, Allocate
<1>8. \A i \in Indexes, p \in Parts : i > index' => <<i, p>> \notin heap'
  BY <1>1, <1>3 DEF ScanInv, Allocated, Indexes
<1>9. devices' \in Seq([index : Indexes, kind : DeviceType])
  BY DEF ScanInv, ScanType
<1>10. heap' = heap => \A p : Holds(p)' <=> Holds(p)
  BY DEF Holds
<1>11. heap' = Allocate(part) => \A p : Holds(p)' <=> Holds(p) \/ p = part
  BY DEF Holds, Allocate
<1>12. index' \in 1..(LastIndex + 1) /\ index' # LastIndex + 1
  BY <1>1 DEF Indexes
<1> QED
  BY <1>1, <1>4, <1>5, <1>6, <1>7, <1>8, <1>9, <1>10, <1>11, <1>12

-------------------------------------------------------------------------------
(* The functions of the scan keep its variables' types and its blocks.     *)

LEMMA FeatureKeeps ==
  ASSUME ScanInv, step = "feature", NEW how, NEW v \in BOOLEAN, Feature(how, v)
  PROVE  ScanInv'
<1> DEFINE has == how = "data" /\ v
           id  == FeatureIds[progress + 1]
<1>1. /\ progress \in Nat
      /\ progress < Len(FeatureIds)
      /\ progress + 1 \in 1..Len(FeatureIds)
      /\ Len(FeatureIds) \in Nat
      /\ id \in Features
  <2>1. progress \in Nat /\ progress < Len(FeatureIds) /\ Len(FeatureIds) \in Nat
    BY FeatureIdsFacts DEF ScanInv, ScanType
  <2>2. progress + 1 \in DOMAIN FeatureIds
    BY <2>1, FeatureIdsFacts
  <2> QED
    BY <2>1, <2>2, FeatureIdsFacts DEF Features
<1> HIDE DEF has, id
<1>2. CASE id = "root" /\ ~has
  <2>1. Abandon({})
    BY <1>2 DEF Feature, has, id
  <2>2. \A p \in Parts : Holds(p) => p \in {} \cup {"device", "features", "name", "button"}
    BY DEF ScanInv, Allocated, Construction, Parts
  <2> QED
    BY <2>1, <2>2, AbandonKeeps
<1>3. CASE ~(id = "root" /\ ~has)
  <2>1. /\ has => device' = [device EXCEPT !.features = @ \cup {id}] /\ heap' = Allocate("features")
        /\ ~has => device' = device /\ heap' = heap
        /\ progress + 1 < Len(FeatureIds) => Again
        /\ ~(progress + 1 < Len(FeatureIds)) => Goto("protocol")
        /\ chunks' = chunks
    BY <1>3 DEF Feature, has, id
  <2>2. /\ index' = index /\ devices' = devices
        /\ \/ step' = "feature" /\ progress' = progress + 1 /\ progress + 1 < Len(FeatureIds)
           \/ step' = "protocol" /\ progress' = 0 /\ progress + 1 = Len(FeatureIds)
    BY <1>1, <2>1 DEF Again, Goto
  <2>3. device \in DeviceType
    BY DEF ScanInv, ScanType
  <2>4. /\ device' \in DeviceType
        /\ device'.features = device.features \/ device'.features = device.features \cup {id}
        /\ has => id \in device'.features
        /\ device'.buttons = device.buttons
        /\ device'.count = device.count
    BY <1>1, <2>1, <2>3 DEF DeviceType
  <2>5. "features" \in Parts
    BY DEF Parts
  <2>6. /\ Behind'
        /\ CollectedOwnsAll'
        /\ OnlyTheseLeak'
        /\ index' \in 1..(LastIndex + 1)
        /\ index' # LastIndex + 1
        /\ devices' \in Seq([index : Indexes, kind : DeviceType])
        /\ heap' \subseteq Indexes \X Parts
        /\ \A i \in Indexes, p \in Parts : i > index' => <<i, p>> \notin heap'
        /\ heap' = heap => \A p : Holds(p)' <=> Holds(p)
        /\ heap' = Allocate("features") => \A p : Holds(p)' <=> Holds(p) \/ p = "features"
    BY <2>1, <2>2, <2>5, SameDevice
  <2>7. ScanType'
    <3>1. step' \in Steps \cup {"done"} /\ progress' \in Nat
      BY <1>1, <2>2 DEF Steps
    <3>2. step' = "feature" => progress' < Len(FeatureIds)
      BY <2>2
    <3> QED
      BY <2>1, <2>4, <2>6, <3>1, <3>2 DEF ScanInv, ScanType
  <2>8. Construction'
    <3>1. \A n \in 1..(progress + 1) : FeatureIds[n] = "root" => "root" \in device'.features
      <4>1. SUFFICES ASSUME NEW n \in 1..(progress + 1), FeatureIds[n] = "root"
                     PROVE  "root" \in device'.features
        OBVIOUS
      <4>2. CASE n \in 1..progress
        BY <4>1, <4>2, <2>4 DEF ScanInv, Construction
      <4>3. CASE n = progress + 1
        BY <4>1, <4>3, <1>3, <2>4 DEF id
      <4> QED
        BY <1>1, <4>2, <4>3
    <3>2. step' = "protocol" => "root" \in device'.features
      BY <2>2, <3>1, FeatureIdsFacts
    <3>3. device.buttons = <<>> /\ device.count = 0
      BY DEF ScanInv, Construction
    <3>4. step' = "feature" => \A n \in 1..progress' :
             FeatureIds[n] = "root" => "root" \in device'.features
      BY <2>2, <3>1
    <3>5. step' \in {"feature", "protocol"}
      BY <2>2
    <3> QED
      BY <2>4, <2>6, <3>2, <3>3, <3>4, <3>5 DEF Construction
  <2>9. Allocated'
    <3>1. \A p \in Parts \ {"features"} : Holds(p)' <=> Holds(p)
      BY <2>1, <2>6
    <3>2. "root" \in device'.features => Holds("features")'
      BY <2>1, <2>6 DEF ScanInv, Allocated
    <3>3. step' \in {"feature", "protocol"}
      BY <2>2
    <3> QED
      BY <2>4, <2>6, <3>1, <3>2, <3>3 DEF ScanInv, Allocated, Parts
  <2> QED
    BY <2>6, <2>7, <2>8, <2>9 DEF ScanInv
<1> QED
  BY <1>2, <1>3

\* A step that allocates or not, and goes on to the next one with the same features.
LEMMA GoesOn ==
  ASSUME ScanInv, step \notin {"done", "feature"}, index' = index, devices' = devices,
         NEW part \in Parts, heap' = heap \/ heap' = Allocate(part),
         step' \in Steps \ {"feature"}, progress' \in Nat, chunks' \in 0..MaxChunks,
         device' \in DeviceType,
         device'.features = device.features,
         step' # "button" => device'.buttons = <<>> /\ device'.count = 0,
         step' = "button" => Len(device'.buttons) = progress' /\ progress' < device'.count,
         step' = "button" /\ "count" \notin device'.unread =>
           /\ device'.count < IndexRange
           /\ \A n \in DOMAIN device'.buttons : device'.buttons[n].round = n - 1,
         Holds("protocol")' <=> step' \in {"type", "length", "name", "count", "button"},
         Holds("name")' <=> step' \in {"name", "count", "button"},
         Holds("buttons")' <=> step' = "button",
         Holds("button")' <=> device'.buttons # <<>>
  PROVE  ScanInv'
<1>1. /\ Behind'
      /\ CollectedOwnsAll'
      /\ OnlyTheseLeak'
      /\ index' \in 1..(LastIndex + 1)
      /\ index' # LastIndex + 1
      /\ devices' \in Seq([index : Indexes, kind : DeviceType])
      /\ heap' \subseteq Indexes \X Parts
      /\ \A i \in Indexes, p \in Parts : i > index' => <<i, p>> \notin heap'
      /\ \A p : Holds(p) => Holds(p)'
  BY SameDevice DEF Allocate, Holds
<1>2. step' # "feature" /\ step' # "done" /\ step' \in Steps
  BY DEF Steps
<1>3. ScanType'
  BY <1>1, <1>2 DEF ScanType
<1>4. "root" \in device.features
  BY DEF ScanInv, Construction
<1>5. Construction'
  BY <1>1, <1>2, <1>4 DEF Construction
<1>6. Holds("device") /\ Holds("features")
  BY <1>4 DEF ScanInv, Allocated
<1>7. Allocated'
  BY <1>1, <1>2, <1>6 DEF Allocated
<1> QED
  BY <1>1, <1>3, <1>5, <1>7 DEF ScanInv

\* The blocks at each step, as GoesOn needs them.
LEMMA Stages ==
  ASSUME ScanInv
  PROVE  /\ device \in DeviceType
         /\ progress \in Nat
         /\ chunks \in 0..MaxChunks
         /\ step # "button" => device.buttons = <<>> /\ device.count = 0
         /\ step = "button" =>
              /\ Len(device.buttons) = progress
              /\ progress < device.count
         /\ step = "button" /\ "count" \notin device.unread =>
              /\ device.count < IndexRange
              /\ \A n \in DOMAIN device.buttons : device.buttons[n].round = n - 1
         /\ Holds("device") <=> step # "done"
         /\ step \notin {"feature", "done"} => Holds("features")
         /\ Holds("protocol") <=> step \in {"type", "length", "name", "count", "button"}
         /\ Holds("name") <=> step \in {"name", "count", "button"}
         /\ Holds("buttons") <=> step = "button"
         /\ Holds("button") <=> device.buttons # <<>>
BY DEF ScanInv, ScanType, Construction, Allocated

LEMMA ProtocolKeeps ==
  ASSUME ScanInv, step = "protocol", NEW how, NEW v, Protocol(how, v)
  PROVE  ScanInv'
<1>1. CASE how = "data"
  <2>1. /\ heap' = Allocate("protocol")
        /\ step' = "type" /\ progress' = 0
        /\ UNCHANGED <<index, devices, chunks, device>>
    BY <1>1 DEF Protocol, Goto
  <2>2. \A p : Holds(p)' <=> Holds(p) \/ p = "protocol"
    BY <2>1 DEF Holds, Allocate
  <2>3. "protocol" \in Parts /\ "type" \in Steps
    BY DEF Parts, Steps
  <2> QED
    BY <2>1, <2>2, <2>3, Stages, GoesOn
<1>2. CASE how # "data"
  <2>1. Abandon({})
    BY <1>2 DEF Protocol
  <2>2. \A p \in Parts : Holds(p) => p \in {} \cup {"device", "features", "name", "button"}
    BY Stages DEF Parts
  <2> QED
    BY <2>1, <2>2, AbandonKeeps
<1> QED
  BY <1>1, <1>2

LEMMA TypeKeeps ==
  ASSUME ScanInv, step = "type", NEW how, NEW v, Type(how, v)
  PROVE  ScanInv'
<1>1. CASE how = "error" \/ v # "mouse"
  <2>1. Abandon({"protocol"})
    BY <1>1 DEF Type
  <2>2. /\ {"protocol"} \in SUBSET Parts
        /\ \A p \in Parts : Holds(p) => p \in {"protocol"} \cup {"device", "features", "name", "button"}
    BY Stages DEF Parts
  <2> QED
    BY <2>1, <2>2, AbandonKeeps
<1>2. CASE ~(how = "error" \/ v # "mouse")
  <2>1. /\ device' = [device EXCEPT !.type = v,
                            !.unread = IF how = "data" THEN @ ELSE @ \cup {"type"}]
        /\ v = "mouse"
        /\ step' = "length" /\ progress' = 0
        /\ UNCHANGED <<index, devices, chunks, heap>>
    BY <1>2 DEF Type, Goto
  <2>2. /\ device' \in DeviceType
        /\ device'.features = device.features
        /\ device'.buttons = device.buttons
        /\ device'.count = device.count
    BY <2>1, Stages DEF DeviceType
  <2>3. \A p : Holds(p)' <=> Holds(p)
    BY <2>1 DEF Holds
  <2>4. "protocol" \in Parts /\ "length" \in Steps
    BY DEF Parts, Steps
  <2> QED
    BY <2>1, <2>2, <2>3, <2>4, Stages, GoesOn
<1> QED
  BY <1>1, <1>2

LEMMA LengthKeeps ==
  ASSUME ScanInv, step = "length", NEW how, NEW v \in {Endless} \cup 1..MaxChunks, NameLength(how, v)
  PROVE  ScanInv'
<1>1. CASE how = "data"
  <2>1. /\ heap' = Allocate("name")
        /\ step' = "name" /\ progress' = 0
        /\ chunks' = v
        /\ UNCHANGED <<index, devices, device>>
    BY <1>1 DEF NameLength, Goto
  <2>2. \A p : Holds(p)' <=> Holds(p) \/ p = "name"
    BY <2>1 DEF Holds, Allocate
  <2>3. "name" \in Parts /\ "name" \in Steps /\ chunks' \in 0..MaxChunks
    BY <2>1, ScanAssumption DEF Parts, Steps, Endless
  <2> QED
    BY <2>1, <2>2, <2>3, Stages, GoesOn
<1>2. CASE how # "data"
  <2>1. Abandon({"protocol"})
    BY <1>2 DEF NameLength
  <2>2. /\ {"protocol"} \in SUBSET Parts
        /\ \A p \in Parts : Holds(p) => p \in {"protocol"} \cup {"device", "features", "name", "button"}
    BY Stages DEF Parts
  <2> QED
    BY <2>1, <2>2, AbandonKeeps
<1> QED
  BY <1>1, <1>2

LEMMA ChunkKeeps ==
  ASSUME ScanInv, step = "name", NEW how, NEW v, NameChunk(how, v)
  PROVE  ScanInv'
<1>1. CASE how = "data"
  <2>1. /\ \/ step' = "name" /\ progress' \in {progress, progress + 1}
           \/ step' = "count" /\ progress' = 0
        /\ UNCHANGED <<index, devices, chunks, device, heap>>
    BY <1>1 DEF NameChunk, Goto, Again
  <2>2. \A p : Holds(p)' <=> Holds(p)
    BY <2>1 DEF Holds
  <2>3. "name" \in Parts /\ step' \in Steps \ {"feature"} /\ step' \in {"name", "count"}
    BY <2>1 DEF Parts, Steps
  <2>4. progress' \in Nat
    BY <2>1, Stages
  <2> QED
    BY <2>1, <2>2, <2>3, <2>4, Stages, GoesOn
<1>2. CASE how # "data"
  <2>1. Abandon({"protocol"})
    BY <1>2 DEF NameChunk
  <2>2. /\ {"protocol"} \in SUBSET Parts
        /\ \A p \in Parts : Holds(p) => p \in {"protocol"} \cup {"device", "features", "name", "button"}
    BY Stages DEF Parts
  <2> QED
    BY <2>1, <2>2, AbandonKeeps
<1> QED
  BY <1>1, <1>2

LEMMA CountKeeps ==
  ASSUME ScanInv, step = "count", NEW how, NEW v \in Readings(how), Count(how, v)
  PROVE  ScanInv'
<1> DEFINE counted == [device EXCEPT !.count = v,
                         !.unread = IF how = "data" THEN @ ELSE @ \cup {"count"}]
<1>a. v \in 0..MaxButtons /\ (how = "data" => v < IndexRange)
  BY ReadingsFacts, ScanAssumption
<1>1. /\ counted \in DeviceType
      /\ counted.features = device.features
      /\ counted.buttons = <<>>
      /\ counted.count = v
      /\ how # "data" => "count" \in counted.unread
  BY <1>a, Stages DEF DeviceType
<1>2. CASE how = "data" /\ v = 0
  <2>1. Abandon({"protocol", "name"})
    BY <1>2 DEF Count
  <2>2. /\ {"protocol", "name"} \in SUBSET Parts
        /\ \A p \in Parts : Holds(p) =>
             p \in {"protocol", "name"} \cup {"device", "features", "name", "button"}
    BY Stages DEF Parts
  <2> QED
    BY <2>1, <2>2, AbandonKeeps
<1>3. CASE how # "data" /\ v = 0
  <2>1. Publish(counted, Allocate("buttons"))
    BY <1>3 DEF Count
  <2>2. /\ "buttons" \in Parts
        /\ \A p \in Parts \ {"button"} : p = "buttons" \/ Holds(p)
    BY Stages DEF Parts
  <2>3. counted.count = Len(counted.buttons)
    BY <1>1, <1>3, EmptySeq
  <2>4. \A n \in DOMAIN counted.buttons : counted.buttons[n].round = n - 1
    BY <1>1
  <2> HIDE DEF counted
  <2> QED
    BY <1>1, <2>1, <2>2, <2>3, <2>4, PublishKeeps
<1>4. CASE v # 0
  <2>1. /\ device' = counted
        /\ heap' = Allocate("buttons")
        /\ step' = "button" /\ progress' = 0
        /\ UNCHANGED <<index, devices, chunks>>
    BY <1>4 DEF Count, Goto
  <2> HIDE DEF counted
  <2>2. \A p : Holds(p)' <=> Holds(p) \/ p = "buttons"
    BY <2>1 DEF Holds, Allocate
  <2>3. "buttons" \in Parts /\ "button" \in Steps
    BY DEF Parts, Steps
  <2>4. Len(device'.buttons) = progress' /\ progress' < device'.count
    BY <1>a, <1>1, <1>4, <2>1, EmptySeq, ScanAssumption
  <2>6. /\ "count" \notin device'.unread => device'.count < IndexRange
        /\ \A n \in DOMAIN device'.buttons : device'.buttons[n].round = n - 1
    BY <1>a, <1>1, <2>1
  <2>5. ~Holds("button")' /\ device'.buttons = <<>>
    BY <1>1, <2>1, <2>2, Stages
  <2> QED
    BY <1>1, <2>1, <2>2, <2>3, <2>4, <2>5, <2>6, Stages, GoesOn
<1> QED
  BY <1>2, <1>3, <1>4

LEMMA ButtonKeeps ==
  ASSUME ScanInv, step = "button", NEW how, NEW v \in ButtonIds, Button(how, v)
  PROVE  ScanInv'
<1> DEFINE button   == [cid |-> v, round |-> progress]
           stored   == Stored(device.buttons, button)
           extended == [device EXCEPT !.buttons = stored]
<1>1. /\ device.buttons \in Seq(ButtonType) /\ progress \in Nat
      /\ Len(device.buttons) = progress
      /\ progress < device.count /\ device.count \in Nat
  BY Stages, ScanAssumption DEF DeviceType, ButtonType
<1>a. button \in ButtonType /\ button.round = progress
  BY <1>1 DEF ButtonType
<1> HIDE DEF button
<1>2. /\ stored \in Seq(ButtonType)
      /\ Len(stored) = progress + 1
      /\ stored # <<>>
      /\ DOMAIN stored = 1..(progress + 1)
      /\ progress < IndexRange =>
           /\ \A n \in 1..progress : stored[n] = device.buttons[n]
           /\ stored[progress + 1] = button
  <2>1. \A S : \A bs \in Seq(S), b \in S :
          progress \in Nat /\ Len(bs) = progress =>
            /\ Stored(bs, b) \in Seq(S)
            /\ Len(Stored(bs, b)) = progress + 1
            /\ Stored(bs, b) # <<>>
            /\ DOMAIN Stored(bs, b) = 1..(progress + 1)
            /\ progress < IndexRange =>
                 /\ \A n \in 1..progress : Stored(bs, b)[n] = bs[n]
                 /\ Stored(bs, b)[progress + 1] = b
    BY StoredFacts
  <2>2. device.buttons \in Seq(ButtonType) /\ button \in ButtonType
    BY <1>1, <1>a
  <2>3. progress \in Nat /\ Len(device.buttons) = progress
    BY <1>1
  <2> HIDE DEF extended
  <2> QED
    BY <2>1, <2>2, <2>3
<1> HIDE DEF stored
<1>3. /\ extended \in DeviceType
      /\ extended.features = device.features
      /\ extended.buttons = stored
      /\ extended.unread = device.unread
      /\ extended.buttons # <<>>
      /\ extended.count = device.count
  <2>1. extended \in DeviceType
    BY <1>2, Stages DEF DeviceType, ButtonType
  <2>2. /\ extended.features = device.features
        /\ extended.buttons = stored
        /\ extended.unread = device.unread
        /\ extended.count = device.count
    BY Stages DEF DeviceType
  <2> QED
    BY <1>2, <2>1, <2>2
<1>b. ASSUME "count" \notin device.unread
      PROVE  /\ device.count < IndexRange
             /\ \A n \in DOMAIN stored : stored[n].round = n - 1
  <2>1. /\ device.count < IndexRange
        /\ \A n \in DOMAIN device.buttons : device.buttons[n].round = n - 1
    BY <1>b, Stages
  <2>2. DOMAIN device.buttons = 1..progress
    BY <1>1, LenProperties
  <2>3. progress < IndexRange
    BY <1>1, <2>1, ScanAssumption
  <2>4. ASSUME NEW n \in 1..(progress + 1)
        PROVE  stored[n].round = n - 1
    <3>1. CASE n \in 1..progress
      BY <1>2, <2>1, <2>2, <2>3, <3>1
    <3>2. CASE n = progress + 1
      BY <1>a, <1>1, <1>2, <2>3, <3>2
    <3> QED
      BY <1>1, <3>1, <3>2
  <2> QED
    BY <1>2, <2>1, <2>4
<1> HIDE DEF extended
<1>4. CASE how = "data" /\ progress + 1 >= device.count
  <2>1. Publish(extended, Allocate("button"))
    BY <1>4 DEF Button, Fill, extended, stored, button
  <2>2. /\ "button" \in Parts
        /\ \A p \in Parts \ {"button"} : p = "button" \/ Holds(p)
    BY Stages DEF Parts
  <2>3. extended.count = Len(extended.buttons)
    BY <1>1, <1>2, <1>3, <1>4
  <2> QED
    BY <1>3, <1>b, <2>1, <2>2, <2>3, PublishKeeps
<1>5. CASE how = "data" /\ ~(progress + 1 >= device.count)
  <2>1. /\ device' = extended
        /\ heap' = Allocate("button")
        /\ step' = "button" /\ progress' = progress + 1
        /\ UNCHANGED <<index, devices, chunks>>
    BY <1>5 DEF Button, Fill, Again, extended, stored, button
  <2>2. \A p : Holds(p)' <=> Holds(p) \/ p = "button"
    BY <2>1 DEF Holds, Allocate
  <2>3. "button" \in Parts /\ "button" \in Steps
    BY DEF Parts, Steps
  <2>4. progress' \in Nat /\ Len(device'.buttons) = progress' /\ progress' < device'.count
    BY <1>1, <1>2, <1>3, <1>5, <2>1
  <2>5. "count" \notin device'.unread =>
           /\ device'.count < IndexRange
           /\ \A n \in DOMAIN device'.buttons : device'.buttons[n].round = n - 1
    BY <1>3, <1>b, <2>1
  <2> QED
    BY <1>3, <2>1, <2>2, <2>3, <2>4, <2>5, Stages, GoesOn
<1>6. CASE how # "data"
  <2>1. Abandon({"buttons", "protocol", "name"})
    BY <1>6 DEF Button
  <2>2. /\ {"buttons", "protocol", "name"} \in SUBSET Parts
        /\ \A p \in Parts : Holds(p) =>
             p \in {"buttons", "protocol", "name"} \cup {"device", "features", "name", "button"}
    BY Stages DEF Parts
  <2> QED
    BY <2>1, <2>2, AbandonKeeps
<1> QED
  BY <1>4, <1>5, <1>6

LEMMA UseKeeps ==
  ASSUME ScanInv, NEW how, NEW v \in Readings(how), Use(how, v)
  PROVE  ScanInv'
<1>1. CASE step = "feature"
  BY <1>1, ReadingsFacts, FeatureKeeps DEF Use
<1>2. CASE step = "protocol"
  BY <1>2, ProtocolKeeps DEF Use
<1>3. CASE step = "type"
  BY <1>3, TypeKeeps DEF Use
<1>4. CASE step = "length"
  BY <1>4, ReadingsFacts, LengthKeeps DEF Use
<1>5. CASE step = "name"
  BY <1>5, ChunkKeeps DEF Use
<1>6. CASE step = "count"
  BY <1>6, CountKeeps DEF Use
<1>7. CASE step = "button"
  BY <1>7, ReadingsFacts, ButtonKeeps DEF Use
<1> QED
  BY <1>1, <1>2, <1>3, <1>4, <1>5, <1>6, <1>7 DEF Use

-------------------------------------------------------------------------------
(* The scan keeps its invariant.                                           *)

LEMMA ScanInit == Init => ScanInv /\ RestType /\ InOrder
<1> SUFFICES ASSUME Init PROVE ScanInv /\ RestType /\ InOrder
  OBVIOUS
<1> USE DEF Init
<1>1. 1 \in Indexes /\ LastIndex \in Nat /\ 1 # LastIndex + 1
  BY ScanAssumption DEF Indexes
<1>2. ScanType
  <2>1. /\ index \in 1..(LastIndex + 1)
        /\ chunks \in 0..MaxChunks
    BY <1>1, ScanAssumption
  <2>2. devices \in Seq([index : Indexes, kind : DeviceType])
    BY EmptySeq
  <2>3. "device" \in Parts /\ "feature" \in Steps
    BY DEF Parts, Steps
  <2> QED
    BY <1>1, <2>1, <2>2, <2>3, BlankType, FeatureIdsFacts DEF ScanType
<1>3. device.features = {} /\ device.buttons = <<>> /\ device.count = 0
  BY DEF Blank
<1>4. Construction
  BY <1>1, <1>3 DEF Construction
<1>5. Allocated
  BY <1>3 DEF Allocated, Holds, Indexes
<1>6. DOMAIN devices = {}
  OBVIOUS
<1>7. Behind /\ CollectedOwnsAll
  BY <1>6 DEF Behind, CollectedOwnsAll
<1>8. OnlyTheseLeak
  BY DEF OnlyTheseLeak
<1>9. RestType /\ InOrder
  <2>1. busy = FALSE /\ backlog = <<>>
    BY DEF RR!Init
  <2>2. strays = 0
    BY <2>1, EmptySeq DEF strays
  <2>3. backlog \in Seq([index : Indexes, step : Steps, arg : Nat])
    BY <2>1, EmptySeq
  <2>4. 0 \in 0..MaxStrays /\ 0 \in 0..MaxErrors
    BY ScanAssumption
  <2>5. InOrder /\ misled \subseteq Indexes
    BY <2>1, <2>2 DEF InOrder
  <2> QED
    BY <2>1, <2>2, <2>3, <2>4, <2>5 DEF RestType
<1> QED
  BY <1>2, <1>4, <1>5, <1>7, <1>8, <1>9 DEF ScanInv

LEMMA ScanStep ==
  ASSUME ScanInv, RestType, InOrder, [Next]_vars
  PROVE  ScanInv' /\ RestType' /\ InOrder'
<1>1. RestType' /\ InOrder'
  BY RestStep DEF ScanInv
<1>2. CASE UNCHANGED scan
  <2>1. UNCHANGED <<index, step, progress, chunks, device, devices, heap>>
    BY <1>2 DEF scan
  <2>2. ScanType'
    BY <2>1 DEF ScanInv, ScanType
  <2>3. Construction'
    BY <2>1 DEF ScanInv, Construction
  <2>4. Allocated'
    BY <2>1 DEF ScanInv, Allocated, Holds
  <2>5. Behind' /\ CollectedOwnsAll'
    BY <2>1 DEF ScanInv, Behind, CollectedOwnsAll
  <2>6. OnlyTheseLeak'
    BY <2>1 DEF ScanInv, OnlyTheseLeak, Collected
  <2> QED
    BY <1>1, <2>2, <2>3, <2>4, <2>5, <2>6 DEF ScanInv
<1>3. CASE WriteFails \/ Answered
  <2>1. PICK how, v : Outcome(how, v) /\ Use(how, v)
    BY <1>3, Exchanged DEF ScanInv
  <2>2. v \in Readings(how)
    BY <2>1 DEF Outcome
  <2> QED
    BY <1>1, <2>1, <2>2, UseKeeps
<1>4. CASE Ask
  BY <1>2, <1>4 DEF Ask
<1>5. CASE UNCHANGED vars
  BY <1>2, <1>5 DEF vars
<1> QED
  BY <1>1, <1>2, <1>3, <1>4, <1>5 DEF Next

LEMMA ScanInvariant == Spec => [](ScanInv /\ RestType /\ InOrder)
<1>1. (ScanInv /\ RestType /\ InOrder) /\ [Next]_vars => (ScanInv /\ RestType /\ InOrder)'
  BY ScanStep
<1> QED
  BY <1>1, ScanInit, PTL DEF Spec

\* Every variable of the scan keeps its type: whatever garbage a count holds, the
\* loops over indexes, features, chunks and buttons stay where they may be.
THEOREM TypeCorrect == Spec => []TypeOK
<1>1. ScanInv /\ RestType => TypeOK
  BY DEF ScanInv, ScanType, RestType, TypeOK
<1> QED
  BY <1>1, ScanInvariant, PTL

\* Whatever fails and whatever strays say, each device collected owns all that
\* slavery_device_free frees: no failure path of get_device returns a device with a
\* member missing or a button not filled in, and where the number of buttons was read
\* none of them is there twice, though its index goes through a uint8_t.
THEOREM OwnsCorrect == Spec => []CollectedOwnsAll
<1>1. ScanInv => CollectedOwnsAll
  BY DEF ScanInv
<1> QED
  BY <1>1, ScanInvariant, PTL

\* Whatever fails, of a device given up nothing but its features, its name and
\* its buttons' entries can stay allocated.
THEOREM LeaksCorrect == Spec => []OnlyTheseLeak
<1>1. ScanInv => OnlyTheseLeak
  BY DEF ScanInv
<1> QED
  BY <1>1, ScanInvariant, PTL

-------------------------------------------------------------------------------
(* What a device knows is true of the hardware at its index, unless the    *)
(* scan has been misled there.                                             *)

\* What Exchanged says of a step of the scan, as far as the truth goes.
TrueTo(how, v) ==
  /\ v \in Readings(how)
  /\ hardware' = hardware
  /\ misled \subseteq misled'
  /\ how = "data" /\ index \notin misled' => Understood /\ v = Truth(hardware[index])

LEMMA HardwareType ==
  ASSUME RestType, NEW i \in Indexes
  PROVE  /\ hardware[i] \in Kinds \cup {NoDevice}
         /\ hardware[i] # NoDevice =>
              /\ hardware[i].type \in {"mouse", "other"}
              /\ hardware[i].features \subseteq Features
              /\ hardware[i].buttons \in Seq(ButtonIds)
         /\ FeaturesOf(hardware[i]) \subseteq Features
<1>1. hardware[i] \in Kinds \cup {NoDevice}
  BY DEF RestType
<1>2. ASSUME hardware[i] # NoDevice
      PROVE  /\ hardware[i].type \in {"mouse", "other"}
             /\ hardware[i].features \subseteq Features
             /\ hardware[i].buttons \in Seq(ButtonIds)
  <2>1. hardware[i] \in KindType
    BY <1>1, <1>2, ScanAssumption
  <2> QED
    BY <2>1 DEF KindType
<1> QED
  BY <1>1, <1>2 DEF FeaturesOf

LEMMA LeaveShape ==
  ASSUME NEW blocks, Leave(blocks)
  PROVE  index' = index + 1 /\ step' \in {"feature", "done"} /\ progress' = 0 /\ device' = Blank
BY DEF Leave, LeaveFor

LEMMA BlankSound ==
  ASSUME step' \in {"feature", "done"}, device' = Blank
  PROVE  DeviceSound'
<1>1. device'.features = {} /\ step' # "button"
  BY DEF Blank
<1> QED
  BY <1>1 DEF DeviceSound

LEMMA AbandonSound ==
  ASSUME CollectedSound, hardware' = hardware, misled \subseteq misled',
         NEW parts, Abandon(parts)
  PROVE  CollectedSound' /\ DeviceSound'
<1>1. devices' = devices /\ step' \in {"feature", "done"} /\ device' = Blank
  BY LeaveShape DEF Abandon
<1> QED
  BY <1>1, BlankSound DEF CollectedSound

\* The devices after one has been collected.
LEMMA Collecting ==
  ASSUME ScanInv, NEW d, NEW blocks, Publish(d, blocks)
  PROVE  /\ Len(devices) \in Nat
         /\ DOMAIN devices = 1..Len(devices)
         /\ DOMAIN devices' = 1..(Len(devices) + 1)
         /\ \A n \in DOMAIN devices : devices'[n] = devices[n]
         /\ devices'[Len(devices) + 1] = [index |-> index, kind |-> d]
<1> DEFINE new == [index |-> index, kind |-> d]
           Entries == [index : Indexes, kind : DeviceType] \cup {new}
<1>1. devices \in Seq([index : Indexes, kind : DeviceType])
  BY DEF ScanInv, ScanType
<1>2. devices \in Seq(Entries) /\ new \in Entries
  BY <1>1, SeqMonotonic
<1>3. devices' = Append(devices, new)
  BY DEF Publish
<1> HIDE DEF new, Entries
<1>4. /\ Len(devices) \in Nat
      /\ DOMAIN devices = 1..Len(devices)
      /\ DOMAIN devices' = 1..(Len(devices) + 1)
      /\ \A n \in DOMAIN devices : devices'[n] = devices[n]
      /\ devices'[Len(devices) + 1] = new
  BY <1>2, <1>3, AppendProperties, LenProperties
<1> QED
  BY <1>4 DEF new

LEMMA PublishSound ==
  ASSUME ScanInv, CollectedSound, hardware' = hardware, misled \subseteq misled',
         NEW d, index \notin misled' => Sound(d, hardware[index]),
         NEW blocks, Publish(d, blocks)
  PROVE  CollectedSound' /\ DeviceSound'
<1>1. step' \in {"feature", "done"} /\ device' = Blank
  BY LeaveShape DEF Publish
<1>2. /\ Len(devices) \in Nat
      /\ DOMAIN devices = 1..Len(devices)
      /\ DOMAIN devices' = 1..(Len(devices) + 1)
      /\ \A n \in DOMAIN devices : devices'[n] = devices[n]
      /\ devices'[Len(devices) + 1] = [index |-> index, kind |-> d]
  BY Collecting
<1>3. CollectedSound'
  <2>1. SUFFICES ASSUME NEW n \in DOMAIN devices', devices'[n].index \notin misled'
                 PROVE  Sound(devices'[n].kind, hardware[devices'[n].index])
    BY DEF CollectedSound
  <2>2. CASE n \in DOMAIN devices
    BY <1>2, <2>1, <2>2 DEF CollectedSound
  <2>3. CASE n = Len(devices) + 1
    BY <1>2, <2>1, <2>3
  <2> QED
    BY <1>2, <2>2, <2>3
<1> QED
  BY <1>1, <1>3, BlankSound

LEMMA FeatureSound ==
  ASSUME ScanInv, RestType, CollectedSound, DeviceSound, step = "feature",
         NEW how, NEW v, Feature(how, v), TrueTo(how, v)
  PROVE  CollectedSound' /\ DeviceSound'
<1> DEFINE has == how = "data" /\ v
           id  == FeatureIds[progress + 1]
<1>1. CASE id = "root" /\ ~has
  BY <1>1, AbandonSound DEF Feature, TrueTo
<1>2. CASE ~(id = "root" /\ ~has)
  <2>1. /\ has => device' = [device EXCEPT !.features = @ \cup {id}]
        /\ ~has => device' = device
        /\ Again \/ Goto("protocol")
    BY <1>2 DEF Feature
  <2>2. index' = index /\ devices' = devices /\ step' \in {"feature", "protocol"}
    BY <2>1 DEF Again, Goto
  <2>a. index \notin misled' => index \notin misled
    BY DEF TrueTo
  <2>3. index \notin misled => device.features \subseteq FeaturesOf(hardware[index])
    BY DEF DeviceSound
  <2>4. index \notin misled' /\ has => id \in FeaturesOf(hardware[index])
    <3>1. SUFFICES ASSUME has, index \notin misled' PROVE id \in FeaturesOf(hardware[index])
      OBVIOUS
    <3>2. how = "data" /\ v
      BY <3>1
    <3>3. Understood /\ v = Truth(hardware[index])
      BY <3>1, <3>2 DEF TrueTo
    <3>4. hardware[index] # NoDevice
      BY <3>3 DEF Understood
    <3>5. v = (id \in hardware[index].features)
      BY <3>3, TruthFacts
    <3> QED
      BY <3>2, <3>4, <3>5 DEF FeaturesOf
  <2> HIDE DEF has, id
  <2>5. device'.features = device.features \/ (has /\ device'.features = device.features \cup {id})
    BY <2>1, Stages DEF DeviceType
  <2>6. index \notin misled' => device'.features \subseteq FeaturesOf(hardware[index])
    BY <2>a, <2>3, <2>4, <2>5
  <2>7. DeviceSound'
    BY <2>2, <2>6 DEF DeviceSound, TrueTo
  <2>8. CollectedSound'
    BY <2>2 DEF CollectedSound, TrueTo
  <2> QED
    BY <2>7, <2>8
<1> QED
  BY <1>1, <1>2

\* The steps whose data does not stay in the device.
LEMMA SameFeaturesSound ==
  ASSUME CollectedSound, DeviceSound, hardware' = hardware, misled \subseteq misled',
         index' = index, devices' = devices, device'.features = device.features,
         step # "done", step' # "button"
  PROVE  CollectedSound' /\ DeviceSound'
<1>1. CollectedSound'
  BY DEF CollectedSound
<1>2. DeviceSound'
  BY DEF DeviceSound
<1> QED
  BY <1>1, <1>2

LEMMA MiddleSound ==
  ASSUME ScanInv, RestType, CollectedSound, DeviceSound, hardware' = hardware,
         misled \subseteq misled', NEW how, NEW v,
         \/ step = "protocol" /\ Protocol(how, v)
         \/ step = "type" /\ Type(how, v)
         \/ step = "length" /\ NameLength(how, v)
         \/ step = "name" /\ NameChunk(how, v)
  PROVE  CollectedSound' /\ DeviceSound'
<1>1. CASE \E parts : Abandon(parts)
  BY <1>1, AbandonSound
<1>2. CASE ~\E parts : Abandon(parts)
  <2>1. device \in DeviceType
    BY Stages
  <2>2. /\ index' = index /\ devices' = devices
        /\ step' \in {"type", "length", "name", "count"}
        /\ \/ device' = device
           \/ \E t, u : device' = [device EXCEPT !.type = t, !.unread = u]
    <3>1. CASE step = "protocol"
      BY <1>2, <3>1 DEF Protocol, Goto
    <3>2. CASE step = "type"
      BY <1>2, <3>2 DEF Type, Goto
    <3>3. CASE step = "length"
      BY <1>2, <3>3 DEF NameLength, Goto
    <3>4. CASE step = "name"
      BY <1>2, <3>4 DEF NameChunk, Goto, Again
    <3> QED
      BY <3>1, <3>2, <3>3, <3>4
  <2>3. device'.features = device.features
    BY <2>1, <2>2 DEF DeviceType
  <2>4. step # "done" /\ step' # "button"
    BY <2>2
  <2> QED
    BY <2>2, <2>3, <2>4, SameFeaturesSound
<1> QED
  BY <1>1, <1>2

LEMMA MadeFacts ==
  ASSUME NEW cids \in Seq(ButtonIds)
  PROVE  /\ Made(cids) \in Seq(ButtonType)
         /\ Len(Made(cids)) = Len(cids)
         /\ Len(cids) \in Nat
         /\ DOMAIN Made(cids) = 1..Len(cids)
         /\ \A n \in 1..Len(cids) : Made(cids)[n] = [cid |-> cids[n], round |-> n - 1]
<1> DEFINE made == Made(cids)
<1>1. Len(cids) \in Nat /\ DOMAIN cids = 1..Len(cids) /\ \A n \in 1..Len(cids) : cids[n] \in ButtonIds
  BY LenProperties, ElementOfSeq
<1>2. DOMAIN made = 1..Len(cids)
  BY <1>1 DEF Made
<1>3. \A n \in 1..Len(cids) : made[n] = [cid |-> cids[n], round |-> n - 1]
  BY <1>1 DEF Made
<1>4. made \in [1..Len(cids) -> ButtonType]
  BY <1>1 DEF Made, ButtonType
<1>5. made \in Seq(ButtonType)
  BY <1>1, <1>4, SeqDef
<1>6. Len(made) = Len(cids)
  BY <1>1, <1>2, <1>5, LenProperties
<1> HIDE DEF made
<1> QED
  BY <1>1, <1>2, <1>3, <1>5, <1>6 DEF made

LEMMA CountSound ==
  ASSUME ScanInv, RestType, CollectedSound, DeviceSound, step = "count",
         NEW how, NEW v \in 0..MaxButtons, Count(how, v), TrueTo(how, v)
  PROVE  CollectedSound' /\ DeviceSound'
<1> DEFINE counted == [device EXCEPT !.count = v,
                         !.unread = IF how = "data" THEN @ ELSE @ \cup {"count"}]
           k == hardware[index]
<1>a. /\ hardware' = hardware /\ misled \subseteq misled'
      /\ index \notin misled' => index \notin misled
  BY DEF TrueTo
<1>1. /\ counted \in DeviceType
      /\ counted.features = device.features
      /\ counted.buttons = <<>>
      /\ counted.count = v
      /\ how # "data" => "count" \in counted.unread
  BY Stages DEF DeviceType
<1>2. index \in Indexes /\ "root" \in device.features
  BY IndexInRange DEF ScanInv, Construction
<1>3. index \notin misled => k # NoDevice /\ device.features \subseteq k.features
  BY <1>2 DEF DeviceSound, FeaturesOf
<1>4. index \notin misled => FirstButtons(<<>>, k)
  <2>1. SUFFICES ASSUME index \notin misled PROVE FirstButtons(<<>>, k)
    OBVIOUS
  <2>2. k.buttons \in Seq(ButtonIds)
    BY <1>2, <1>3, <2>1, HardwareType
  <2>3. Len(k.buttons) \in Nat /\ Len(<<>>) = 0
    BY <2>2, LenProperties, EmptySeq
  <2> QED
    BY <2>3 DEF FirstButtons
<1>6. how = "data" /\ index \notin misled' => v = Len(k.buttons)
  BY TruthFacts DEF TrueTo
<1> HIDE DEF counted, k
<1>7. CASE how = "data" /\ v = 0
  BY <1>7, <1>a, AbandonSound DEF Count
<1>8. CASE how # "data" /\ v = 0
  <2>1. Publish(counted, Allocate("buttons"))
    BY <1>8 DEF Count, counted
  <2>2. index \notin misled' => Sound(counted, k)
    BY <1>a, <1>1, <1>3, <1>4, <1>8 DEF Sound
  <2> QED
    BY <1>a, <2>1, <2>2, PublishSound DEF k
<1>9. CASE v # 0
  <2>1. device' = counted /\ step' = "button" /\ UNCHANGED <<index, devices, hardware>>
    BY <1>9, <1>a DEF Count, Goto, counted
  <2>2. CollectedSound'
    BY <2>1, <1>a DEF CollectedSound
  <2>3. k' = k
    BY <2>1 DEF k
  <2>4. index \notin misled' => device'.features \subseteq FeaturesOf(k)
    BY <1>a, <1>1, <1>3, <2>1 DEF FeaturesOf
  <2>5. index \notin misled' =>
           /\ FirstButtons(device'.buttons, k)
           /\ "count" \notin device'.unread => device'.count = Len(k.buttons)
    BY <1>a, <1>1, <1>4, <1>6, <2>1
  <2>6. DeviceSound'
    BY <2>1, <2>4, <2>5 DEF DeviceSound, k
  <2> QED
    BY <2>2, <2>6
<1> QED
  BY <1>7, <1>8, <1>9

NewButton(v) == [cid |-> v, round |-> progress]

\* A button that is the answer to the question is the next one of the device.
LEMMA NextButton ==
  ASSUME ScanInv, RestType, DeviceSound, step = "button", NEW v \in ButtonIds,
         TrueTo("data", v), index \notin misled'
  PROVE  /\ FirstButtons(Stored(device.buttons, NewButton(v)), hardware[index])
         /\ "count" \notin device.unread /\ progress + 1 >= device.count =>
              Stored(device.buttons, NewButton(v)) = Made(hardware[index].buttons)
<1> DEFINE b == Stored(device.buttons, NewButton(v))
           k == hardware[index]
           m == Made(k.buttons)
<1>1. device.buttons \in Seq(ButtonType) /\ Len(device.buttons) = progress /\ progress \in Nat
  BY Stages DEF DeviceType, ButtonType
<1>3. Understood /\ v = Truth(k) /\ index \notin misled
  BY DEF TrueTo
<1>4. k # NoDevice /\ Byte < Len(k.buttons) /\ index \in Indexes
  BY <1>3, IndexInRange DEF Understood, ScanInv
<1>6. /\ k.buttons \in Seq(ButtonIds) /\ Len(k.buttons) \in Nat
      /\ Len(k.buttons) < IndexRange
  <2>1. k.buttons \in Seq(ButtonIds)
    BY <1>4, HardwareType
  <2>2. k \in Kinds
    BY <1>4, HardwareType
  <2> QED
    BY <2>1, <2>2, LenProperties, ScanAssumption
<1>8. /\ FirstButtons(device.buttons, k)
      /\ "count" \notin device.unread => device.count = Len(k.buttons)
  BY <1>3 DEF DeviceSound
<1>b. progress <= Len(k.buttons)
  BY <1>1, <1>8 DEF FirstButtons
<1>5. progress < IndexRange /\ progress < Len(k.buttons) /\ Byte = progress
  <2>1. progress < IndexRange
    BY <1>1, <1>6, <1>b, ByteFacts
  <2> QED
    BY <1>1, <1>4, <2>1, ByteFacts
<1>7. v = k.buttons[progress + 1]
  BY <1>3, <1>4, <1>5, TruthFacts
<1>c. NewButton(v) \in ButtonType
  BY <1>1 DEF NewButton, ButtonType
<1>2. /\ b \in Seq(ButtonType)
      /\ Len(b) = progress + 1
      /\ DOMAIN b = 1..(progress + 1)
      /\ \A n \in 1..progress : b[n] = device.buttons[n]
      /\ b[progress + 1] = NewButton(v)
  BY <1>1, <1>5, <1>c, StoredFacts
<1>d. /\ m \in Seq(ButtonType)
      /\ Len(m) = Len(k.buttons)
      /\ DOMAIN m = 1..Len(k.buttons)
      /\ \A n \in 1..Len(k.buttons) : m[n] = [cid |-> k.buttons[n], round |-> n - 1]
  BY <1>6, MadeFacts
<1>e. m[progress + 1] = NewButton(v)
  <2>1. progress + 1 \in 1..Len(k.buttons) /\ (progress + 1) - 1 = progress
    BY <1>1, <1>5, <1>6
  <2>2. m[progress + 1] = [cid |-> k.buttons[progress + 1], round |-> (progress + 1) - 1]
    BY <1>d, <2>1
  <2> QED
    BY <1>7, <2>1, <2>2 DEF NewButton
<1>f. \A n \in DOMAIN device.buttons : device.buttons[n] = m[n]
  BY <1>8 DEF FirstButtons
<1> HIDE DEF b, k, m
<1>9. ASSUME NEW n \in 1..(progress + 1)
      PROVE  b[n] = m[n]
  <2>1. CASE n \in 1..progress
    <3>1. n \in DOMAIN device.buttons
      BY <1>1, <2>1, LenProperties
    <3> QED
      BY <1>2, <1>f, <2>1, <3>1
  <2>2. CASE n = progress + 1
    BY <1>2, <1>e, <2>2
  <2> QED
    BY <1>1, <2>1, <2>2
<1>10. FirstButtons(b, k)
  BY <1>1, <1>2, <1>5, <1>6, <1>9 DEF FirstButtons, m
<1>11. ASSUME "count" \notin device.unread, progress + 1 >= device.count
       PROVE  b = m
  <2>1. Len(m) = progress + 1
    BY <1>1, <1>5, <1>6, <1>8, <1>d, <1>11
  <2> QED
    BY <1>2, <1>d, <1>9, <2>1, SeqEqual
<1> QED
  BY <1>10, <1>11 DEF b, k, m

LEMMA ButtonSound ==
  ASSUME ScanInv, RestType, CollectedSound, DeviceSound, step = "button",
         NEW how, NEW v \in ButtonIds, Button(how, v), TrueTo(how, v)
  PROVE  CollectedSound' /\ DeviceSound'
<1> DEFINE extended == [device EXCEPT !.buttons = Stored(@, NewButton(v))]
           k == hardware[index]
<1>a. /\ hardware' = hardware /\ misled \subseteq misled'
      /\ index \notin misled' => index \notin misled
  BY DEF TrueTo
<1>1. /\ extended.features = device.features
      /\ extended.unread = device.unread
      /\ extended.count = device.count
      /\ extended.buttons = Stored(device.buttons, NewButton(v))
  BY Stages DEF DeviceType
<1>2. index \in Indexes /\ "root" \in device.features
  BY IndexInRange DEF ScanInv, Construction
<1>3. index \notin misled => k # NoDevice /\ device.features \subseteq k.features
  BY <1>2 DEF DeviceSound, FeaturesOf
<1> HIDE DEF extended
<1>4. CASE how # "data"
  BY <1>4, <1>a, AbandonSound DEF Button
<1>5. CASE how = "data"
  <2>1. index \notin misled' =>
           /\ FirstButtons(extended.buttons, k)
           /\ "count" \notin device.unread => device.count = Len(k.buttons)
           /\ "count" \notin device.unread /\ progress + 1 >= device.count =>
                extended.buttons = Made(k.buttons)
    BY <1>a, <1>1, <1>5, NextButton DEF DeviceSound
  <2>2. CASE progress + 1 >= device.count
    <3>1. Publish(extended, Allocate("button"))
      BY <1>5, <2>2 DEF Button, Fill, extended, NewButton
    <3>2. index \notin misled' => Sound(extended, k)
      BY <1>a, <1>1, <1>3, <2>1, <2>2 DEF Sound
    <3> QED
      BY <1>a, <3>1, <3>2, PublishSound
  <2>3. CASE ~(progress + 1 >= device.count)
    <3>1. device' = extended /\ UNCHANGED <<index, step, devices, hardware>>
      BY <1>a, <1>5, <2>3 DEF Button, Fill, Again, extended, NewButton
    <3>2. CollectedSound'
      BY <1>a, <3>1 DEF CollectedSound
    <3>3. index \notin misled' => device'.features \subseteq FeaturesOf(k)
      BY <1>a, <1>1, <1>3, <3>1 DEF FeaturesOf
    <3>4. index \notin misled' =>
             /\ FirstButtons(device'.buttons, k)
             /\ "count" \notin device'.unread => device'.count = Len(k.buttons)
      BY <1>1, <2>1, <3>1
    <3>5. DeviceSound'
      BY <3>1, <3>3, <3>4 DEF DeviceSound
    <3> QED
      BY <3>2, <3>5
  <2> QED
    BY <2>2, <2>3
<1> QED
  BY <1>4, <1>5

LEMMA MixStep ==
  ASSUME ScanInv, RestType, InOrder, MixInv, [Next]_vars
  PROVE  MixInv'
<1>1. CASE UNCHANGED <<scan, hardware, misled>>
  <2>1. CollectedSound'
    BY <1>1 DEF scan, MixInv, CollectedSound
  <2>2. DeviceSound'
    BY <1>1 DEF scan, MixInv, DeviceSound
  <2> QED
    BY <2>1, <2>2 DEF MixInv
<1>2. CASE WriteFails \/ Answered
  <2>1. PICK how, v : Outcome(how, v) /\ Use(how, v) /\ hardware' = hardware
    BY <1>2, Exchanged DEF ScanInv
  <2>2. CollectedSound /\ DeviceSound /\ TrueTo(how, v)
    BY <2>1 DEF Outcome, TrueTo, MixInv
  <2>3. v \in Readings(how) /\ misled \subseteq misled'
    BY <2>2 DEF TrueTo
  <2>4. CASE step = "feature"
    BY <2>1, <2>2, <2>4, FeatureSound DEF Use, MixInv
  <2>5. CASE step \in {"protocol", "type", "length", "name"}
    BY <2>1, <2>2, <2>3, <2>5, MiddleSound DEF Use, MixInv
  <2>6. CASE step = "count"
    <3>1. v \in 0..MaxButtons
      BY <2>3, <2>6, ReadingsFacts, ScanAssumption
    <3> QED
      BY <2>1, <2>2, <2>6, <3>1, CountSound DEF Use, MixInv
  <2>7. CASE step = "button"
    BY <2>1, <2>2, <2>3, <2>7, ReadingsFacts, ButtonSound DEF Use, MixInv
  <2> QED
    BY <2>1, <2>4, <2>5, <2>6, <2>7 DEF Use
<1>3. CASE Ask
  BY <1>1, <1>3 DEF Ask, history
<1>4. CASE UNCHANGED vars
  BY <1>1, <1>4 DEF vars, history
<1> QED
  BY <1>2, <1>3, <1>4 DEF Next

LEMMA MixInvariant == Spec => []MixInv
<1>1. Init => MixInv
  <2> SUFFICES ASSUME Init PROVE CollectedSound /\ DeviceSound
    BY DEF MixInv
  <2>1. devices = <<>> /\ device.features = {} /\ step = "feature"
    BY DEF Init, Blank
  <2>2. CollectedSound
    BY <2>1 DEF CollectedSound
  <2> QED
    BY <2>1, <2>2 DEF DeviceSound
<1>2. ScanInv /\ RestType /\ InOrder /\ MixInv /\ [Next]_vars => MixInv'
  BY MixStep
<1> QED
  BY <1>1, <1>2, ScanInvariant, PTL DEF Spec

-------------------------------------------------------------------------------
(* Until a stray has been handed out, what is described is there.          *)

\* What the functions that use an exchange do to the device and to the list.
LEMMA UseShape ==
  ASSUME ScanInv, NEW how, NEW v, Use(how, v)
  PROVE  /\ \/ devices' = devices
            \/ device.features # {} /\ \E d, blocks : Publish(d, blocks)
         /\ \/ device'.features = {}
            \/ index' = index /\ (device.features # {} \/ how = "data")
<1>1. ASSUME NEW parts, Abandon(parts)
      PROVE  devices' = devices /\ device'.features = {}
  BY <1>1, LeaveShape DEF Abandon, Blank
<1>2. ASSUME NEW d, NEW blocks, Publish(d, blocks)
      PROVE  device'.features = {} /\ \E e, bs : Publish(e, bs)
  <2>1. device'.features = {}
    BY <1>2, LeaveShape DEF Publish, Blank
  <2> QED
    BY <1>2, <2>1
<1>3. /\ device \in DeviceType
      /\ step \notin {"feature", "done"} => device.features # {}
  BY Stages DEF ScanInv, Construction
<1>4. CASE step = "feature" /\ Feature(how, v)
  <2> DEFINE has == how = "data" /\ v
             id  == FeatureIds[progress + 1]
  <2>1. CASE id = "root" /\ ~has
    BY <1>1, <1>4, <2>1 DEF Feature
  <2>2. CASE ~(id = "root" /\ ~has)
    <3>1. /\ \/ has
             \/ device' = device
          /\ Again \/ Goto("protocol")
      BY <1>4, <2>2 DEF Feature
    <3>2. index' = index /\ devices' = devices
      BY <3>1 DEF Again, Goto
    <3> QED
      BY <3>1, <3>2
  <2> QED
    BY <2>1, <2>2
<1>5. CASE step = "protocol" /\ Protocol(how, v)
  BY <1>1, <1>3, <1>5 DEF Protocol, Goto
<1>6. CASE step = "type" /\ Type(how, v)
  BY <1>1, <1>3, <1>6 DEF Type, Goto
<1>7. CASE step = "length" /\ NameLength(how, v)
  BY <1>1, <1>3, <1>7 DEF NameLength, Goto
<1>8. CASE step = "name" /\ NameChunk(how, v)
  BY <1>1, <1>3, <1>8 DEF NameChunk, Goto, Again
<1>9. CASE step = "count" /\ Count(how, v)
  BY <1>1, <1>2, <1>3, <1>9 DEF Count, Goto
<1>10. CASE step = "button" /\ Button(how, v)
  BY <1>1, <1>2, <1>3, <1>10 DEF Button, Fill, Again
<1> QED
  BY <1>4, <1>5, <1>6, <1>7, <1>8, <1>9, <1>10 DEF Use

LEMMA ThereStep ==
  ASSUME ScanInv, RestType, InOrder, ThereInv, [Next]_vars
  PROVE  ThereInv'
<1> SUFFICES ASSUME strays' = 0 PROVE There'
  BY DEF ThereInv
<1>1. CASE UNCHANGED <<scan, hardware>> /\ strays = 0
  BY <1>1 DEF ThereInv, There, scan
<1>2. CASE WriteFails \/ Answered
  <2>1. PICK how, v : Outcome(how, v) /\ Use(how, v) /\ hardware' = hardware
    BY <1>2, Exchanged DEF ScanInv
  <2>2. There /\ (how = "data" => hardware[index] # NoDevice)
    BY <2>1 DEF Outcome, ThereInv
  <2>3. /\ \/ devices' = devices
           \/ device.features # {} /\ \E d, blocks : Publish(d, blocks)
        /\ \/ device'.features = {}
           \/ index' = index /\ (device.features # {} \/ how = "data")
    BY <2>1, UseShape
  <2>4. device'.features # {} => hardware'[index'] # NoDevice
    BY <2>1, <2>2, <2>3 DEF There
  <2>5. ASSUME NEW n \in DOMAIN devices'
        PROVE  hardware[devices'[n].index] # NoDevice
    <3>1. CASE devices' = devices
      BY <2>2, <2>5, <3>1 DEF There
    <3>2. CASE device.features # {} /\ \E d, blocks : Publish(d, blocks)
      <4>1. PICK d, blocks : Publish(d, blocks)
        BY <3>2
      <4>2. /\ Len(devices) \in Nat
            /\ DOMAIN devices = 1..Len(devices)
            /\ DOMAIN devices' = 1..(Len(devices) + 1)
            /\ \A m \in DOMAIN devices : devices'[m] = devices[m]
            /\ devices'[Len(devices) + 1] = [index |-> index, kind |-> d]
        BY <4>1, Collecting
      <4>3. CASE n \in DOMAIN devices
        BY <2>2, <4>2, <4>3 DEF There
      <4>4. CASE n = Len(devices) + 1
        BY <2>2, <3>2, <4>2, <4>4 DEF There
      <4> QED
        BY <2>5, <4>2, <4>3, <4>4
    <3> QED
      BY <2>3, <3>1, <3>2
  <2> QED
    BY <2>1, <2>4, <2>5 DEF There
<1>3. CASE Ask
  <2>1. RR!Call(Question) /\ UNCHANGED <<scan, hardware>> /\ step # "done"
    BY <1>3 DEF Ask
  <2>2. /\ index \in Indexes /\ step \in Steps
        /\ progress + 1 \in Nat /\ Byte + 1 \in Nat
    BY <2>1, IndexInRange, ByteFacts DEF ScanInv, ScanType
  <2>3. Question \in [index : Indexes, step : Steps, arg : Nat]
    BY <2>2 DEF Question
  <2>4. strays = 0
    BY <2>1, <2>3, Asked
  <2> QED
    BY <1>1, <2>1, <2>4
<1>4. CASE UNCHANGED vars
  BY <1>1, <1>4 DEF vars, channel, strays
<1> QED
  BY <1>2, <1>3, <1>4 DEF Next

LEMMA ThereInvariant == Spec => []ThereInv
<1>1. Init => ThereInv
  <2> SUFFICES ASSUME Init PROVE There
    BY DEF ThereInv
  <2>1. devices = <<>> /\ device.features = {}
    BY DEF Init, Blank
  <2> QED
    BY <2>1 DEF There
<1>2. ScanInv /\ RestType /\ InOrder /\ ThereInv /\ [Next]_vars => ThereInv'
  BY ThereStep
<1> QED
  BY <1>1, <1>2, ScanInvariant, PTL DEF Spec

\* Until a stray has been handed out a device is described only where there is one;
\* and whatever fails and whatever strays say, the features and buttons of a device
\* collected are those of the hardware at its own index, but at the indexes where
\* the scan itself was misled.
THEOREM MixCorrect == Spec => []NothingMixedUp
<1>1. ASSUME ScanInv, RestType, MixInv, ThereInv
      PROVE  NothingMixedUp
  <2>1. SUFFICES ASSUME NEW n \in DOMAIN devices
                 PROVE  LET d == devices[n].kind
                            k == hardware[devices[n].index]
                        IN  /\ strays = 0 => k # NoDevice
                            /\ devices[n].index \notin misled =>
                                 /\ k # NoDevice
                                 /\ d.features \subseteq k.features
                                 /\ IsPrefix(d.buttons, Made(k.buttons))
                                 /\ "count" \notin d.unread => d.buttons = Made(k.buttons)
    BY DEF NothingMixedUp
  <2> DEFINE d == devices[n].kind
             k == hardware[devices[n].index]
             m == Made(k.buttons)
  <2>2. strays = 0 => k # NoDevice
    BY <1>1 DEF ThereInv, There
  <2>3. ASSUME devices[n].index \notin misled
        PROVE  /\ k # NoDevice
               /\ d.features \subseteq k.features
               /\ IsPrefix(d.buttons, m)
               /\ "count" \notin d.unread => d.buttons = m
    <3>1. Sound(d, k)
      BY <1>1, <2>3 DEF MixInv, CollectedSound
    <3>2. d \in DeviceType /\ devices[n].index \in Indexes
      BY <1>1, CollectedType DEF ScanInv
    <3>3. k # NoDevice
      BY <3>1 DEF Sound
    <3>4. d.buttons \in Seq(ButtonType) /\ k.buttons \in Seq(ButtonIds)
      BY <1>1, <3>2, <3>3, HardwareType DEF DeviceType, ButtonType
    <3>5. /\ m \in Seq(ButtonType)
          /\ Len(m) = Len(k.buttons)
      BY <3>4, MadeFacts
    <3>6. Len(d.buttons) <= Len(m) /\ \A j \in DOMAIN d.buttons : d.buttons[j] = m[j]
      BY <3>1, <3>5 DEF Sound, FirstButtons
    <3> HIDE DEF d, k, m
    <3>7. IsPrefix(d.buttons, m)
      BY <3>4, <3>5, <3>6, SubSeqProperties, SeqEqual, LenProperties DEF IsPrefix
    <3> QED
      BY <3>1, <3>3, <3>7 DEF Sound, m
  <2> QED
    BY <2>2, <2>3
<1> QED
  BY <1>1, ScanInvariant, MixInvariant, ThereInvariant, PTL

-------------------------------------------------------------------------------
(* When nothing goes wrong, the mice are found.                            *)

\* A step of a scan in which nothing has gone wrong.
FlawlessTo(how, v) ==
  /\ TrueTo(how, v)
  /\ how \in {"error", "data"}
  /\ misled' = misled \/ misled' = misled \cup {index}
  /\ how = "error" \/ index \in misled' => ~Understood
  /\ how # "data" => misled' = misled
  /\ how = "data" => hardware[index] # NoDevice

LEMMA BlankClean ==
  ASSUME step' \in {"feature", "done"}, device' = Blank, progress' = 0
  PROVE  DeviceClean'
<1>1. device'.features = {} /\ device'.unread = {}
  BY DEF Blank
<1>2. {FeatureIds[n] : n \in 1..progress'} = {}
  OBVIOUS
<1> QED
  BY <1>1, <1>2 DEF DeviceClean

LEMMA AbandonClean ==
  ASSUME ScanInv, CollectedClean, hardware' = hardware, misled' = {},
         NEW parts, Abandon(parts), ~Detectable(hardware[index])
  PROVE  CollectedClean' /\ DeviceClean'
<1>1. /\ devices' = devices /\ step' \in {"feature", "done"} /\ device' = Blank
      /\ index' = index + 1 /\ progress' = 0
  BY LeaveShape DEF Abandon
<1>2. index \in Nat
  BY ScanAssumption DEF ScanInv, ScanType
<1>3. \A i \in 1..(index' - 1) : Detectable(hardware[i]) => Collected(i)
  BY <1>1, <1>2 DEF CollectedClean
<1>4. \A i : Collected(i)' <=> Collected(i)
  BY <1>1 DEF Collected
<1>5. \A k : Detectable(k)' <=> Detectable(k)
  BY DEF Detectable
<1>6. \A i : Description(i)' = Description(i)
  BY DEF Description
<1>7. CollectedClean'
  BY <1>1, <1>3, <1>4, <1>6 DEF CollectedClean
<1> QED
  BY <1>1, <1>7, BlankClean

LEMMA PublishClean ==
  ASSUME ScanInv, CollectedClean, hardware' = hardware, misled' = {},
         NEW d, NEW blocks, Publish(d, blocks), Detectable(hardware[index]),
         [index |-> index, kind |-> d] = Description(index)
  PROVE  CollectedClean' /\ DeviceClean'
<1>1. /\ step' \in {"feature", "done"} /\ device' = Blank
      /\ index' = index + 1 /\ progress' = 0
  BY LeaveShape DEF Publish
<1>2. index \in Nat
  BY ScanAssumption DEF ScanInv, ScanType
<1>3. /\ Len(devices) \in Nat
      /\ DOMAIN devices = 1..Len(devices)
      /\ DOMAIN devices' = 1..(Len(devices) + 1)
      /\ \A n \in DOMAIN devices : devices'[n] = devices[n]
      /\ devices'[Len(devices) + 1] = Description(index)
  BY Collecting
<1>4. Description(index).index = index
  BY DEF Description
<1>5. \A n \in DOMAIN devices : devices[n].index < index
  BY DEF ScanInv, Behind
<1>6. ASSUME NEW m \in DOMAIN devices', NEW n \in DOMAIN devices', m < n
      PROVE  devices'[m].index < devices'[n].index
  <2>1. m \in DOMAIN devices
    BY <1>3, <1>6
  <2>2. CASE n \in DOMAIN devices
    BY <1>3, <1>6, <2>1, <2>2 DEF CollectedClean
  <2>3. CASE n = Len(devices) + 1
    BY <1>3, <1>4, <1>5, <2>1, <2>3
  <2> QED
    BY <1>3, <2>2, <2>3
<1>7. ASSUME NEW n \in DOMAIN devices'
      PROVE  /\ Detectable(hardware[devices'[n].index])
             /\ devices'[n] = Description(devices'[n].index)
  <2>1. CASE n \in DOMAIN devices
    BY <1>3, <2>1 DEF CollectedClean
  <2>2. CASE n = Len(devices) + 1
    BY <1>3, <1>4, <2>2
  <2> QED
    BY <1>3, <2>1, <2>2
<1>8. ASSUME NEW i \in 1..(index' - 1), Detectable(hardware[i])
      PROVE  \E n \in DOMAIN devices' : devices'[n].index = i
  <2>1. CASE i = index
    BY <1>3, <1>4, <2>1
  <2>2. CASE i # index
    <3>1. Collected(i)
      BY <1>1, <1>2, <1>8, <2>2 DEF CollectedClean
    <3> QED
      BY <1>3, <3>1 DEF Collected
  <2> QED
    BY <2>1, <2>2
<1>9. \A i : Description(i)' = Description(i)
  BY DEF Description
<1>10. CollectedClean'
  BY <1>6, <1>7, <1>8, <1>9 DEF CollectedClean, Collected
<1> QED
  BY <1>1, <1>10, BlankClean

\* A step that stays with the device leaves the devices collected as they are.
LEMMA SameCollected ==
  ASSUME CollectedClean, UNCHANGED <<hardware, index, devices>>, misled' = {}
  PROVE  CollectedClean'
<1>1. \A i : Collected(i)' <=> Collected(i)
  BY DEF Collected
<1>2. \A i : Description(i)' = Description(i)
  BY DEF Description
<1> QED
  BY <1>1, <1>2 DEF CollectedClean

\* Past the features, a device that is there and is asked for a feature it has
\* does not fail.
LEMMA Answers ==
  ASSUME ScanInv, misled = {}, DeviceClean, step \notin {"feature", "done"},
         Predictable(hardware[index]), NEW how, NEW v, FlawlessTo(how, v)
  PROVE  /\ hardware[index] # NoDevice
         /\ device.features = hardware[index].features
         /\ "root" \in hardware[index].features
         /\ step \in {"count", "button"} => "controls_v4" \in device.features
         /\ how = "data" /\ v = Truth(hardware[index])
         /\ index \notin misled' /\ misled' = {}
<1> DEFINE k == hardware[index]
<1>1. device.features = FeaturesOf(k) /\ "root" \in device.features
  BY DEF DeviceClean, ScanInv, Construction
<1>2. k # NoDevice /\ device.features = k.features
  BY <1>1 DEF FeaturesOf
<1>3. "name_type" \in k.features /\ (k.type = "mouse" => "controls_v4" \in k.features)
  BY <1>2 DEF Predictable
<1>4. step \in {"count", "button"} => k.type = "mouse"
  BY DEF DeviceClean
<1>5. Addressed
  BY <1>2, <1>3, <1>4 DEF Addressed
<1>6. step = "button" => Byte < Len(k.buttons)
  <2>1. SUFFICES ASSUME step = "button" PROVE Byte < Len(k.buttons)
    OBVIOUS
  <2>2. device.count = Len(k.buttons) /\ device.unread = {}
    BY <2>1 DEF DeviceClean
  <2>3. progress \in Nat /\ progress < device.count /\ device.count < IndexRange
    BY <2>1, <2>2, Stages
  <2>4. device.count \in Nat /\ IndexRange \in Nat
    BY Stages, ScanAssumption DEF DeviceType
  <2> QED
    BY <2>2, <2>3, <2>4, ByteFacts
<1>7. Understood
  BY <1>2, <1>5, <1>6 DEF Understood
<1>8. index \notin misled' /\ misled' = {}
  BY <1>7 DEF FlawlessTo
<1>9. how = "data" /\ v = Truth(k)
  BY <1>7, <1>8 DEF FlawlessTo, TrueTo
<1> QED
  BY <1>1, <1>2, <1>3, <1>4, <1>8, <1>9

LEMMA FeatureClean ==
  ASSUME ScanInv, RestType, CollectedClean, DeviceClean, step = "feature",
         NEW how, NEW v, Feature(how, v), FlawlessTo(how, v)
  PROVE  CollectedClean' /\ DeviceClean'
<1> DEFINE has == how = "data" /\ v
           id  == FeatureIds[progress + 1]
           k   == hardware[index]
           asked == {FeatureIds[n] : n \in 1..progress}
           more  == {FeatureIds[n] : n \in 1..(progress + 1)}
<1>a. Understood <=> k # NoDevice
  BY DEF Understood, Addressed
<1>b. misled' = {} /\ index \notin misled'
  <2>1. misled = {} /\ (k # NoDevice => index \notin misled')
    BY <1>a DEF CollectedClean, FlawlessTo
  <2>2. /\ misled' = misled \/ misled' = misled \cup {index}
        /\ how # "data" => misled' = misled
        /\ how = "data" => k # NoDevice
    BY DEF FlawlessTo
  <2> QED
    BY <2>1, <2>2
<1>1. has <=> id \in FeaturesOf(k)
  <2>2. CASE how = "data"
    <3>1. v = Truth(k) /\ k # NoDevice
      BY <1>b, <2>2 DEF FlawlessTo, TrueTo
    <3>2. v = (id \in k.features)
      BY <3>1, TruthFacts
    <3> QED
      BY <2>2, <3>1, <3>2 DEF FeaturesOf
  <2>3. CASE how = "error"
    <3>1. k = NoDevice
      BY <1>a, <2>3 DEF FlawlessTo
    <3> QED
      BY <2>3, <3>1 DEF FeaturesOf
  <2> QED
    BY <2>2, <2>3 DEF FlawlessTo
<1>2. hardware' = hardware
  BY DEF FlawlessTo, TrueTo
<1>3. CASE id = "root" /\ ~has
  <2>1. Abandon({})
    BY <1>3 DEF Feature
  <2>2. ~Detectable(k)
    BY <1>1, <1>3 DEF Detectable, FeaturesOf
  <2> QED
    BY <1>2, <1>b, <2>1, <2>2, AbandonClean
<1>4. CASE ~(id = "root" /\ ~has)
  <2>1. /\ has => device' = [device EXCEPT !.features = @ \cup {id}]
        /\ ~has => device' = device
        /\ progress + 1 < Len(FeatureIds) => Again
        /\ ~(progress + 1 < Len(FeatureIds)) => Goto("protocol")
    BY <1>4 DEF Feature
  <2>2. progress \in Nat /\ progress < Len(FeatureIds) /\ Len(FeatureIds) \in Nat
    BY FeatureIdsFacts DEF ScanInv, ScanType
  <2>3. more = asked \cup {id}
    <3>1. \A n : n \in 1..(progress + 1) <=> n \in 1..progress \/ n = progress + 1
      BY <2>2
    <3> QED
      BY <3>1
  <2>4. device.features = FeaturesOf(k) \cap asked /\ device.unread = {}
    BY DEF DeviceClean
  <2>5. progress + 1 = Len(FeatureIds) => FeaturesOf(k) \cap more = FeaturesOf(k)
    <3>1. FeaturesOf(k) \subseteq Features
      BY IndexInRange, HardwareType DEF ScanInv
    <3>2. progress + 1 = Len(FeatureIds) => more = Features
      BY FeatureIdsFacts DEF Features
    <3> QED
      BY <3>1, <3>2
  <2>6. /\ index' = index /\ devices' = devices
        /\ \/ step' = "feature" /\ progress' = progress + 1
           \/ step' = "protocol" /\ progress + 1 = Len(FeatureIds)
    BY <2>1, <2>2 DEF Again, Goto
  <2> HIDE DEF has, id, k, asked, more
  <2>7. /\ has => device'.features = device.features \cup {id}
        /\ ~has => device'.features = device.features
        /\ device'.unread = device.unread
    BY <2>1, Stages DEF DeviceType
  <2>8. device'.features = FeaturesOf(k) \cap more /\ device'.unread = {}
    BY <1>1, <2>3, <2>4, <2>7
  <2>9. k' = k
    BY <1>2, <2>6 DEF k
  <2>10. DeviceClean'
    <3>1. CASE step' = "feature" /\ progress' = progress + 1
      <4>1. more = {FeatureIds[n] : n \in 1..progress'}
        BY <3>1 DEF more
      <4> QED
        BY <2>8, <2>9, <3>1, <4>1 DEF DeviceClean, k
    <3>2. CASE step' = "protocol" /\ progress + 1 = Len(FeatureIds)
      BY <2>5, <2>8, <2>9, <3>2 DEF DeviceClean, k
    <3> QED
      BY <2>6, <3>1, <3>2
  <2> QED
    BY <1>2, <1>b, <2>6, <2>10, SameCollected
<1> QED
  BY <1>3, <1>4

LEMMA MiddleClean ==
  ASSUME ScanInv, RestType, CollectedClean, DeviceClean, Predictable(hardware[index]),
         NEW how, NEW v, FlawlessTo(how, v),
         \/ step = "protocol" /\ Protocol(how, v)
         \/ step = "type" /\ Type(how, v)
         \/ step = "length" /\ NameLength(how, v)
         \/ step = "name" /\ NameChunk(how, v)
  PROVE  CollectedClean' /\ DeviceClean'
<1> DEFINE k == hardware[index]
<1>1. /\ k # NoDevice
      /\ device.features = k.features
      /\ how = "data" /\ v = Truth(k)
      /\ misled' = {}
  BY Answers DEF CollectedClean
<1>2. hardware' = hardware
  BY DEF FlawlessTo, TrueTo
<1>3. FeaturesOf(k) = device.features
  BY <1>1 DEF FeaturesOf
<1>4. device \in DeviceType /\ device.unread = {}
  BY Stages DEF DeviceClean
<1>5. CASE step = "protocol"
  <2>1. step' = "type" /\ UNCHANGED <<index, devices, device>>
    BY <1>1, <1>5 DEF Protocol, Goto
  <2>2. DeviceClean'
    BY <1>2, <1>3, <1>4, <2>1 DEF DeviceClean
  <2> QED
    BY <1>2, <2>1, <2>2, <1>1, SameCollected
<1>6. CASE step = "type"
  <2>1. v = k.type
    BY <1>1, <1>6, TruthFacts
  <2>2. CASE v # "mouse"
    <3>1. Abandon({"protocol"})
      BY <1>6, <2>2 DEF Type
    <3>2. ~Detectable(k)
      BY <2>1, <2>2 DEF Detectable
    <3> QED
      BY <1>2, <3>1, <3>2, <1>1, AbandonClean
  <2>3. CASE v = "mouse"
    <3>1. /\ device' = [device EXCEPT !.type = v, !.unread = @]
          /\ step' = "length"
          /\ UNCHANGED <<index, devices>>
      BY <1>1, <1>6, <2>3 DEF Type, Goto
    <3>2. /\ device'.features = device.features
          /\ device'.unread = {}
          /\ device'.type = "mouse"
      BY <1>4, <2>3, <3>1 DEF DeviceType
    <3>3. DeviceClean'
      BY <1>2, <1>3, <2>1, <2>3, <3>1, <3>2 DEF DeviceClean
    <3> QED
      BY <1>2, <3>1, <3>3, <1>1, SameCollected
  <2> QED
    BY <2>2, <2>3
<1>7. CASE step \in {"length", "name"}
  <2>1. step' \in {"name", "count"} /\ UNCHANGED <<index, devices, device>>
    <3>1. CASE step = "length"
      BY <1>1, <3>1 DEF NameLength, Goto
    <3>2. CASE step = "name"
      BY <1>1, <3>2 DEF NameChunk, Goto, Again
    <3> QED
      BY <1>7, <3>1, <3>2
  <2>2. device.type = "mouse" /\ k.type = "mouse"
    BY <1>7 DEF DeviceClean
  <2>3. DeviceClean'
    BY <1>2, <1>3, <1>4, <2>1, <2>2 DEF DeviceClean
  <2> QED
    BY <1>2, <2>1, <2>3, <1>1, SameCollected
<1> QED
  BY <1>5, <1>6, <1>7

LEMMA CountClean ==
  ASSUME ScanInv, RestType, CollectedClean, DeviceClean, Predictable(hardware[index]),
         step = "count", NEW how, NEW v, FlawlessTo(how, v), Count(how, v)
  PROVE  CollectedClean' /\ DeviceClean'
<1> DEFINE k == hardware[index]
<1>1. /\ k # NoDevice
      /\ device.features = k.features
      /\ how = "data" /\ v = Truth(k)
      /\ misled' = {}
  BY Answers DEF CollectedClean
<1>2. hardware' = hardware
  BY DEF FlawlessTo, TrueTo
<1>3. v = Len(k.buttons)
  BY <1>1, TruthFacts
<1>4. k.buttons \in Seq(ButtonIds)
  BY <1>1, IndexInRange, HardwareType DEF ScanInv
<1>5. CASE v = 0
  <2>1. Abandon({"protocol", "name"})
    BY <1>1, <1>5 DEF Count
  <2>2. ~Detectable(k)
    BY <1>3, <1>4, <1>5, EmptySeq DEF Detectable
  <2> QED
    BY <1>2, <2>1, <2>2, <1>1, AbandonClean
<1>6. CASE v # 0
  <2>1. /\ device' = [device EXCEPT !.count = v, !.unread = @]
        /\ step' = "button"
        /\ UNCHANGED <<index, devices>>
    BY <1>1, <1>6 DEF Count, Goto
  <2>2. /\ device'.features = device.features
        /\ device'.unread = device.unread
        /\ device'.type = device.type
        /\ device'.count = v
    BY <2>1, Stages DEF DeviceType
  <2>3. device.unread = {} /\ device.type = "mouse" /\ k.type = "mouse"
    BY DEF DeviceClean
  <2>4. FeaturesOf(k) = device.features
    BY <1>1 DEF FeaturesOf
  <2>5. DeviceClean'
    BY <1>2, <1>3, <2>1, <2>2, <2>3, <2>4 DEF DeviceClean
  <2> QED
    BY <1>2, <2>1, <2>5, <1>1, SameCollected
<1> QED
  BY <1>5, <1>6

LEMMA WithButton ==
  ASSUME device \in DeviceType, NEW x
  PROVE  [device EXCEPT !.buttons = x] =
           [features |-> device.features, type |-> device.type,
            buttons |-> x, count |-> device.count,
            unread |-> device.unread]
<1>1. PICK f, t, b, c, u :
        device = [features |-> f, type |-> t, buttons |-> b, count |-> c, unread |-> u]
  BY DEF DeviceType
<1>2. [device EXCEPT !.buttons = x] =
        [features |-> f, type |-> t, buttons |-> x, count |-> c, unread |-> u]
  BY <1>1
<1>3. /\ device.features = f /\ device.type = t /\ device.buttons = b
      /\ device.count = c /\ device.unread = u
  BY <1>1
<1> QED
  BY <1>2, <1>3, Zenon

LEMMA ButtonClean ==
  ASSUME ScanInv, RestType, DeviceSound, CollectedClean, DeviceClean,
         Predictable(hardware[index]), step = "button",
         NEW how, NEW v \in ButtonIds, FlawlessTo(how, v), Button(how, v)
  PROVE  CollectedClean' /\ DeviceClean'
<1> DEFINE stored   == Stored(device.buttons, NewButton(v))
           extended == [device EXCEPT !.buttons = stored]
           k == hardware[index]
<1>1. /\ k # NoDevice
      /\ device.features = k.features
      /\ "root" \in k.features
      /\ "controls_v4" \in device.features
      /\ how = "data"
      /\ misled' = {} /\ index \notin misled'
  BY Answers DEF CollectedClean
<1>2. hardware' = hardware /\ TrueTo("data", v)
  BY <1>1 DEF FlawlessTo, TrueTo
<1>3. /\ device.unread = {} /\ device.type = "mouse" /\ k.type = "mouse"
      /\ device.count = Len(k.buttons)
  BY DEF DeviceClean
<1>4. device \in DeviceType
  BY Stages
<1>5. CASE progress + 1 >= device.count
  <2>1. Publish(extended, Allocate("button"))
    BY <1>1, <1>5 DEF Button, Fill, NewButton
  <2>2. stored = Made(k.buttons)
    BY <1>1, <1>2, <1>3, <1>5, NextButton
  <2> HIDE DEF stored
  <2>3. extended = [features |-> k.features, type |-> "mouse", buttons |-> Made(k.buttons),
                    count |-> Len(k.buttons), unread |-> {}]
    <3>1. extended = [features |-> device.features, type |-> device.type,
                      buttons |-> stored, count |-> device.count,
                      unread |-> device.unread]
      BY <1>4, WithButton
    <3> QED
      BY <1>1, <1>3, <2>2, <3>1, Zenon
  <2>4. [index |-> index, kind |-> extended] = Description(index)
    BY <2>3 DEF Description
  <2>5. Detectable(k)
    <3>1. progress \in Nat /\ progress < Len(k.buttons)
      BY <1>3, Stages
    <3>2. k.buttons # <<>>
      BY <3>1, EmptySeq
    <3> QED
      BY <1>1, <1>3, <3>2 DEF Detectable
  <2> HIDE DEF extended
  <2> QED
    BY <1>1, <1>2, <2>1, <2>4, <2>5, PublishClean
<1>6. CASE ~(progress + 1 >= device.count)
  <2>1. device' = extended /\ UNCHANGED <<index, step, devices>>
    BY <1>1, <1>6 DEF Button, Fill, Again, NewButton
  <2>2. /\ device'.features = device.features
        /\ device'.unread = device.unread
        /\ device'.type = device.type
        /\ device'.count = device.count
    BY <1>4, <2>1 DEF DeviceType
  <2>3. DeviceClean'
    BY <1>1, <1>2, <1>3, <2>1, <2>2 DEF DeviceClean, FeaturesOf
  <2> QED
    BY <1>1, <1>2, <2>1, <2>3, SameCollected
<1> QED
  BY <1>5, <1>6

LEMMA CleanStep ==
  ASSUME ScanInv, RestType, InOrder, MixInv, CleanInv, [Next]_vars
  PROVE  CleanInv'
<1> SUFFICES ASSUME Clean' PROVE CollectedClean' /\ DeviceClean'
  BY DEF CleanInv
<1>1. errors' = 0 /\ strays' = 0
  BY DEF Clean
<1>2. ASSUME hardware' = hardware, errors = 0, strays = 0
      PROVE  Clean
  BY <1>2 DEF Clean, Predictable
<1>3. ASSUME UNCHANGED <<scan, hardware, misled>>, errors = 0, strays = 0
      PROVE  CollectedClean' /\ DeviceClean'
  <2>1. CollectedClean /\ DeviceClean
    BY <1>2, <1>3 DEF CleanInv
  <2>2. CollectedClean'
    BY <1>3, <2>1, SameCollected DEF scan, CollectedClean
  <2>3. DeviceClean'
    BY <1>3, <2>1 DEF scan, DeviceClean
  <2> QED
    BY <2>2, <2>3
<1>4. CASE WriteFails \/ Answered
  <2>1. PICK how, v : Outcome(how, v) /\ Use(how, v) /\ hardware' = hardware
    BY <1>4, Exchanged DEF ScanInv
  <2>a. Clean
    BY <1>1, <1>2, <2>1 DEF Outcome
  <2>3. CollectedClean /\ DeviceClean /\ DeviceSound /\ misled = {}
    BY <2>a DEF CleanInv, CollectedClean, MixInv
  <2>2. FlawlessTo(how, v) /\ v \in Readings(how)
    BY <1>1, <2>1, <2>3 DEF Outcome, FlawlessTo, TrueTo
  <2>4. Predictable(hardware[index])
    <3>1. step # "done"
      BY <2>1 DEF Use
    <3> QED
      BY <2>a, <3>1, IndexInRange DEF ScanInv, Clean
  <2>5. CASE step = "feature"
    BY <2>1, <2>2, <2>3, <2>5, FeatureClean DEF Use
  <2>6. CASE step \in {"protocol", "type", "length", "name"}
    BY <2>1, <2>2, <2>3, <2>4, <2>6, MiddleClean DEF Use
  <2>7. CASE step = "count"
    BY <2>1, <2>2, <2>3, <2>4, <2>7, CountClean DEF Use
  <2>8. CASE step = "button"
    BY <2>1, <2>2, <2>3, <2>4, <2>8, ReadingsFacts, ButtonClean DEF Use
  <2> QED
    BY <2>1, <2>5, <2>6, <2>7, <2>8 DEF Use
<1>5. CASE Ask
  <2>1. step # "done" /\ RR!Call(Question) /\ UNCHANGED <<errors, misled, scan, hardware>>
    BY <1>5 DEF Ask, history
  <2>2. /\ index \in Indexes /\ step \in Steps
        /\ progress + 1 \in Nat /\ Byte + 1 \in Nat
    BY <2>1, IndexInRange, ByteFacts DEF ScanInv, ScanType
  <2>3. Question \in [index : Indexes, step : Steps, arg : Nat]
    BY <2>2 DEF Question
  <2>4. strays = 0 /\ errors = 0
    BY <1>1, <2>1, <2>3, Asked
  <2> QED
    BY <1>3, <2>1, <2>4
<1>6. CASE UNCHANGED vars
  <2>1. strays = 0 /\ errors = 0 /\ UNCHANGED <<scan, hardware, misled>>
    BY <1>1, <1>6 DEF vars, history, channel, strays
  <2> QED
    BY <1>3, <2>1
<1> QED
  BY <1>4, <1>5, <1>6 DEF Next

LEMMA CleanInvariant == Spec => []CleanInv
<1>1. Init => CleanInv
  <2> SUFFICES ASSUME Init PROVE CollectedClean /\ DeviceClean
    BY DEF CleanInv
  <2>1. /\ devices = <<>> /\ device.features = {} /\ device.unread = {}
        /\ step = "feature" /\ progress = 0 /\ index = 1 /\ misled = {}
    BY DEF Init, Blank
  <2>2. CollectedClean
    BY <2>1 DEF CollectedClean
  <2>3. {FeatureIds[n] : n \in 1..progress} = {}
    BY <2>1
  <2> QED
    BY <2>1, <2>2, <2>3 DEF DeviceClean
<1>2. ScanInv /\ RestType /\ InOrder /\ MixInv /\ CleanInv /\ [Next]_vars => CleanInv'
  BY CleanStep
<1> QED
  BY <1>1, <1>2, ScanInvariant, MixInvariant, PTL DEF Spec

\* A scan in which no exchange fails and no stray is handed out finds exactly the
\* mice that have buttons, whole and in order, for every set of devices paired
\* with the receiver.
THEOREM CleanCorrect == Spec => []CleanScanExact
<1>1. ASSUME ScanInv, CleanInv
      PROVE  CleanScanExact
  <2>1. SUFFICES ASSUME step = "done", Clean
                 PROVE  /\ \A m, n \in DOMAIN devices :
                             m < n => devices[m].index < devices[n].index
                        /\ {devices[n] : n \in DOMAIN devices} =
                             {Description(i) : i \in {j \in Indexes : Detectable(hardware[j])}}
    BY DEF CleanScanExact, Clean
  <2>2. CollectedClean
    BY <1>1, <2>1 DEF CleanInv
  <2>3. index - 1 = LastIndex /\ Indexes = 1..(index - 1)
    BY <1>1, <2>1, ScanAssumption DEF ScanInv, Construction, Indexes
  <2>4. ASSUME NEW n \in DOMAIN devices
        PROVE  \E i \in {j \in Indexes : Detectable(hardware[j])} : devices[n] = Description(i)
    BY <1>1, <2>2, CollectedType DEF ScanInv, CollectedClean
  <2>5. ASSUME NEW i \in Indexes, Detectable(hardware[i])
        PROVE  \E n \in DOMAIN devices : devices[n] = Description(i)
    <3>1. PICK n \in DOMAIN devices : devices[n].index = i
      BY <2>2, <2>3, <2>5 DEF CollectedClean, Collected
    <3> QED
      BY <2>2, <3>1 DEF CollectedClean
  <2> QED
    BY <2>2, <2>4, <2>5 DEF CollectedClean
<1> QED
  BY <1>1, ScanInvariant, CleanInvariant, PTL
===============================================================================
