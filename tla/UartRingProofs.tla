--------------------------- MODULE UartRingProofs ---------------------------
(***************************************************************************)
(* The receive buffer of the modem is a bounded queue that loses only what *)
(* finds it full or being cleared, for every SIZE and however the receive  *)
(* interrupt falls between the steps of pop() and clear().                 *)
(***************************************************************************)
EXTENDS UartRing, SequenceTheorems, TLAPS

-----------------------------------------------------------------------------
(* The inductive invariant *)

\* Inside pop() the buffer is not empty, since only pop() and clear() take
\* from it; and the slot being read is not written meanwhile.
Popping ==
  /\ pc \in {"read", "advance"} => m_head # m_tail
  /\ pc = "advance" => byte = m_buf[m_tail]

Clearing == pc = "clear" => m_tail = 0

\* The bytes in the buffer are real, none is older than the one before it,
\* and none is older than what pop() returned last.
Sorted ==
  pc # "clear" =>
    /\ \A i \in 1..Count : m_buf[Place(i)] > 0 /\ m_buf[Place(i)] >= last
    /\ \A i \in 1..Count, j \in 1..Count : i <= j => m_buf[Place(i)] <= m_buf[Place(j)]

IInv == TypeOK /\ Popping /\ Clearing /\ Sorted

-----------------------------------------------------------------------------
(* Where the bytes are *)

\* Equal indices mean an empty buffer.
LEMMA EmptyIffEqual ==
  \A h, t \in 0..(SIZE - 1) : (IF h >= t THEN h - t ELSE h + SIZE - t) > 0 <=> h # t
BY SizeAssumption

\* The bytes of the buffer lie in distinct slots, none of them at m_head.
LEMMA Places ==
  ASSUME TypeOK
  PROVE  /\ Count \in 0..(SIZE - 1)
         /\ \A i \in 1..Count : Place(i) \in Slots /\ Place(i) # m_head
         /\ m_head # m_tail <=> Count > 0
         /\ Count > 0 => Place(1) = m_tail
BY SizeAssumption DEF TypeOK, Slots, Count, Place

\* The buffer is full when the slot after m_head is m_tail.
LEMMA Full ==
  ASSUME TypeOK
  PROVE  /\ Succ(m_head) = m_tail <=> Count = SIZE - 1
         /\ Succ(m_head) \in Slots
         /\ Succ(m_tail) \in Slots
         /\ Count < SIZE - 1 => Place(Count + 1) = m_head
BY SizeAssumption DEF TypeOK, Slots, Count, Place, Succ

\* What push() does to the bytes, whether the main program is inside pop() or
\* between two calls: b comes behind them, unless the buffer is full.
LEMMA PushAppends ==
  ASSUME TypeOK, NEW b \in 0..received', Push(b), received <= received', received' \in Nat
  PROVE  /\ m_buf' \in [Slots -> 0..received'] /\ m_head' \in Slots /\ m_tail' = m_tail
         /\ Count = SIZE - 1 => Count' = Count /\ m_buf' = m_buf /\ m_head' = m_head
         /\ Count < SIZE - 1 =>
              /\ Count' = Count + 1
              /\ \A i \in 1..Count : Place(i)' = Place(i) /\ m_buf'[Place(i)] = m_buf[Place(i)]
              /\ \A i \in Nat : i = Count' => Place(i)' = m_head
              /\ m_buf'[m_head] = b
<1>1. /\ Count \in 0..(SIZE - 1)
      /\ \A i \in 1..Count : Place(i) \in Slots /\ Place(i) # m_head
  BY Places
<1>2. /\ Succ(m_head) = m_tail <=> Count = SIZE - 1
      /\ Succ(m_head) \in Slots
      /\ Count < SIZE - 1 => Place(Count + 1) = m_head
  BY Full
<1>3. m_tail' = m_tail /\ m_head \in Slots /\ m_buf \in [Slots -> 0..received']
  BY DEF Push, TypeOK
<1>4. CASE Count = SIZE - 1
  <2>1. m_buf' = m_buf /\ m_head' = m_head
    BY <1>2, <1>4 DEF Push
  <2>2. Count' = Count
    BY <1>3, <2>1 DEF Count
  <2>3. QED
    BY <1>3, <1>4, <2>1, <2>2
<1>5. CASE Count < SIZE - 1
  <2>1. m_buf' = [m_buf EXCEPT ![m_head] = b] /\ m_head' = Succ(m_head)
    BY <1>1, <1>2, <1>5 DEF Push
  <2>2. m_buf' \in [Slots -> 0..received'] /\ m_buf'[m_head] = b
    BY <1>3, <2>1
  <2>3. \A i \in 1..Count : m_buf'[Place(i)] = m_buf[Place(i)]
    BY <1>1, <1>3, <2>1
  <2>4. \A i \in Nat : Place(i)' = Place(i)
    BY <1>3 DEF Place
  <2>5. Count' = Count + 1
    BY SizeAssumption, <1>2, <1>3, <1>5, <2>1, Succ(m_head) # m_tail DEF Count, Succ, Slots, TypeOK
  <2>6. \A i \in Nat : i = Count' => Place(i)' = m_head
    BY SizeAssumption, <1>1, <1>2, <1>3, <1>5, <2>5 DEF Place, Slots
  <2>7. QED
    BY <1>1, <1>2, <1>3, <1>5, <2>1, <2>2, <2>3, <2>4, <2>5, <2>6
<1>6. QED
  BY <1>1, <1>4, <1>5, SizeAssumption

\* What the last step of pop() does to the bytes: the first is gone.
LEMMA PopTakesFirst ==
  ASSUME TypeOK, Popping, PopAdvance
  PROVE  /\ Count > 0
         /\ Count' = Count - 1
         /\ \A i \in 1..Count' : Place(i)' = Place(i + 1)
<1>1. Count > 0 /\ Count \in Nat
  BY Places DEF Popping, PopAdvance
<1>2. m_tail' = Succ(m_tail) /\ m_head' = m_head /\ m_head # m_tail
  BY DEF PopAdvance, Popping
<1>3. Count' = Count - 1
  BY SizeAssumption, <1>2 DEF Count, Succ, TypeOK, Slots
<1>4. \A i \in 1..Count' : Place(i)' = Place(i + 1)
  BY SizeAssumption, <1>1, <1>2, <1>3, Places DEF Place, Succ, TypeOK, Slots
<1>5. QED
  BY <1>1, <1>3, <1>4

-----------------------------------------------------------------------------
(* The invariant is inductive *)

LEMMA InitInv == Init => IInv
<1> SUFFICES ASSUME Init PROVE IInv
  OBVIOUS
<1>1. m_head = 0 /\ m_tail = 0 /\ 0 \in Slots /\ 0 \in 0..received /\ 0 \in 0..MaxBytes
  BY SizeAssumption DEF Init, Slots
<1>2. TypeOK
  BY <1>1 DEF Init, TypeOK
<1>3. Popping /\ Clearing
  BY DEF Init, Popping, Clearing
<1>4. Sorted
  BY <1>1 DEF Sorted, Count
<1>5. QED
  BY <1>2, <1>3, <1>4 DEF IInv

\* push() from either interrupt, with a byte no older than any before it.
LEMMA PushInv ==
  ASSUME IInv, NEW b \in Nat, b > 0, b = received', received' \in {received, received + 1},
         Push(b), received' <= MaxBytes, overrun' \in BOOLEAN, UNCHANGED <<byte, pc, last>>
  PROVE  IInv'
<1>1. TypeOK /\ Popping /\ Clearing /\ Sorted
  BY DEF IInv
<1>2. received \in Nat /\ received' \in Nat /\ received <= received' /\ b \in 0..received'
  BY <1>1, SizeAssumption DEF TypeOK
<1>3. /\ m_buf' \in [Slots -> 0..received'] /\ m_head' \in Slots /\ m_tail' = m_tail
      /\ Count = SIZE - 1 => Count' = Count /\ m_buf' = m_buf /\ m_head' = m_head
      /\ Count < SIZE - 1 =>
           /\ Count' = Count + 1
           /\ \A i \in 1..Count : Place(i)' = Place(i) /\ m_buf'[Place(i)] = m_buf[Place(i)]
           /\ \A i \in Nat : i = Count' => Place(i)' = m_head
           /\ m_buf'[m_head] = b
  BY <1>1, <1>2, PushAppends
<1>4. /\ Count \in 0..(SIZE - 1)
      /\ \A i \in 1..Count : Place(i) \in Slots
      /\ m_head # m_tail <=> Count > 0
      /\ Count > 0 => Place(1) = m_tail
  BY <1>1, Places
<1>5. TypeOK'
  BY <1>1, <1>2, <1>3, SizeAssumption DEF TypeOK
<1>6. Popping'
  <2>1. m_head' \in 0..(SIZE - 1) /\ m_tail' \in 0..(SIZE - 1)
    BY <1>5 DEF TypeOK, Slots
  <2>2. Count' > 0 <=> m_head' # m_tail'
    BY <2>1, EmptyIffEqual DEF Count
  <2>3. Count' >= Count
    BY <1>3, <1>4, SizeAssumption
  <2>4. m_buf'[m_tail] = m_buf[m_tail] \/ Count = 0
    BY <1>3, <1>4, SizeAssumption
  <2>5. QED
    BY <1>1, <1>3, <1>4, <2>2, <2>3, <2>4, SizeAssumption DEF Popping
<1>7. Clearing'
  BY <1>1, <1>3 DEF Clearing
<1>8. ASSUME pc # "clear", Count < SIZE - 1
      PROVE  /\ \A i \in 1..Count' : m_buf'[Place(i)'] > 0 /\ m_buf'[Place(i)'] >= last
             /\ \A i \in 1..Count', j \in 1..Count' :
                  i <= j => m_buf'[Place(i)'] <= m_buf'[Place(j)']
  <2> DEFINE at(i) == m_buf'[Place(i)']
  <2>1. \A i \in 1..Count : at(i) = m_buf[Place(i)] /\ at(i) \in 0..received
    BY <1>1, <1>3, <1>4, <1>8 DEF TypeOK
  <2>2. \A i \in 1..Count' : i = Count' => at(i) = b
    BY <1>3, <1>8
  <2>3. last \in 0..received
    BY <1>1 DEF TypeOK
  <2>4. \A i \in 1..Count : at(i) > 0 /\ at(i) >= last /\ at(i) <= b
    BY <1>1, <1>2, <1>8, <2>1 DEF Sorted
  <2>5. \A i \in 1..Count, j \in 1..Count : i <= j => at(i) <= at(j)
    BY <1>1, <1>8, <2>1 DEF Sorted
  <2>6. Count' = Count + 1
    BY <1>3, <1>8
  <2> HIDE DEF at
  <2>7. /\ \A i \in 1..Count' : at(i) > 0 /\ at(i) >= last
        /\ \A i \in 1..Count', j \in 1..Count' : i <= j => at(i) <= at(j)
    BY <1>2, <1>4, <2>2, <2>3, <2>4, <2>5, <2>6
  <2>8. QED
    BY <2>7 DEF at
<1>9. Sorted'
  <2>1. CASE Count < SIZE - 1
    BY <1>8, <2>1 DEF Sorted
  <2>2. CASE Count = SIZE - 1
    BY <1>1, <1>3, <2>2 DEF Sorted, Count, Place
  <2>3. QED
    BY <1>4, <2>1, <2>2, SizeAssumption
<1>10. QED
  BY <1>5, <1>6, <1>7, <1>9 DEF IInv

LEMMA NextInv == IInv /\ [Next]_vars => IInv'
<1> SUFFICES ASSUME IInv, [Next]_vars PROVE IInv'
  OBVIOUS
<1>0. TypeOK /\ Popping /\ Clearing /\ Sorted
  BY DEF IInv
<1>1. CASE ReceiveByte
  <2>1. PICK b \in Nat : b = received' /\ b > 0
    BY <1>0, <1>1, SizeAssumption DEF ReceiveByte, TypeOK
  <2>2. Push(b) /\ overrun' \in BOOLEAN /\ UNCHANGED <<byte, pc, last>>
    BY <1>1, <2>1 DEF ReceiveByte, Push
  <2>3. received' \in {received, received + 1} /\ received' <= MaxBytes
    BY <1>0, <1>1, SizeAssumption DEF ReceiveByte, TypeOK
  <2>4. QED
    BY <2>1, <2>2, <2>3, PushInv
<1>2. CASE Overrun
  <2>1. PICK b \in Nat : b = received /\ b > 0 /\ received' = b /\ b <= MaxBytes
    BY <1>0, <1>2, SizeAssumption DEF Overrun, TypeOK
  <2>2. Push(b) /\ overrun' \in BOOLEAN /\ UNCHANGED <<byte, pc, last>>
    BY <1>2, <2>1 DEF Overrun, Push
  <2>3. QED
    BY <2>1, <2>2, PushInv
<1>3. CASE PopCheck
  BY <1>0, <1>3 DEF PopCheck, IInv, TypeOK, Popping, Clearing, Sorted, Count, Place, ring
<1>4. CASE PopRead
  BY <1>0, <1>4 DEF PopRead, IInv, TypeOK, Popping, Clearing, Sorted, Count, Place, ring
<1>5. CASE PopAdvance
  <2>1. /\ Count > 0 /\ Count' = Count - 1
        /\ \A i \in 1..Count' : Place(i)' = Place(i + 1)
    BY <1>0, <1>5, PopTakesFirst
  <2>2. Count \in Nat /\ Place(1) = m_tail /\ \A i \in 1..Count : Place(i) \in Slots
    BY <1>0, <2>1, Places
  <2>3. last' = m_buf[Place(1)] /\ m_buf' = m_buf
    BY <1>0, <1>5, <2>2 DEF PopAdvance, Popping
  <2>4. TypeOK'
    BY <1>0, <1>5, Full DEF PopAdvance, TypeOK
  <2>5. Popping' /\ Clearing'
    BY <1>5 DEF PopAdvance, Popping, Clearing
  <2>6. \A i \in 1..Count : m_buf[Place(i)] \in Nat
    BY <1>0, <2>2, SizeAssumption DEF TypeOK
  <2>7. Sorted'
    BY <1>0, <1>5, <2>1, <2>2, <2>3, <2>6 DEF Sorted, PopAdvance
  <2>8. QED
    BY <2>4, <2>5, <2>7 DEF IInv
<1>6. CASE ClearTail
  BY <1>0, <1>6, SizeAssumption
     DEF ClearTail, IInv, TypeOK, Slots, Popping, Clearing, Sorted
<1>7. CASE ClearHead
  BY <1>0, <1>7, SizeAssumption
     DEF ClearHead, IInv, TypeOK, Slots, Popping, Clearing, Sorted, Count
<1>8. CASE UNCHANGED vars
  BY <1>0, <1>8 DEF vars, ring, IInv, TypeOK, Popping, Clearing, Sorted, Count, Place
<1>9. QED
  BY <1>1, <1>2, <1>3, <1>4, <1>5, <1>6, <1>7, <1>8 DEF Next, Interrupt, Pop, Clear

\* The invariant holds, for every SIZE.
THEOREM Invariance == Spec => []IInv
<1>1. Init => IInv
  BY InitInv
<1>2. IInv /\ [Next]_vars => IInv'
  BY NextInv
<1>3. QED
  BY <1>1, <1>2, PTL DEF Spec

-----------------------------------------------------------------------------
(* What follows from the invariant *)

\* Every index is a slot, whatever the interrupt does meanwhile.
THEOREM TypeCorrect == Spec => []TypeOK
BY Invariance, PTL DEF IInv

\* pop() never goes back and never returns a slot that was never filled.
THEOREM PopInOrder == Spec => InOrder
<1>1. ASSUME IInv, [Next]_vars, pc = "advance"
      PROVE  (last' >= last /\ last' > 0) \/ UNCHANGED <<last, m_tail>>
  <2>1. CASE PopAdvance
    <3>1. /\ Count > 0 /\ Count \in Nat
          /\ Place(1) = m_tail
      BY <1>1, Places, PopTakesFirst, <2>1 DEF IInv
    <3>2. m_buf[m_tail] > 0 /\ m_buf[m_tail] >= last
      BY <1>1, <3>1 DEF IInv, Sorted
    <3>3. last' = m_buf[m_tail]
      BY <1>1, <2>1 DEF PopAdvance, IInv, Popping
    <3>4. QED
      BY <3>2, <3>3
  <2>2. CASE ~PopAdvance
    BY <1>1, <2>2 DEF Next, Interrupt, Pop, Clear, ReceiveByte, Overrun, Push, PopCheck,
                      PopRead, ClearTail, ClearHead, vars, ring
  <2>3. QED
    BY <2>1, <2>2
<1>2. QED
  BY <1>1, Invariance, PTL DEF Spec, InOrder

-----------------------------------------------------------------------------
(* The buffer implements the queue *)

\* The buffer as a sequence.
LEMMA ContentsIsSeq ==
  ASSUME TypeOK
  PROVE  /\ Contents \in Seq(Nat)
         /\ pc # "clear" => /\ Len(Contents) = Count
                            /\ \A i \in 1..Count : Contents[i] = m_buf[Place(i)]
         /\ pc = "clear" => Contents = <<>>
<1>1. Count \in Nat /\ \A i \in 1..Count : m_buf[Place(i)] \in Nat
  BY Places, SizeAssumption DEF TypeOK
<1>2. QED
  BY <1>1 DEF Contents

\* push() is Offer.
LEMMA PushOffers ==
  ASSUME IInv, NEW b \in Nat, b \in 0..received', received <= received', received' \in Nat,
         Push(b), UNCHANGED pc
  PROVE  Contents' = IF pc = "clear" \/ Len(Contents) = SIZE - 1
                       THEN Contents ELSE Append(Contents, b)
<1>1. /\ m_buf' \in [Slots -> 0..received'] /\ m_head' \in Slots /\ m_tail' = m_tail
      /\ Count = SIZE - 1 => Count' = Count /\ m_buf' = m_buf /\ m_head' = m_head
      /\ Count < SIZE - 1 =>
           /\ Count' = Count + 1
           /\ \A i \in 1..Count : Place(i)' = Place(i) /\ m_buf'[Place(i)] = m_buf[Place(i)]
           /\ \A i \in Nat : i = Count' => Place(i)' = m_head
           /\ m_buf'[m_head] = b
  BY PushAppends DEF IInv
<1>2. Count \in 0..(SIZE - 1)
  BY Places DEF IInv
<1>3. CASE pc = "clear"
  BY <1>3 DEF Contents
<1>4. CASE pc # "clear" /\ Count = SIZE - 1
  <2>1. Len(Contents) = SIZE - 1
    BY <1>4, ContentsIsSeq DEF IInv
  <2>2. Contents' = Contents
    BY <1>1, <1>4 DEF Contents, Place
  <2>3. QED
    BY <1>4, <2>1, <2>2
<1>5. CASE pc # "clear" /\ Count < SIZE - 1
  <2>1. /\ Contents \in Seq(Nat) /\ Len(Contents) = Count
        /\ \A i \in 1..Count : Contents[i] = m_buf[Place(i)]
    BY <1>5, ContentsIsSeq DEF IInv
  <2>2. Contents' = [i \in 1..(Count + 1) |-> m_buf'[Place(i)']]
    BY <1>1, <1>5 DEF Contents
  <2>3. \A i \in 1..(Count + 1) :
          m_buf'[Place(i)'] = IF i = Count + 1 THEN b ELSE Contents[i]
    BY <1>1, <1>2, <1>5, <2>1, SizeAssumption
  <2>4. Contents' = [i \in 1..(Count + 1) |-> IF i = Count + 1 THEN b ELSE Contents[i]]
    BY <2>2, <2>3
  <2>5. Append(Contents, b) = Contents'
    <3> DEFINE f == [i \in 1..(Count + 1) |-> IF i = Count + 1 THEN b ELSE Contents[i]]
    <3>1. f \in Seq(Nat) /\ Append(Contents, b) \in Seq(Nat)
      BY <1>2, <2>1, SizeAssumption
    <3>2. Len(f) = Count + 1 /\ Len(Append(Contents, b)) = Count + 1
      BY <1>2, <2>1, SizeAssumption
    <3>3. \A i \in 1..(Count + 1) : f[i] = Append(Contents, b)[i]
      BY <1>2, <2>1, SizeAssumption
    <3> HIDE DEF f
    <3>4. f = Append(Contents, b)
      BY <3>1, <3>2, <3>3, SeqEqual
    <3>5. QED
      BY <2>4, <3>4 DEF f
  <2>6. QED
    BY <1>2, <1>5, <2>1, <2>5, SizeAssumption
<1>6. QED
  BY <1>2, <1>3, <1>4, <1>5, SizeAssumption

\* The last step of pop() is Take.
LEMMA PopTakes ==
  ASSUME IInv, PopAdvance
  PROVE  Contents # <<>> /\ last' = Head(Contents) /\ Contents' = Tail(Contents)
<1>1. /\ Count > 0 /\ Count' = Count - 1
      /\ \A i \in 1..Count' : Place(i)' = Place(i + 1)
  BY PopTakesFirst DEF IInv
<1>2. Count \in Nat /\ Place(1) = m_tail
  BY <1>1, Places DEF IInv
<1>3. /\ pc = "advance" /\ pc' = "idle" /\ m_buf' = m_buf
      /\ last' = m_buf[m_tail]
  BY DEF PopAdvance, IInv, Popping
<1>4. /\ Contents \in Seq(Nat) /\ Len(Contents) = Count
      /\ \A i \in 1..Count : Contents[i] = m_buf[Place(i)]
  BY <1>3, ContentsIsSeq DEF IInv
<1>5. Contents # <<>> /\ last' = Head(Contents)
  BY <1>1, <1>2, <1>3, <1>4
<1>6. Contents' = [i \in 1..(Count - 1) |-> Contents[i + 1]]
  <2>1. Contents' = [i \in 1..(Count - 1) |-> m_buf[Place(i)']]
    BY <1>1, <1>3 DEF Contents
  <2>2. \A i \in 1..(Count - 1) : m_buf[Place(i)'] = Contents[i + 1]
    BY <1>1, <1>2, <1>4
  <2>3. QED
    BY <2>1, <2>2
<1>7. Contents' = Tail(Contents)
  <2> DEFINE f == [i \in 1..(Count - 1) |-> Contents[i + 1]]
  <2>1. f \in Seq(Nat) /\ Len(f) = Count - 1
    BY <1>1, <1>2, <1>4
  <2>2. Tail(Contents) \in Seq(Nat) /\ Len(Tail(Contents)) = Count - 1
    BY <1>1, <1>2, <1>4
  <2>3. \A i \in 1..(Count - 1) : f[i] = Tail(Contents)[i]
    BY <1>1, <1>2, <1>4
  <2> HIDE DEF f
  <2>4. f = Tail(Contents)
    BY <2>1, <2>2, <2>3, SeqEqual
  <2>5. QED
    BY <1>6, <2>4 DEF f
<1>8. QED
  BY <1>5, <1>7

\* Every step of the buffer is a step of the queue or none.
LEMMA StepSimulation ==
  ASSUME IInv, [Next]_vars
  PROVE  [Queue!Next]_Queue!vars
<1>0. TypeOK
  BY DEF IInv
<1>1. CASE ReceiveByte
  <2>1. PICK b \in Nat : b = received' /\ received' = received + 1
    BY <1>0, <1>1, SizeAssumption DEF ReceiveByte, TypeOK
  <2>2. Push(b) /\ UNCHANGED <<pc, last>> /\ received \in Nat
    BY <1>0, <1>1, <2>1, SizeAssumption DEF ReceiveByte, Push, TypeOK
  <2>3. Contents' = IF pc = "clear" \/ Len(Contents) = SIZE - 1
                      THEN Contents ELSE Append(Contents, b)
    BY <2>1, <2>2, PushOffers
  <2>4. Queue!Arrive
    BY <2>1, <2>2, <2>3 DEF Queue!Arrive, Queue!Offer
  <2>5. QED
    BY <2>4 DEF Queue!Next
<1>2. CASE Overrun
  <2>1. PICK b \in Nat : b = received /\ received' = received /\ received > 0
    BY <1>0, <1>2, SizeAssumption DEF Overrun, TypeOK
  <2>2. Push(b) /\ UNCHANGED <<pc, last>>
    BY <1>2, <2>1 DEF Overrun, Push
  <2>3. Contents' = IF pc = "clear" \/ Len(Contents) = SIZE - 1
                      THEN Contents ELSE Append(Contents, b)
    BY <2>1, <2>2, PushOffers
  <2>4. Queue!Repeat
    BY <2>1, <2>2, <2>3 DEF Queue!Repeat, Queue!Offer
  <2>5. QED
    BY <2>4 DEF Queue!Next
<1>3. CASE PopCheck \/ PopRead \/ UNCHANGED vars
  <2>1. UNCHANGED <<ring, received, last>> /\ (pc = "clear") = (pc = "clear")'
    BY <1>3 DEF PopCheck, PopRead, vars
  <2>2. Contents' = Contents
    BY <2>1 DEF Contents, Count, Place, ring
  <2>3. QED
    BY <2>1, <2>2 DEF Queue!vars
<1>4. CASE PopAdvance
  <2>1. Contents # <<>> /\ last' = Head(Contents) /\ Contents' = Tail(Contents)
    BY <1>4, PopTakes
  <2>2. pc = "advance" /\ pc' = "idle" /\ received' = received
    BY <1>4 DEF PopAdvance
  <2>3. Queue!Take
    BY <2>1, <2>2 DEF Queue!Take
  <2>4. QED
    BY <2>3 DEF Queue!Next
<1>5. CASE ClearTail
  <2>1. pc' = "clear" /\ UNCHANGED <<received, last>>
    BY <1>5 DEF ClearTail
  <2>2. Contents' = <<>>
    BY <2>1 DEF Contents
  <2>3. Queue!Flush
    BY <2>1, <2>2 DEF Queue!Flush
  <2>4. QED
    BY <2>3 DEF Queue!Next
<1>6. CASE ClearHead
  <2>1. pc = "clear" /\ pc' = "idle" /\ UNCHANGED <<received, last>>
    BY <1>6 DEF ClearHead
  <2>2. Count' = 0
    BY <1>6, SizeAssumption DEF ClearHead, IInv, Clearing, Count
  <2>3. Contents = <<>> /\ Contents' = <<>>
    BY <2>1, <2>2 DEF Contents
  <2>4. Queue!EndFlush
    BY <2>1, <2>3 DEF Queue!EndFlush
  <2>5. QED
    BY <2>4 DEF Queue!Next
<1>7. QED
  BY <1>1, <1>2, <1>3, <1>4, <1>5, <1>6 DEF Next, Interrupt, Pop, Clear

\* The receive buffer is a bounded queue: what comes out of it is what went
\* in, in order and once, but for the bytes that found it full or in clear().
THEOREM BufferIsQueue == Spec => ImplementsQueue
<1>1. Init => Queue!Init
  BY SizeAssumption DEF Init, Queue!Init, Contents, Count
<1>2. ASSUME IInv, [Next]_vars PROVE [Queue!Next]_Queue!vars
  BY <1>2, StepSimulation
<1>3. QED
  BY <1>1, <1>2, Invariance, PTL DEF Spec, Queue!Spec, ImplementsQueue
=============================================================================
