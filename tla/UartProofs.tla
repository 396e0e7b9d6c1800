----------------------------- MODULE UartProofs -----------------------------
(***************************************************************************)
(* Proofs about UartService, for any number of characters and any values   *)
(* the guest writes to IER: the host's characters are in the buffer, in    *)
(* rbr or read, in one of these places only, and the places a character    *)
(* can be lost from are known.                                             *)
(***************************************************************************)
EXTENDS UartService, SequenceTheorems, FiniteSetTheorems, TLAPS

Chars(s)    == {s[k] : k \in 1..Len(s)}
Distinct(s) == \A j, k \in 1..Len(s) : s[j] = s[k] => j = k

\* Every character is numbered no higher than the last one typed, and is in
\* one place; held is rbr while DR is set and no character otherwise.
PlaceInv ==
  /\ Distinct(input_buf)
  /\ Chars(input_buf) \cup got \subseteq 1..typed
  /\ Chars(input_buf) \cap got = {}
  /\ held \in 0..typed
  /\ held # NoChar => dr /\ held \notin Chars(input_buf) \cup got

IInv == TypeOK /\ NoOverrun /\ PlaceInv

-----------------------------------------------------------------------------
(* The buffer as a set. *)

\* A character that is new to the buffer leaves it without duplicates.
LEMMA AppendChars ==
  ASSUME NEW S, NEW s \in Seq(S), NEW x \in S
  PROVE  LET t == Append(s, x) IN
         /\ t \in Seq(S) /\ t # <<>>
         /\ Chars(t) = Chars(s) \cup {x}
         /\ Distinct(s) /\ x \notin Chars(s) => Distinct(t)
<1> DEFINE t == Append(s, x)
<1>1. /\ t \in Seq(S)
      /\ Len(s) \in Nat /\ Len(t) = Len(s) + 1 /\ t[Len(s) + 1] = x
      /\ \A k \in 1..Len(s) : t[k] = s[k]
  BY AppendProperties, LenProperties
<1>2. t # <<>>
  BY <1>1, EmptySeq, SMT
<1> HIDE DEF t
<1>3. 1..Len(t) = 1..Len(s) \cup {Len(s) + 1}
  BY <1>1, SMT
<1>4. Chars(t) = Chars(s) \cup {x}
  BY <1>1, <1>3 DEF Chars
<1>5. ASSUME Distinct(s), x \notin Chars(s) PROVE Distinct(t)
  BY <1>1, <1>3, <1>5 DEF Chars, Distinct
<1> QED
  BY <1>1, <1>2, <1>4, <1>5 DEF t

\* Taking the last character off the buffer leaves the others.
LEMMA PopChars ==
  ASSUME NEW S, NEW s \in Seq(S), s # <<>>
  PROVE  LET t == SubSeq(s, 1, Len(s) - 1)
             last == s[Len(s)]
         IN  /\ t \in Seq(S) /\ last \in S
             /\ Chars(s) = Chars(t) \cup {last}
             /\ Distinct(s) => Distinct(t) /\ last \notin Chars(t)
<1> DEFINE t == SubSeq(s, 1, Len(s) - 1)
           last == s[Len(s)]
<1>1. Len(s) \in Nat /\ Len(s) > 0
  BY EmptySeq, LenProperties, SMT
<1>2. \A k \in 1..Len(s) : s[k] \in S
  BY ElementOfSeq
<1>3. \A n \in Nat : n > 0 => /\ n - 1 \in Int /\ n \in 1..n
                              /\ 1..(n - 1) \subseteq 1..n /\ n \notin 1..(n - 1)
                              /\ 1..n = 1..(n - 1) \cup {n}
                              /\ (IF 1 <= n - 1 THEN n - 1 - 1 + 1 ELSE 0) = n - 1
                              /\ n - 1 - 1 + 1 = n - 1
                              /\ \A k \in 1..(n - 1) : 1 + k - 1 = k
  OBVIOUS
<1>4. \A k \in 1..(Len(s) - 1) : s[k] \in S
  BY <1>1, <1>2, <1>3
<1>5. t \in Seq(S) /\ Len(t) = Len(s) - 1 /\ \A k \in 1..(Len(s) - 1) : t[k] = s[k]
  <2> DEFINE n == Len(s) - 1
  <2>1. n \in Int /\ \A k \in 1..n : s[k] \in S
    BY <1>1, <1>3, <1>4
  <2> HIDE DEF n
  <2>2. /\ SubSeq(s, 1, n) \in Seq(S)
        /\ Len(SubSeq(s, 1, n)) = IF 1 <= n THEN n - 1 + 1 ELSE 0
        /\ \A k \in 1..(n - 1 + 1) : SubSeq(s, 1, n)[k] = s[1 + k - 1]
    BY <2>1, SubSeqProperties, SMT
  <2> QED
    BY <1>1, <1>3, <2>2 DEF n
<1> HIDE DEF t
<1>6. last \in S
  BY <1>1, <1>2, <1>3
<1>7. Chars(s) = Chars(t) \cup {last}
  <2>1. 1..Len(s) = 1..Len(t) \cup {Len(s)} /\ 1..Len(t) = 1..(Len(s) - 1)
    BY <1>1, <1>3, <1>5
  <2> QED
    BY <1>5, <2>1 DEF Chars
<1>8. ASSUME Distinct(s) PROVE Distinct(t) /\ last \notin Chars(t)
  BY <1>1, <1>3, <1>5, <1>8 DEF Chars, Distinct
<1> QED
  BY <1>5, <1>6, <1>7, <1>8 DEF t

\* A buffer without duplicates holds as many characters as it is long.
LEMMA DistinctCount ==
  ASSUME NEW S, NEW s \in Seq(S), Distinct(s)
  PROVE  Cardinality(Chars(s)) = Len(s)
<1>1. Len(s) \in Nat /\ DOMAIN s = 1..Len(s) /\ s \in [1..Len(s) -> Chars(s)]
  BY LenProperties, SMT DEF Chars
<1>2. s \in Bijection(1..Len(s), Chars(s))
  BY <1>1 DEF Distinct, Chars, Bijection, Injection, Surjection, IsInjective
<1> QED
  BY <1>1, <1>2, FS_CountingElements DEF ExistsBijection

-----------------------------------------------------------------------------
(* The steps. *)

\* A tick that delivers, or does not.
LEMMA ReceiveStep ==
  ASSUME IInv, NEW msg \in {NoChar, typed + 1}, msg <= MaxTyped, Receive(msg)
  PROVE  /\ IInv'
         /\ Kept \subseteq Kept'
         /\ typed' # typed => typed' \in Kept'
<1> DEFINE buf == TickBuffer(msg)
<1>0. /\ NoChar = 0 /\ typed \in 0..MaxTyped /\ MaxTyped \in Nat
      /\ input_buf \in Seq(1..MaxTyped) /\ held \in 0..typed /\ got \subseteq 1..typed
      /\ Distinct(input_buf) /\ Chars(input_buf) \subseteq 1..typed
      /\ Chars(input_buf) \cap got = {}
  BY NoCharAssumption, MaxTypedAssumption DEF IInv, TypeOK, PlaceInv
<1>1. /\ got' = got
      /\ typed' = IF msg = NoChar THEN typed ELSE msg
      /\ dlab' = dlab /\ ier' = ier
  BY DEF Receive, Tick
<1>2. /\ typed' \in 0..MaxTyped /\ 1..typed \subseteq 1..typed'
      /\ 0..typed \subseteq 0..typed'
      /\ typed' # typed => typed' \in Chars(buf)
      /\ buf \in Seq(1..MaxTyped) /\ Distinct(buf)
      /\ Chars(input_buf) \subseteq Chars(buf) /\ Chars(buf) \subseteq 1..typed'
      /\ Chars(buf) \cap got = {}
      /\ held # NoChar /\ held \notin Chars(input_buf) => held \notin Chars(buf)
  <2>1. CASE msg = NoChar
    BY <1>0, <1>1, <2>1 DEF TickBuffer
  <2>2. CASE msg # NoChar
    <3>1. msg = typed + 1 /\ typed' = typed + 1 /\ buf = Append(input_buf, msg)
      BY <1>1, <2>2 DEF TickBuffer
    <3>2. /\ msg \in 1..MaxTyped /\ msg \notin 1..typed /\ msg \notin 0..typed
          /\ 1..(typed + 1) = 1..typed \cup {typed + 1}
          /\ 0..typed \subseteq 0..(typed + 1)
          /\ typed + 1 \in 0..MaxTyped
      BY <1>0, <3>1, SMT
    <3>3. msg \notin Chars(input_buf) /\ msg \notin got /\ msg # held
      BY <1>0, <3>2
    <3>4. /\ buf \in Seq(1..MaxTyped) /\ Distinct(buf)
          /\ Chars(buf) = Chars(input_buf) \cup {msg}
      <4>1. LET t == Append(input_buf, msg) IN
            /\ t \in Seq(1..MaxTyped)
            /\ Chars(t) = Chars(input_buf) \cup {msg}
            /\ Distinct(input_buf) /\ msg \notin Chars(input_buf) => Distinct(t)
        BY <1>0, <3>2, AppendChars
      <4> QED
        BY <1>0, <3>1, <3>3, <4>1
    <3> QED
      BY <1>0, <3>1, <3>2, <3>3, <3>4
  <2> QED
    BY <2>1, <2>2
<1>3. CASE TickPushes(msg)
  <2>1. buf # <<>> /\ ~dr /\ held = NoChar
    BY <1>3 DEF TickPushes, IsReadyForReceiving, IInv, NoOverrun, PlaceInv
  <2>2. /\ rbr' = buf[Len(buf)] /\ input_buf' = SubSeq(buf, 1, Len(buf) - 1)
        /\ dr' = TRUE /\ iir' = "RDA" /\ is_interrupting' = TRUE
        /\ is_taken_interrupt' = FALSE /\ held' = rbr'
    BY <1>3 DEF Receive, Tick, RaiseInterrupt
  <2>3. /\ input_buf' \in Seq(1..MaxTyped) /\ rbr' \in 1..MaxTyped
        /\ Chars(buf) = Chars(input_buf') \cup {rbr'}
        /\ Distinct(input_buf') /\ rbr' \notin Chars(input_buf')
    <3> HIDE DEF buf
    <3> QED
      BY <1>2, <2>1, <2>2, PopChars
  <2>4. rbr' # NoChar /\ rbr' \in 0..MaxTyped /\ rbr' \in 0..typed'
    BY <1>0, <1>2, <2>3, SMT
  <2>5. TypeOK'
    BY <1>0, <1>1, <1>2, <2>2, <2>3, <2>4 DEF IInv, TypeOK
  <2>6. NoOverrun'
    BY <2>2, <2>4 DEF NoOverrun
  <2>7. PlaceInv'
    BY <1>0, <1>1, <1>2, <2>2, <2>3, <2>4 DEF PlaceInv
  <2>8. Kept = Chars(input_buf) \cup got /\ Kept' = Chars(buf) \cup got
    BY <1>1, <2>1, <2>2, <2>3, <2>4 DEF Kept, Buffered, Chars
  <2> QED
    BY <1>2, <2>5, <2>6, <2>7, <2>8 DEF IInv
<1>4. CASE ~TickPushes(msg)
  <2>1. /\ input_buf' = buf /\ UNCHANGED <<rbr, iir, held>>
        /\ dr' = dr /\ is_interrupting' = is_interrupting
        /\ is_taken_interrupt' = is_taken_interrupt
    BY <1>4 DEF Receive, Tick, uartIrq
  <2>2. TypeOK'
    BY <1>0, <1>1, <1>2, <2>1 DEF IInv, TypeOK
  <2>3. NoOverrun'
    BY <2>1 DEF IInv, NoOverrun
  <2>4. PlaceInv'
    BY <1>0, <1>1, <1>2, <2>1 DEF IInv, PlaceInv
  <2>5. /\ Kept = Chars(input_buf) \cup got \cup ({held} \ {NoChar})
        /\ Kept' = Chars(buf) \cup got \cup ({held} \ {NoChar})
    BY <1>1, <2>1 DEF Kept, Buffered, Chars
  <2> QED
    BY <1>2, <2>2, <2>3, <2>4, <2>5 DEF IInv
<1> QED
  BY <1>3, <1>4

\* Reading rbr empties it; its character is read.
LEMMA ReadStep ==
  ASSUME IInv, GuestReadRbr
  PROVE  IInv' /\ Kept \subseteq Kept' /\ typed' = typed
<1>1. /\ UNCHANGED <<ier, input_buf, typed, is_taken_interrupt>> /\ dlab' = dlab
      /\ dr' = FALSE /\ rbr' = NoChar /\ held' = NoChar
      /\ got' = IF dr THEN got \cup {rbr} ELSE got
  BY DEF GuestReadRbr, ReadRbr, LowerInterrupt, uartIrq
<1>2. \/ iir' = "NIP" /\ is_interrupting' = FALSE
      \/ ~is_interrupting /\ iir' = iir /\ is_interrupting' = is_interrupting
  BY DEF GuestReadRbr, ReadRbr, LowerInterrupt, uartIrq
<1>3. /\ NoChar = 0 /\ typed \in Nat /\ MaxTyped \in Nat
      /\ NoChar \in 0..MaxTyped /\ NoChar \in 0..typed
      /\ dr => rbr = held /\ held # NoChar
      /\ held # NoChar => dr /\ held \in 1..typed /\ held \in 1..MaxTyped
  BY NoCharAssumption, MaxTypedAssumption DEF IInv, TypeOK, PlaceInv, NoOverrun
<1>4. TypeOK'
  BY <1>1, <1>2, <1>3 DEF IInv, TypeOK
<1>5. NoOverrun'
  BY <1>1, <1>2 DEF IInv, NoOverrun
<1>6. PlaceInv'
  BY <1>1, <1>3 DEF IInv, PlaceInv
<1>7. Kept \subseteq Kept'
  BY <1>1, <1>3 DEF Kept, Buffered
<1> QED
  BY <1>1, <1>4, <1>5, <1>6, <1>7 DEF IInv

\* The other accesses lower the interrupt, and drop DR with it, raise the
\* transmit interrupt, or leave both.
LEMMA AccessOutcome ==
  ASSUME IInv, GuestAccess
  PROVE  \/ /\ is_interrupting' = FALSE /\ iir' = "NIP" /\ dr' = FALSE
            /\ is_taken_interrupt' = is_taken_interrupt
            /\ iir = "THRE" \/ (ETBEI \in ier /\ ETBEI \notin ier')
         \/ /\ is_interrupting' = TRUE /\ iir' = "THRE" /\ dr' = dr
            /\ is_taken_interrupt' = FALSE
         \/ /\ is_interrupting' = is_interrupting /\ iir' = iir /\ dr' = dr
            /\ is_taken_interrupt' = is_taken_interrupt
<1>1. CASE ReadIir
  BY <1>1 DEF ReadIir, LowerInterrupt, uartIrq
<1>2. CASE WriteThr
  BY <1>2 DEF WriteThr, RaiseInterrupt, uartIrq
<1>3. ASSUME NEW value \in IerValues, WriteIer(value)
      PROVE  \/ LowerInterrupt /\ ETBEI \in ier /\ ETBEI \notin ier'
             \/ RaiseInterrupt("THRE") /\ UNCHANGED dr
             \/ UNCHANGED <<dr, uartIrq>>
  <2>1. ier' = value
    BY <1>3 DEF WriteIer
  <2>2. CASE (ETBEI \in ier) # (ETBEI \in value)
    <3>1. \/ ETBEI \in value /\ RaiseInterrupt("THRE") /\ UNCHANGED dr
          \/ ETBEI \notin value /\ LowerInterrupt
      BY <1>3, <2>2, Zenon DEF WriteIer
    <3>2. CASE ETBEI \in value /\ RaiseInterrupt("THRE") /\ UNCHANGED dr
      BY <3>2
    <3>3. CASE ETBEI \notin value /\ LowerInterrupt
      <4>1. ETBEI \in ier /\ ETBEI \notin ier'
        BY <2>1, <2>2, <3>3
      <4> QED
        BY <3>3, <4>1
    <3> QED
      BY <3>1, <3>2, <3>3
  <2>3. CASE ~((ETBEI \in ier) # (ETBEI \in value))
    <3>1. UNCHANGED <<dr, uartIrq>>
      BY <1>3, <2>3, Zenon DEF WriteIer
    <3> QED
      BY <3>1
  <2> QED
    BY <2>2, <2>3
<1>4. CASE \E value \in BOOLEAN : WriteLcr(value)
  BY <1>4 DEF WriteLcr, uartIrq
<1>5. CASE LowerInterrupt /\ ETBEI \in ier /\ ETBEI \notin ier'
  BY <1>5 DEF LowerInterrupt
<1>6. CASE RaiseInterrupt("THRE") /\ UNCHANGED dr
  BY <1>6 DEF RaiseInterrupt
<1>7. CASE UNCHANGED <<dr, uartIrq>>
  BY <1>7 DEF uartIrq
<1> QED
  BY <1>1, <1>2, <1>3, <1>4, <1>5, <1>6, <1>7 DEF GuestAccess

LEMMA AccessStep ==
  ASSUME IInv, GuestAccess
  PROVE  /\ IInv' /\ typed' = typed
         /\ \/ Kept \subseteq Kept'
            \/ /\ Kept \ Kept' = {held}
               /\ iir = "THRE" \/ (ETBEI \in ier /\ ETBEI \notin ier')
               /\ iir' = "NIP"
<1>1. /\ UNCHANGED <<typed, got, rbr, input_buf>>
      /\ held' = IF dr' THEN held ELSE NoChar
  BY DEF GuestAccess, ReadIir, WriteThr, WriteIer, WriteLcr
<1>2. ier' \subseteq IerBits /\ dlab' \in BOOLEAN
  BY IerValuesAssumption
     DEF GuestAccess, ReadIir, WriteThr, WriteIer, WriteLcr, IInv, TypeOK
<1>3. /\ NoChar = 0 /\ typed \in Nat /\ MaxTyped \in Nat
      /\ NoChar \in 0..MaxTyped /\ NoChar \in 0..typed
      /\ dr => rbr = held /\ held # NoChar
      /\ ~dr => held = NoChar
      /\ held # NoChar => held \notin Chars(input_buf) \cup got
  BY NoCharAssumption, MaxTypedAssumption DEF IInv, TypeOK, PlaceInv, NoOverrun
<1>4. /\ Kept = Chars(input_buf) \cup got \cup ({held} \ {NoChar})
      /\ Kept' = Chars(input_buf) \cup got \cup ({held'} \ {NoChar})
  BY <1>1 DEF Kept, Buffered, Chars
<1>5. CASE /\ is_interrupting' = FALSE /\ iir' = "NIP" /\ dr' = FALSE
           /\ is_taken_interrupt' = is_taken_interrupt
           /\ iir = "THRE" \/ (ETBEI \in ier /\ ETBEI \notin ier')
  <2>1. TypeOK'
    BY <1>1, <1>2, <1>3, <1>5 DEF IInv, TypeOK
  <2>2. NoOverrun'
    BY <1>5 DEF NoOverrun
  <2>3. PlaceInv'
    BY <1>1, <1>3, <1>5 DEF IInv, PlaceInv
  <2>4. Kept \subseteq Kept' \/ Kept \ Kept' = {held}
    BY <1>1, <1>3, <1>4, <1>5
  <2> QED
    BY <1>1, <1>5, <2>1, <2>2, <2>3, <2>4 DEF IInv
<1>6. CASE /\ dr' = dr
           /\ is_interrupting' \in BOOLEAN /\ is_taken_interrupt' \in BOOLEAN
           /\ iir' \in {"NIP", "THRE", "RDA"}
           /\ is_interrupting' <=> iir' # "NIP"
           /\ iir # "NIP" => iir' # "NIP"
  <2>1. held' = held
    BY <1>1, <1>3, <1>6
  <2>2. TypeOK'
    BY <1>1, <1>2, <1>6, <2>1 DEF IInv, TypeOK
  <2>3. NoOverrun'
    BY <1>1, <1>6, <2>1 DEF IInv, NoOverrun
  <2>4. PlaceInv'
    BY <1>1, <1>6, <2>1 DEF IInv, PlaceInv
  <2>5. Kept = Kept'
    BY <1>4, <2>1
  <2> QED
    BY <1>1, <2>2, <2>3, <2>4, <2>5 DEF IInv
<1>7. CASE /\ is_interrupting' = TRUE /\ iir' = "THRE" /\ dr' = dr
           /\ is_taken_interrupt' = FALSE
  BY <1>6, <1>7
<1>8. CASE /\ is_interrupting' = is_interrupting /\ iir' = iir /\ dr' = dr
           /\ is_taken_interrupt' = is_taken_interrupt
  BY <1>6, <1>8 DEF IInv, TypeOK, NoOverrun
<1> QED
  BY <1>5, <1>7, <1>8, AccessOutcome

\* A step that leaves the device and the ghosts alone, but for the flag that
\* an interrupt was taken.
LEMMA TakenStep ==
  ASSUME IInv, Taken \/ UNCHANGED vars
  PROVE  IInv' /\ Kept = Kept' /\ typed' = typed
<1>1. /\ UNCHANGED <<rbr, iir, input_buf, ier, typed, got, held>>
      /\ dr' = dr /\ is_interrupting' = is_interrupting /\ dlab' = dlab
      /\ is_taken_interrupt' \in BOOLEAN
  BY DEF Taken, TakeInterrupt, vars, uartVars, uartIrq, IInv, TypeOK
<1>2. TypeOK' /\ NoOverrun' /\ PlaceInv'
  BY <1>1 DEF IInv, TypeOK, NoOverrun, PlaceInv
<1>3. Kept = Kept'
  BY <1>1 DEF Kept, Buffered
<1> QED
  BY <1>1, <1>2, <1>3 DEF IInv

LEMMA NextStep ==
  ASSUME IInv, [Next]_vars
  PROVE  /\ IInv'
         /\ typed' # typed => typed' \in Kept'
         /\ \/ Kept \subseteq Kept'
            \/ /\ Kept \ Kept' = {held}
               /\ iir = "THRE" \/ (ETBEI \in ier /\ ETBEI \notin ier')
               /\ iir' = "NIP"
<1>1. CASE DeviceTick
  <2>1. PICK msg \in {NoChar, typed + 1} : msg <= MaxTyped /\ Receive(msg)
    <3>1. NoChar <= MaxTyped /\ (typed < MaxTyped => typed + 1 <= MaxTyped)
      BY NoCharAssumption, MaxTypedAssumption DEF IInv, TypeOK
    <3> QED
      BY <1>1, <3>1 DEF DeviceTick
  <2> QED
    BY <2>1, ReceiveStep
<1>2. CASE Taken \/ UNCHANGED vars
  BY <1>2, TakenStep
<1>3. CASE GuestReadRbr
  BY <1>3, ReadStep
<1>4. CASE GuestAccess
  BY <1>4, AccessStep
<1> QED
  BY <1>1, <1>2, <1>3, <1>4 DEF Next

-----------------------------------------------------------------------------
LEMMA InductiveInvariant == Spec => []IInv
<1>1. Init => IInv
  <2> SUFFICES ASSUME Init PROVE IInv
    OBVIOUS
  <2>1. TypeOK
    <3>1. /\ dlab = FALSE /\ ier = {} /\ dr = FALSE /\ rbr = 0 /\ iir = "NIP"
          /\ is_interrupting = FALSE /\ is_taken_interrupt = FALSE
          /\ input_buf = <<>> /\ typed = 0 /\ got = {} /\ held = 0
      BY NoCharAssumption DEF Init, UartInit
    <3>2. 0 \in 0..MaxTyped /\ <<>> \in Seq(1..MaxTyped)
      BY MaxTypedAssumption
    <3> QED
      BY <3>1, <3>2 DEF TypeOK
  <2>2. NoOverrun
    BY DEF Init, UartInit, NoOverrun
  <2>3. Len(input_buf) = 0 /\ typed = 0 /\ got = {} /\ held = 0
    BY NoCharAssumption DEF Init, UartInit
  <2>4. PlaceInv
    BY <2>3, NoCharAssumption DEF PlaceInv, Chars, Distinct
  <2> QED
    BY <2>1, <2>2, <2>4 DEF IInv
<1>2. IInv /\ [Next]_vars => IInv'
  BY NextStep
<1> QED
  BY <1>1, <1>2, PTL DEF Spec

\* The registers, the buffer and the ghosts are well typed in every reachable
\* state, however many characters the host types.
THEOREM UartTypeCorrect == Spec => []TypeOK
BY InductiveInvariant, PTL DEF IInv

\* The two flags of a pending interrupt agree, and a character that waits in
\* rbr keeps the gate of the next one shut: none is overwritten.
THEOREM GateKeepsRbr == Spec => []NoOverrun
BY InductiveInvariant, PTL DEF IInv

\* A character is in the buffer, in rbr or read, and in one of these only,
\* although rbr stays readable after DR was dropped.
THEOREM OnePlaceEach == Spec => []NoDuplicate
<1>1. IInv => NoDuplicate
  <2> SUFFICES ASSUME IInv PROVE NoDuplicate
    OBVIOUS
  <2>1. Buffered = Chars(input_buf)
    BY DEF Buffered, Chars
  <2>2. Cardinality(Chars(input_buf)) = Len(input_buf)
    BY DistinctCount DEF IInv, TypeOK, PlaceInv
  <2> QED
    BY <2>1, <2>2 DEF NoDuplicate, IInv, PlaceInv
<1> QED
  BY <1>1, InductiveInvariant, PTL

\* A character the device took from the host is kept by every step but two:
\* an acknowledgement of a transmit interrupt and a write that disables it,
\* and these lose the one in rbr at most.
THEOREM OnlyTransmitLoses == Spec => LossOnlyByTransmit
<1>1. IInv /\ [Next]_vars =>
        [/\ typed' # typed => typed' \in Kept'
         /\ \/ Kept \subseteq Kept'
            \/ /\ Kept \ Kept' = {held}
               /\ iir = "THRE" \/ (ETBEI \in ier /\ ETBEI \notin ier')
               /\ iir' = "NIP"]_vars
  BY NextStep
<1> QED
  BY <1>1, InductiveInvariant, PTL DEF Spec, LossOnlyByTransmit
=============================================================================
