-------------------------- MODULE SqsReceiveProofs --------------------------
(* Type correctness of the receiving half, for the transports that extend it. *)
EXTENDS SqsReceive, ChannelLemmas, SequenceTheorems, FiniteSetTheorems, TLAPS

(* An error that fits in errChan leaves it a bounded sequence of names. *)
LEMMA PutErrorType ==
  ASSUME ReceiveTypeOK, NEW n \in Names, PutError(n)
  PROVE  errChan' \in Seq(Names) /\ Len(errChan') <= ErrCap
<1>1. errChan \in Seq(Names) /\ Len(errChan) < ErrCap /\ errChan' = Append(errChan, n)
  BY DEF ReceiveTypeOK, PutError
<1>2. errChan' \in Seq(Names) /\ Len(errChan') = Len(errChan) + 1
  BY <1>1, AppendProperties
<1>3. Len(errChan) \in Nat /\ ErrCap \in Nat
  BY <1>1, LenProperties, SqsReceiveAssumption
<1> QED  BY <1>1, <1>2, <1>3

LEMMA ReceiveInitType == ReceiveInit => ReceiveTypeOK
BY EmptySeq, SqsReceiveAssumption DEF ReceiveInit, ReceiveTypeOK, SubStates

LEMMA ReceiveTypeSame == ReceiveTypeOK /\ UNCHANGED receiveVars => ReceiveTypeOK'
BY DEF ReceiveTypeOK, receiveVars, subVars, serviceVars

(* Every step of the receiving half keeps its variables in their types, and a
   subscriber holds a message just while it deletes or delivers one. *)
LEMMA ReceiveStepType == ReceiveTypeOK /\ ReceiveNext => ReceiveTypeOK'
<1> SUFFICES ASSUME ReceiveTypeOK, ReceiveNext PROVE ReceiveTypeOK'
  OBVIOUS
<1> USE SqsReceiveAssumption
<1>1. CASE ReceiveReports
  <2>1. recvLock \in Names
    BY <1>1 DEF ReceiveReports, ReceiveTypeOK
  <2>2. errChan' \in Seq(Names) /\ Len(errChan') <= ErrCap
    BY <1>1, <2>1, PutErrorType DEF ReceiveReports
  <2> QED
    BY <1>1, <2>2 DEF ReceiveReports, ReceiveTypeOK, serviceVars
<1>2. CASE DrainErr
  <2>1. Tail(errChan) \in Seq(Names) /\ Len(Tail(errChan)) = Len(errChan) - 1
    BY <1>2, HeadTailProperties DEF DrainErr, ReceiveTypeOK
  <2>2. Len(errChan) \in Nat
    BY LenProperties DEF ReceiveTypeOK
  <2> QED
    BY <1>2, <2>1, <2>2 DEF DrainErr, ReceiveTypeOK, subVars, serviceVars
<1>3. ASSUME NEW n \in Names, Receive(n) \/ Subscriber(n) \/ ClientReceive(n) \/ Service(n)
      PROVE  ReceiveTypeOK'
  <2>1. CASE ReceiveOpens(n)
    BY <2>1 DEF ReceiveOpens, SubGoes, ReceiveTypeOK, SubStates, serviceVars
  <2>2. CASE ReceiveFails(n)
    BY <2>2 DEF ReceiveFails, ReceiveTypeOK, serviceVars
  <2>3. CASE Poll(n)
    BY <2>3 DEF Poll, SubGoes, ReceiveTypeOK, SubStates, serviceVars
  <2>4. CASE ReceiveNothing(n) \/ ReceiveError(n)
    BY <2>4, ZenonT(60)
       DEF ReceiveNothing, ReceiveError, SubGoes, ReceiveTypeOK, SubStates, serviceVars
  <2>5. ASSUME NEW m \in Messages, NEW handle \in ReceiptHandles, ReceiveMessage(n, m, handle)
        PROVE  ReceiveTypeOK'
    <3>1. PICK to \in {"delete", "deliver"} : SubGoes(n, "call", to)
      BY <2>5 DEF ReceiveMessage
    <3>2. hidden' \in [Names -> SUBSET Messages]
      BY <2>5 DEF ReceiveMessage, ReceiveTypeOK
    <3> QED
      BY <2>5, <3>1, <3>2 DEF ReceiveMessage, SubGoes, ReceiveTypeOK, SubStates
  <2>6. CASE DeleteMessage(n)
    <3>1. visible' \in [Names -> SUBSET Messages] /\ hidden' \in [Names -> SUBSET Messages]
      <4>1. CASE Delete(n)
        BY <4>1 DEF Delete, ReceiveTypeOK
      <4>2. CASE UNCHANGED <<visible, hidden>>
        BY <4>2 DEF ReceiveTypeOK
      <4> QED  BY <2>6, <4>1, <4>2 DEF DeleteMessage
    <3> QED
      BY <2>6, <3>1 DEF DeleteMessage, SubGoes, ReceiveTypeOK, SubStates
  <2>7. CASE DeleteError(n)
    <3>1. held[n] \in Messages
      BY <2>7 DEF DeleteError, SubGoes, ReceiveTypeOK
    <3>2. /\ visible' \in [Names -> SUBSET Messages]
          /\ hidden' \in [Names -> SUBSET Messages]
          /\ lost' \in [Names -> SUBSET Messages]
      <4>1. CASE UNCHANGED <<visible, hidden, lost>>
        BY <4>1 DEF ReceiveTypeOK
      <4>2. CASE /\ Delete(n)
                 /\ lost' = [lost EXCEPT ![n] = @ \cup {held[n]}]
        BY <3>1, <4>2 DEF Delete, ReceiveTypeOK
      <4> QED
        BY <2>7, <4>1, <4>2 DEF DeleteError
    <3> QED
      BY <2>7, <3>2 DEF DeleteError, SubGoes, ReceiveTypeOK, SubStates
  <2>8. CASE Deliver(n)
    <3>1. held[n] \in Messages
      BY <2>8 DEF Deliver, SubGoes, ReceiveTypeOK
    <3>2. /\ Append(recvCh[n], held[n]) \in Seq(Messages)
          /\ Len(Append(recvCh[n], held[n])) = Len(recvCh[n]) + 1
      BY <3>1, AppendProperties DEF ReceiveTypeOK
    <3>3. Len(recvCh[n]) \in Nat
      BY LenProperties DEF ReceiveTypeOK
    <3> QED
      BY <2>8, <3>2, <3>3 DEF Deliver, SubGoes, ReceiveTypeOK, SubStates, serviceVars
  <2>9. CASE ReportReceiveError(n)
    <3>1. errChan' \in Seq(Names) /\ Len(errChan') <= ErrCap
      BY <2>9, PutErrorType DEF ReportReceiveError
    <3> QED
      BY <2>9, <3>1 DEF ReportReceiveError, SubGoes, ReceiveTypeOK, SubStates, serviceVars
  <2>10. CASE ClientReceive(n)
    <3>1. /\ Head(recvCh[n]) \in Messages
          /\ Tail(recvCh[n]) \in Seq(Messages)
          /\ Len(Tail(recvCh[n])) = Len(recvCh[n]) - 1
      BY <2>10, HeadTailProperties DEF ClientReceive, ReceiveTypeOK
    <3>2. Append(received[n], Head(recvCh[n])) \in Seq(Messages)
      BY <3>1, AppendProperties DEF ReceiveTypeOK
    <3>3. Len(recvCh[n]) \in Nat
      BY LenProperties DEF ReceiveTypeOK
    <3> QED
      BY <2>10, <3>1, <3>2, <3>3, SMTT(30) DEF ClientReceive, ReceiveTypeOK, serviceVars
  <2>11. CASE Service(n)
    <3>1. PICK m \in Messages :
            VisibilityTimeout(n, m) \/ OtherReceives(n, m) \/ OtherDeletes(n, m)
      BY <2>11 DEF Service
    <3>2. CASE VisibilityTimeout(n, m)
      BY <3>2 DEF VisibilityTimeout, ReceiveTypeOK, subVars
    <3>3. CASE OtherReceives(n, m)
      <4>1. shares' \in [Names -> [Messages -> Nat]]
        <5>1. shares[n] \in [Messages -> Nat] /\ shares[n][m] + 1 \in Nat
          BY DEF ReceiveTypeOK
        <5> QED  BY <3>3, <5>1 DEF OtherReceives, ReceiveTypeOK
      <4>2. stale' \in [Names -> BOOLEAN]
        BY <3>3 DEF OtherReceives, ReceiveTypeOK
      <4>3. visible' \in [Names -> SUBSET Messages] /\ hidden' \in [Names -> SUBSET Messages]
        BY <3>3 DEF OtherReceives, ReceiveTypeOK
      <4>4. UNCHANGED <<errChan, stop, recvLock, sub, held, recvCh, received, elsewhere, lost>>
        BY <3>3 DEF OtherReceives, subVars
      <4> QED  BY <4>1, <4>2, <4>3, <4>4 DEF ReceiveTypeOK
    <3>4. CASE OtherDeletes(n, m)
      BY <3>4 DEF OtherDeletes, ReceiveTypeOK, subVars
    <3> QED
      BY <3>1, <3>2, <3>3, <3>4
  <2> QED
    BY <1>3, <2>1, <2>2, <2>3, <2>4, <2>5, <2>6, <2>7, <2>8, <2>9, <2>10, <2>11
    DEF Receive, Subscriber
<1> QED  BY <1>1, <1>2, <1>3 DEF ReceiveNext
----------------------------------------------------------------------------
(* Where a message of queue q may be. *)
Somewhere(q) == InQueue(q) \cup Delivered(q) \cup elsewhere[q] \cup lost[q]

(* No step of the receiving half makes a message disappear: a subscriber that
   meets an error, a full channel or Stop still has it, or the queue has. *)
LEMMA NothingDisappears ==
  ASSUME ReceiveTypeOK, ReceiveNext, NEW q \in Names
  PROVE  Somewhere(q) \subseteq Somewhere(q)'
<1> USE DEF Somewhere, InQueue, Delivered
<1>1. CASE ReceiveReports \/ DrainErr
  BY <1>1 DEF ReceiveReports, DrainErr, subVars, serviceVars
<1>2. ASSUME NEW n \in Names, Receive(n) \/ Poll(n) \/ ReceiveNothing(n) \/ ReceiveError(n)
                              \/ ReportReceiveError(n)
      PROVE  Somewhere(q) \subseteq Somewhere(q)'
  <2>1. sub[n] # "deliver" /\ (n # q => sub'[q] = sub[q])
    BY <1>2 DEF Receive, ReceiveOpens, ReceiveFails, Poll, ReceiveNothing, ReceiveError,
                ReportReceiveError, SubGoes, ReceiveTypeOK
  <2>2. UNCHANGED <<held, recvCh, received, serviceVars>>
    BY <1>2 DEF Receive, ReceiveOpens, ReceiveFails, Poll, ReceiveNothing, ReceiveError,
                ReportReceiveError
  <2> QED  BY <2>1, <2>2 DEF serviceVars
<1>3. ASSUME NEW n \in Names, NEW m \in Messages, NEW handle \in ReceiptHandles,
             ReceiveMessage(n, m, handle)
      PROVE  Somewhere(q) \subseteq Somewhere(q)'
  <2>1. /\ sub[n] = "call" /\ sub' = [sub EXCEPT ![n] = IF handle THEN "delete" ELSE "deliver"]
        /\ held' = [held EXCEPT ![n] = m]
        /\ visible' = [visible EXCEPT ![n] = @ \ {m}]
        /\ hidden' = IF handle THEN [hidden EXCEPT ![n] = @ \cup {m}] ELSE hidden
        /\ UNCHANGED <<recvCh, received, elsewhere, lost>>
    BY <1>3 DEF ReceiveMessage, SubGoes
  <2> QED  BY <2>1 DEF ReceiveTypeOK
<1>4. ASSUME NEW n \in Names, DeleteMessage(n) \/ DeleteError(n)
      PROVE  Somewhere(q) \subseteq Somewhere(q)'
  <2>1. CASE DeleteMessage(n)
    <3>1. /\ sub[n] = "delete" /\ sub' = [sub EXCEPT ![n] = "deliver"]
          /\ UNCHANGED <<held, recvCh, received, elsewhere, lost>>
          /\ \A p \in Names \ {n} : UNCHANGED <<visible[p], hidden[p]>>
          /\ visible[n] \cup hidden[n] \subseteq visible'[n] \cup hidden'[n] \cup {held[n]}
      BY <2>1 DEF DeleteMessage, Delete, SubGoes, ReceiveTypeOK
    <3>2. sub'[n] = "deliver" /\ \A p \in Names \ {n} : sub'[p] = sub[p]
      BY <3>1 DEF ReceiveTypeOK
    <3>3. CASE q = n
      BY <3>1, <3>2, <3>3
    <3>4. CASE q # n
      BY <3>1, <3>2, <3>4
    <3> QED  BY <3>3, <3>4
  <2>2. CASE DeleteError(n)
    <3>1. /\ sub[n] = "delete" /\ sub' = [sub EXCEPT ![n] = "report"]
          /\ held' = [held EXCEPT ![n] = Nil]
          /\ UNCHANGED <<recvCh, received, elsewhere>>
          /\ \/ UNCHANGED <<visible, hidden, lost>>
             \/ Delete(n) /\ lost' = [lost EXCEPT ![n] = @ \cup {held[n]}]
      BY <2>2 DEF DeleteError, SubGoes
    <3>2. InQueue(q) \cup lost[q] \subseteq (InQueue(q) \cup lost[q])'
      BY <3>1 DEF Delete, ReceiveTypeOK
    <3> QED  BY <3>1, <3>2 DEF ReceiveTypeOK
  <2> QED  BY <1>4, <2>1, <2>2
<1>5. ASSUME NEW n \in Names, Deliver(n)
      PROVE  Somewhere(q) \subseteq Somewhere(q)'
  <2>1. held[n] \in Messages
    BY <1>5 DEF Deliver, SubGoes, ReceiveTypeOK
  <2>2. Range(Append(recvCh[n], held[n])) = Range(recvCh[n]) \cup {held[n]}
    BY <2>1, RangeOfAppend DEF ReceiveTypeOK
  <2> QED  BY <1>5, <2>2 DEF Deliver, SubGoes, ReceiveTypeOK, serviceVars
<1>6. ASSUME NEW n \in Names, ClientReceive(n)
      PROVE  Somewhere(q) \subseteq Somewhere(q)'
  <2>1. Range(Append(received[n], Head(recvCh[n]))) \cup Range(Tail(recvCh[n]))
          = Range(received[n]) \cup Range(recvCh[n])
    BY <1>6, RangeOfMove DEF ClientReceive, ReceiveTypeOK
  <2> QED  BY <1>6, <2>1 DEF ClientReceive, ReceiveTypeOK, serviceVars
<1>7. ASSUME NEW n \in Names, Service(n)
      PROVE  Somewhere(q) \subseteq Somewhere(q)'
  <2>1. UNCHANGED <<sub, held, recvCh, received, lost>>
    BY <1>7 DEF Service, VisibilityTimeout, OtherReceives, OtherDeletes, subVars
  <2>2. InQueue(q) \cup elsewhere[q] \subseteq (InQueue(q) \cup elsewhere[q])'
    <3>1. PICK m \in Messages :
            VisibilityTimeout(n, m) \/ OtherReceives(n, m) \/ OtherDeletes(n, m)
      BY <1>7 DEF Service
    <3>2. CASE VisibilityTimeout(n, m)
      BY <3>2 DEF VisibilityTimeout, ReceiveTypeOK
    <3>3. CASE OtherReceives(n, m)
      BY <3>3 DEF OtherReceives, ReceiveTypeOK
    <3>4. CASE OtherDeletes(n, m)
      BY <3>4 DEF OtherDeletes, ReceiveTypeOK
    <3> QED  BY <3>1, <3>2, <3>3, <3>4
  <2> QED  BY <2>1, <2>2
<1> QED
  BY <1>1, <1>2, <1>3, <1>4, <1>5, <1>6, <1>7 DEF ReceiveNext, Subscriber

(* Part of a call's entries is finite: as many errors as failed entries. *)
LEMMA FailedCount ==
  ASSUME NEW s \in Seq(Messages), NEW Failed \in SUBSET DOMAIN s
  PROVE  IsFiniteSet(Failed) /\ Cardinality(Failed) \in Nat
<1>1. Len(s) \in Nat /\ DOMAIN s = 1 .. Len(s)
  BY LenProperties
<1>2. IsFiniteSet(1 .. Len(s))
  BY <1>1, FS_Interval
<1> QED  BY <1>1, <1>2, FS_Subset, FS_CardinalityType

(* There are finitely many occurrences. *)
LEMMA OccurrencesType ==
  ASSUME NEW S, NEW s \in Seq(S), NEW m
  PROVE  IsFiniteSet({i \in DOMAIN s : s[i] = m}) /\ Occurrences(s, m) \in Nat
<1> DEFINE At == {i \in DOMAIN s : s[i] = m}
<1>1. Len(s) \in Nat /\ DOMAIN s = 1 .. Len(s)
  BY LenProperties
<1>2. IsFiniteSet(1 .. Len(s))
  BY <1>1, FS_Interval
<1>3. At \in SUBSET (1 .. Len(s))
  BY <1>1
<1>4. IsFiniteSet(At) /\ Cardinality(At) \in Nat
  <2> HIDE DEF At
  <2> QED  BY <1>2, <1>3, FS_Subset, FS_CardinalityType
<1> QED  BY <1>4 DEF Occurrences

(* Appending an element adds one occurrence of it. *)
LEMMA OccurrencesAppend ==
  ASSUME NEW S, NEW s \in Seq(S), NEW e \in S, NEW m
  PROVE  /\ Occurrences(s, m) \in Nat
         /\ Occurrences(Append(s, e), m) = Occurrences(s, m) + IF e = m THEN 1 ELSE 0
<1> DEFINE At == {i \in DOMAIN s : s[i] = m}
           last == Len(s) + 1
           t == Append(s, e)
           Those == {i \in DOMAIN t : t[i] = m}
<1>1. Len(s) \in Nat /\ DOMAIN s = 1 .. Len(s) /\ DOMAIN t = 1 .. last
  BY LenProperties, AppendProperties
<1>2. \A i \in 1 .. Len(s) : t[i] = s[i]
  BY AppendProperties
<1>3. t[last] = e
  BY AppendProperties
<1>4. IsFiniteSet(At) /\ Cardinality(At) \in Nat
  BY OccurrencesType DEF Occurrences
<1>5. last \notin At
  BY <1>1
<1>6. Those = IF e = m THEN At \cup {last} ELSE At
  <2>1. DOMAIN t = DOMAIN s \cup {last} /\ last \notin DOMAIN s
    BY <1>1
  <2> HIDE DEF t, last
  <2> QED  BY <1>1, <1>2, <1>3, <2>1
<1>7. Cardinality(At \cup {last}) = Cardinality(At) + 1
  BY <1>4, <1>5, FS_AddElement
<1>8. Cardinality(Those) = Cardinality(At) + IF e = m THEN 1 ELSE 0
  <2> HIDE DEF At, Those
  <2> QED  BY <1>4, <1>6, <1>7
<1> QED  BY <1>4, <1>8 DEF Occurrences

(* What a sequence does not hold does not occur in it. *)
LEMMA OccurrencesNone ==
  ASSUME NEW s, NEW m, m \notin Range(s)
  PROVE  Occurrences(s, m) = 0
<1>1. {i \in DOMAIN s : s[i] = m} = {}
  BY DEF Range
<1> QED  BY <1>1, FS_EmptySet DEF Occurrences
=============================================================================
