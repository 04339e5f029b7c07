------------------------- MODULE OutgoingMailProofs -------------------------
(***************************************************************************)
(* The bound on the copies of a message, proved of the abstract queue and  *)
(* so of everything that implements it.                                    *)
(***************************************************************************)
EXTENDS OutgoingMail, FiniteSetTheorems, TLAPS

(***************************************************************************)
(* Type correctness of the abstract queue.                                 *)
(***************************************************************************)
THEOREM OutgoingTypeCorrect == Spec => []TypeOK
<1>1. Init => TypeOK
  BY DEF Init, TypeOK, Phases, Attempts, NoAttempt
<1>2. TypeOK /\ [Next]_vars => TypeOK'
  <2> SUFFICES ASSUME TypeOK, [Next]_vars
               PROVE  TypeOK'
    OBVIOUS
  <2> USE DEF TypeOK, Phases, Attempts, NoAttempt
  <2>1. CASE UNCHANGED vars
    BY <2>1 DEF vars
  <2>2. ASSUME NEW m \in Msgs, Submit(m)
        PROVE  TypeOK'
    BY <2>2 DEF Submit
  <2>3. ASSUME NEW m \in Msgs, Withdraw(m)
        PROVE  TypeOK'
    BY <2>3 DEF Withdraw
  <2>4. ASSUME NEW w \in Workers, NEW m \in Msgs, Begin(w, m)
        PROVE  TypeOK'
    BY <2>4 DEF Begin
  <2>5. ASSUME NEW w \in Workers, NEW m \in Msgs, HandOver(w, m)
        PROVE  TypeOK'
    BY <2>5 DEF HandOver
  <2>6. ASSUME NEW w \in Workers, NEW m \in Msgs, Close(w, m)
        PROVE  TypeOK'
    BY <2>6 DEF Close
  <2>7. ASSUME NEW w \in Workers, NEW m \in Msgs, Abandon(w, m)
        PROVE  TypeOK'
    BY <2>7 DEF Abandon
  <2>8. ASSUME NEW w \in Workers, NEW m \in Msgs, Slip(w, m)
        PROVE  TypeOK'
    BY <2>8 DEF Slip
  <2>9. CASE Hiccup
    BY <2>9 DEF Hiccup
  <2>10. QED
    BY <2>1, <2>2, <2>3, <2>4, <2>5, <2>6, <2>7, <2>8, <2>9 DEF Next
<1>3. QED
  BY <1>1, <1>2, PTL DEF Spec

-----------------------------------------------------------------------------

(***************************************************************************)
(* The workers on a message are finitely many, and those that try and      *)
(* those that have handed over are different workers.                      *)
(***************************************************************************)
LEMMA WorkersCounted ==
    ASSUME Sensible, NEW m
    PROVE  /\ IsFiniteSet(Trying(m))
           /\ IsFiniteSet(Out(m))
           /\ Cardinality(Workers) \in Nat
           /\ Cardinality(Trying(m)) \in Nat
           /\ Cardinality(Out(m)) \in Nat
           /\ Cardinality(Trying(m)) + Cardinality(Out(m)) <= Cardinality(Workers)
<1>1. Trying(m) \subseteq Workers /\ Out(m) \subseteq Workers
  BY DEF Trying, Out
<1>2. IsFiniteSet(Trying(m)) /\ IsFiniteSet(Out(m))
  BY <1>1, FS_Subset DEF Sensible
<1>3. /\ Cardinality(Workers) \in Nat
      /\ Cardinality(Trying(m)) \in Nat
      /\ Cardinality(Out(m)) \in Nat
  BY <1>2, FS_CardinalityType DEF Sensible
<1>4. Trying(m) \cap Out(m) = {}
  BY DEF Trying, Out
<1>5. Cardinality(Trying(m) \cup Out(m)) = Cardinality(Trying(m)) + Cardinality(Out(m))
  <2>1. Cardinality(Trying(m) \cap Out(m)) = 0
    BY <1>4, FS_EmptySet
  <2>2. Cardinality(Trying(m) \cup Out(m))
          = Cardinality(Trying(m)) + Cardinality(Out(m)) - Cardinality(Trying(m) \cap Out(m))
    BY <1>2, FS_Union
  <2>3. QED
    BY <1>3, <2>1, <2>2
<1>6. Cardinality(Trying(m) \cup Out(m)) <= Cardinality(Workers)
  BY <1>1, FS_Subset DEF Sensible
<1>7. QED
  BY <1>2, <1>3, <1>5, <1>6

(***************************************************************************)
(* CopiesAccounted of one message survives a step that leaves its phase,   *)
(* its copies and the workers on it alone and loses no mishap.             *)
(***************************************************************************)
AccountedFor(m) ==
    IF phase[m] = "closed"
    THEN mails[m] + Cardinality(Trying(m)) <= Cardinality(Workers) + mishaps
    ELSE mails[m] <= Cardinality(Out(m)) + mishaps

LEMMA Undisturbed ==
    ASSUME Sensible, TypeOK, TypeOK', NEW m \in Msgs, AccountedFor(m),
           phase'[m] = phase[m], mails'[m] = mails[m], mishaps' >= mishaps,
           Trying(m)' = Trying(m), Out(m)' = Out(m)
    PROVE  AccountedFor(m)'
  BY WorkersCounted DEF AccountedFor, TypeOK

(***************************************************************************)
(* A message that its author or a worker closes: what the open message     *)
(* counted as running attempts bounds what it counts from now on.          *)
(***************************************************************************)
LEMMA Closing ==
    ASSUME Sensible, TypeOK, TypeOK', NEW m \in Msgs, AccountedFor(m),
           phase'[m] = "closed", mails'[m] = mails[m], mishaps' = mishaps,
           Trying(m)' \subseteq Trying(m)
    PROVE  AccountedFor(m)'
<1>1. IsFiniteSet(Trying(m))
  BY WorkersCounted
<1>2. Trying(m)' \in SUBSET Trying(m)
  OBVIOUS
<1>3. /\ IsFiniteSet(Trying(m)')
      /\ Cardinality(Trying(m)') <= Cardinality(Trying(m))
  BY <1>1, <1>2, FS_Subset
<1>4. Cardinality(Trying(m)') \in Nat
  BY <1>3, FS_CardinalityType
<1>5. mails[m] + Cardinality(Trying(m)) <= Cardinality(Workers) + mishaps
  BY WorkersCounted DEF AccountedFor, TypeOK
<1>6. QED
  BY <1>3, <1>4, <1>5, WorkersCounted DEF AccountedFor, TypeOK

(***************************************************************************)
(* CopiesAccounted is inductive.                                           *)
(***************************************************************************)
LEMMA AccountedInit == Sensible /\ Init => CopiesAccounted
<1> SUFFICES ASSUME Sensible, Init, NEW m \in Msgs
             PROVE  mails[m] <= Cardinality(Out(m)) + mishaps /\ phase[m] # "closed"
  BY DEF CopiesAccounted
<1>1. mails[m] = 0 /\ mishaps = 0 /\ phase[m] = "new"
  BY DEF Init
<1>2. Cardinality(Out(m)) \in Nat
  BY WorkersCounted
<1>3. QED
  BY <1>1, <1>2

LEMMA AccountedNext ==
    Sensible /\ TypeOK /\ TypeOK' /\ CopiesAccounted /\ [Next]_vars => CopiesAccounted'
<1> SUFFICES ASSUME Sensible, TypeOK, TypeOK', CopiesAccounted, [Next]_vars,
                    NEW n \in Msgs
             PROVE  AccountedFor(n)'
  BY DEF CopiesAccounted, AccountedFor
<1> USE DEF TypeOK
<1>0. AccountedFor(n)
  BY DEF CopiesAccounted, AccountedFor
<1>1. CASE UNCHANGED vars
  BY <1>0, <1>1, Undisturbed DEF vars, Trying, Out
<1>2. ASSUME NEW m \in Msgs, Submit(m)
      PROVE  AccountedFor(n)'
  <2>1. Trying(n)' = Trying(n) /\ Out(n)' = Out(n)
    BY <1>2 DEF Submit, Trying, Out
  <2>2. phase[n] # "closed" => phase'[n] # "closed"
    BY <1>2 DEF Submit, Phases
  <2>3. phase[n] = "closed" => phase'[n] = "closed"
    BY <1>2 DEF Submit, Phases
  <2>4. mails' = mails /\ mishaps' = mishaps
    BY <1>2 DEF Submit
  <2>5. QED
    BY <1>0, <2>1, <2>2, <2>3, <2>4 DEF AccountedFor
<1>3. ASSUME NEW m \in Msgs, Withdraw(m)
      PROVE  AccountedFor(n)'
  <2>1. Trying(n)' = Trying(n) /\ Out(n)' = Out(n)
    BY <1>3 DEF Withdraw, Trying, Out
  <2>2. mails' = mails /\ mishaps' = mishaps /\ mishaps' >= mishaps
    BY <1>3 DEF Withdraw
  <2>3. CASE n = m
    <3>1. phase'[n] = "closed"
      BY <1>3, <2>3 DEF Withdraw
    <3>2. QED
      BY <1>0, <2>1, <2>2, <3>1, Closing
  <2>4. CASE n # m
    <3>1. phase'[n] = phase[n]
      BY <1>3, <2>4 DEF Withdraw
    <3>2. QED
      BY <1>0, <2>1, <2>2, <3>1, Undisturbed
  <2>5. QED
    BY <2>3, <2>4
<1>4. ASSUME NEW w \in Workers, NEW m \in Msgs, Begin(w, m)
      PROVE  AccountedFor(n)'
  <2>1. Out(n)' = Out(n)
    BY <1>4 DEF Begin, Out, NoAttempt, Sensible
  <2>2. phase' = phase /\ mails' = mails /\ mishaps' = mishaps /\ mishaps' >= mishaps
    BY <1>4 DEF Begin
  <2>3. CASE n = m
    <3>1. phase[n] # "closed"
      BY <1>4, <2>3 DEF Begin
    <3>2. QED
      BY <1>0, <2>1, <2>2, <3>1 DEF AccountedFor
  <2>4. CASE n # m
    <3>1. Trying(n)' = Trying(n)
      BY <1>4, <2>4 DEF Begin, Trying, NoAttempt, Sensible
    <3>2. QED
      BY <1>0, <2>1, <2>2, <3>1, Undisturbed
  <2>5. QED
    BY <2>3, <2>4
<1>5. ASSUME NEW w \in Workers, NEW m \in Msgs, HandOver(w, m)
      PROVE  AccountedFor(n)'
  <2>1. phase' = phase /\ mishaps' = mishaps /\ mishaps' >= mishaps
    BY <1>5 DEF HandOver
  <2>2. CASE n = m
    <3>1. w \in Trying(n) /\ w \notin Out(n)
      BY <1>5, <2>2 DEF HandOver, Trying, Out
    <3>2. Trying(n)' = Trying(n) \ {w}
      BY <1>5, <2>2 DEF HandOver, Trying
    <3>3. Out(n)' = Out(n) \cup {w}
      BY <1>5, <2>2 DEF HandOver, Out
    <3>4. Cardinality(Trying(n)') = Cardinality(Trying(n)) - 1
      BY <3>1, <3>2, WorkersCounted, FS_RemoveElement
    <3>5. Cardinality(Out(n)') = Cardinality(Out(n)) + 1
      BY <3>1, <3>3, WorkersCounted, FS_AddElement
    <3>6. mails'[n] = mails[n] + 1
      BY <1>5, <2>2 DEF HandOver
    <3>7. QED
      BY <1>0, <2>1, <3>4, <3>5, <3>6, WorkersCounted DEF AccountedFor
  <2>3. CASE n # m
    <3>1. Trying(n)' = Trying(n) /\ Out(n)' = Out(n)
      BY <1>5, <2>3 DEF HandOver, Trying, Out
    <3>2. mails'[n] = mails[n]
      BY <1>5, <2>3 DEF HandOver
    <3>3. QED
      BY <1>0, <2>1, <3>1, <3>2, Undisturbed
  <2>4. QED
    BY <2>2, <2>3
<1>6. ASSUME NEW w \in Workers, NEW m \in Msgs, Close(w, m)
      PROVE  AccountedFor(n)'
  <2>1. mails' = mails /\ mishaps' = mishaps /\ mishaps' >= mishaps
    BY <1>6 DEF Close
  <2>2. CASE n = m
    <3>1. phase'[n] = "closed"
      BY <1>6, <2>2 DEF Close
    <3>2. Trying(n)' \subseteq Trying(n)
      BY <1>6, <2>2 DEF Close, Trying, NoAttempt, Sensible
    <3>3. QED
      BY <1>0, <2>1, <3>1, <3>2, Closing
  <2>3. CASE n # m
    <3>1. Trying(n)' = Trying(n) /\ Out(n)' = Out(n)
      BY <1>6, <2>3 DEF Close, Trying, Out, NoAttempt, Sensible
    <3>2. phase'[n] = phase[n]
      BY <1>6, <2>3 DEF Close
    <3>3. QED
      BY <1>0, <2>1, <3>1, <3>2, Undisturbed
  <2>4. QED
    BY <2>2, <2>3
<1>7. ASSUME NEW w \in Workers, NEW m \in Msgs, Abandon(w, m)
      PROVE  AccountedFor(n)'
  <2>1. phase' = phase /\ mails' = mails /\ mishaps' >= mishaps
    BY <1>7 DEF Abandon
  <2>2. Out(n)' = Out(n)
    BY <1>7 DEF Abandon, Out, NoAttempt, Sensible
  <2>3. Trying(n)' \in SUBSET Trying(n)
    BY <1>7 DEF Abandon, Trying, NoAttempt, Sensible
  <2>4. /\ Cardinality(Trying(n)') \in Nat
        /\ Cardinality(Trying(n)') <= Cardinality(Trying(n))
    BY <2>3, WorkersCounted, FS_Subset, FS_CardinalityType
  <2>5. QED
    BY <1>0, <2>1, <2>2, <2>4, WorkersCounted DEF AccountedFor
<1>8. ASSUME NEW w \in Workers, NEW m \in Msgs, Slip(w, m)
      PROVE  AccountedFor(n)'
  <2>1. phase' = phase /\ mails' = mails /\ mishaps' = mishaps + 1
    BY <1>8 DEF Slip
  <2>2. Trying(n)' = Trying(n)
    BY <1>8 DEF Slip, Trying, NoAttempt, Sensible
  <2>3. CASE n = m
    <3>1. w \in Out(n)
      BY <1>8, <2>3 DEF Slip, Out
    <3>2. Out(n)' = Out(n) \ {w}
      BY <1>8, <2>3 DEF Slip, Out, NoAttempt, Sensible
    <3>3. Cardinality(Out(n)') = Cardinality(Out(n)) - 1
      BY <3>1, <3>2, WorkersCounted, FS_RemoveElement
    <3>4. QED
      BY <1>0, <2>1, <2>2, <3>3, WorkersCounted DEF AccountedFor
  <2>4. CASE n # m
    <3>1. Out(n)' = Out(n)
      BY <1>8, <2>4 DEF Slip, Out, NoAttempt, Sensible
    <3>2. QED
      BY <1>0, <2>1, <2>2, <3>1, Undisturbed
  <2>5. QED
    BY <2>3, <2>4
<1>9. CASE Hiccup
  <2>1. phase' = phase /\ mails' = mails /\ mishaps' >= mishaps
    BY <1>9 DEF Hiccup
  <2>2. Trying(n)' = Trying(n) /\ Out(n)' = Out(n)
    BY <1>9 DEF Hiccup, Trying, Out
  <2>3. QED
    BY <1>0, <2>1, <2>2, Undisturbed
<1>10. QED
  BY <1>1, <1>2, <1>3, <1>4, <1>5, <1>6, <1>7, <1>8, <1>9 DEF Next

(***************************************************************************)
(* Every behaviour of the abstract queue keeps the copies of a message     *)
(* accounted for, and so below one per worker plus one per mishap.         *)
(***************************************************************************)
THEOREM OutgoingAccounted == Sensible => (Spec => []CopiesAccounted)
<1> SUFFICES ASSUME Sensible
             PROVE  Spec => []CopiesAccounted
  OBVIOUS
<1>1. Init => CopiesAccounted
  BY AccountedInit
<1>2. TypeOK /\ CopiesAccounted /\ [Next]_vars /\ TypeOK' => CopiesAccounted'
  BY AccountedNext
<1>3. QED
  BY <1>1, <1>2, OutgoingTypeCorrect, PTL DEF Spec

THEOREM OutgoingBounded == Sensible => (Spec => []CopiesBounded)
<1> SUFFICES ASSUME Sensible
             PROVE  Spec => []CopiesBounded
  OBVIOUS
<1>1. TypeOK /\ CopiesAccounted => CopiesBounded
  <2> SUFFICES ASSUME TypeOK, CopiesAccounted, NEW m \in Msgs
               PROVE  mails[m] <= Cardinality(Workers) + mishaps
    BY DEF CopiesBounded
  <2>1. AccountedFor(m)
    BY DEF CopiesAccounted, AccountedFor
  <2>2. QED
    BY <2>1, WorkersCounted DEF AccountedFor, TypeOK
<1>2. Spec => []CopiesAccounted
  BY OutgoingAccounted
<1>3. QED
  BY <1>1, <1>2, OutgoingTypeCorrect, PTL
=============================================================================
