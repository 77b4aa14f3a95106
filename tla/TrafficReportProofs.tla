------------------------ MODULE TrafficReportProofs ------------------------
(***************************************************************************)
(* Proofs about TrafficReport, for every set of users and of tags and      *)
(* every bound.  Each of the three promises of the module is made          *)
(* inductive by saying what every batch that is under way still owes.      *)
(***************************************************************************)
EXTENDS TrafficReport, TLAPS

-----------------------------------------------------------------------------
(* Shape of the data.                                                      *)

\* The empty batch is a batch with no reference and no bytes.
LEMMA NoBatchIsBatch ==
    /\ NoBatch \in Batches
    /\ NoBatch.refs = {}
    /\ \A s \in Slots : NoBatch.bytes[s] = 0
  BY DEF NoBatch, Batches, Zeros

\* Dropping the users without traffic keeps the amounts, and drops only
\* references to counters that were read as 0.
LEMMA KeptBatch ==
    ASSUME NEW b \in Batches
    PROVE  /\ Kept(b) \in Batches
           /\ Kept(b).bytes = b.bytes
           /\ Kept(b).refs \subseteq b.refs
           /\ \A s \in b.refs \ Kept(b).refs : b.bytes[s] = 0
  <1>1. /\ Kept(b) \in Batches
        /\ Kept(b).bytes = b.bytes
        /\ Kept(b).refs \subseteq b.refs
    BY DEF Kept, Batches
  <1>2. ASSUME NEW s \in b.refs, s \notin Kept(b).refs
        PROVE  b.bytes[s] = 0
    <2>1. s \in Slots
      BY DEF Batches
    <2>2. [s EXCEPT !.dir = s.dir] = s /\ s.dir \in Dirs
      BY <2>1 DEF Slots
    <2>3. ~(b.bytes[[s EXCEPT !.dir = s.dir]] > 0)
      BY <1>2, <2>1, <2>2 DEF Kept, Batches
    <2>4. b.bytes[s] \in Nat
      BY <2>1 DEF Batches
    <2> QED BY <2>2, <2>3, <2>4
  <1> QED BY <1>1, <1>2

\* Type correctness: every counter, amount and history total is a natural
\* number, whatever the panel and the connections do.
THEOREM TypeCorrect == Spec => []TypeOK
  <1>1. Init => TypeOK
    BY NoBatchIsBatch DEF Init, TypeOK, Zeros, Slots, Dirs
  <1>2. TypeOK /\ [Next]_vars => TypeOK'
    <2> SUFFICES ASSUME TypeOK, [Next]_vars PROVE TypeOK'
      OBVIOUS
    <2> USE DEF TypeOK
    <2>1. ASSUME NEW s \in Slots, Carry(s) PROVE TypeOK'
      BY <2>1 DEF Carry, nodeVars, pullVars, pushVars
    <2>2. CASE PullBegin
      BY <2>2, NoBatchIsBatch DEF PullBegin, nodeVars, pushVars, history
    <2>3. ASSUME NEW u \in Users, PullUser(u) PROVE TypeOK'
      BY <2>3 DEF PullUser, nodeVars, pushVars, history, Slots, Dirs
    <2>4. NextDir => pullPc' \in {"check", "user"} /\ pullSlot' \in Slots
      BY DEF NextDir, Slots, Dirs
    <2>5. CASE PullCheck
      BY <2>5, <2>4 DEF PullCheck, nodeVars, pushVars, history
    <2>6. CASE PullLoad
      BY <2>6, <2>4 DEF PullLoad, nodeVars, pushVars, Batches
    <2>7. CASE PullStash
      BY <2>7, NoBatchIsBatch, KeptBatch
      DEF PullStash, nodeVars, pushVars, history
    <2>8. CASE PushTake
      BY <2>8, NoBatchIsBatch DEF PushTake, nodeVars, pullVars, Batches
    <2>9. CASE PanelBooks
      BY <2>9 DEF PanelBooks, nodeVars, pullVars, history, Batches
    <2>10. CASE PushRefused
      BY <2>10, NoBatchIsBatch DEF PushRefused, nodeVars, pullVars, history
    <2>11. CASE PushUnheard
      BY <2>11, NoBatchIsBatch DEF PushUnheard, nodeVars, pullVars, Batches
    <2>12. CASE PushAccepted
      BY <2>12 DEF PushAccepted, nodeVars, pullVars, history
    <2>13. ASSUME NEW s \in Slots, PushReset(s) PROVE TypeOK'
      BY <2>13 DEF PushReset, nodeVars, pullVars, history, Batches
    <2>14. CASE PushEnd
      BY <2>14, NoBatchIsBatch DEF PushEnd, nodeVars, pullVars, history
    <2>15. ASSUME NEW t \in Tags, SetTag(t) PROVE TypeOK'
      BY <2>15 DEF SetTag, pullVars, pushVars, history
    <2>16. ASSUME NEW L \in SUBSET Users, SetUserList(L) PROVE TypeOK'
      BY <2>16 DEF SetUserList, pullVars, pushVars, history
    <2>17. CASE UNCHANGED vars
      BY <2>17 DEF vars, nodeVars, pullVars, pushVars, history
    <2> QED
      BY <2>1, <2>2, <2>3, <2>5, <2>6, <2>7, <2>8, <2>9, <2>10, <2>11, <2>12,
         <2>13, <2>14, <2>15, <2>16, <2>17 DEF Next, Pull, Push
  <1> QED BY <1>1, <1>2, PTL DEF Spec

-----------------------------------------------------------------------------
(* Nothing is lost unless exposed.                                         *)

\* Inductive: besides the promise itself, a held amount that has not been
\* booked covers what the counter may still lose, and once it is booked the
\* panel's total covers it.
LossAt(s) ==
    /\ carried[s] <= billed[s] + counter[s] + exposed[s]
    /\ \A b \in {pullBatch, pendingTraffic} :
          s \in b.refs => carried[s] <= billed[s] + exposed[s] + b.bytes[s]
    /\ s \in pushBatch.refs =>
          IF pushPc = "sent"
          THEN carried[s] <= billed[s] + exposed[s] + pushBatch.bytes[s]
          ELSE carried[s] <= billed[s] + exposed[s]

LossInv == ~DisableUploadTraffic => \A s \in Slots : LossAt(s)

\* A reset by pushMonitor erases only bytes that were billed, or that arrived
\* while some batch was holding the counter.
THEOREM NothingLost == Spec => []NothingLostUnlessExposed
  <1>1. Init => LossInv
    BY NoBatchIsBatch DEF Init, LossInv, LossAt, Zeros
  <1>2. TypeOK /\ TypeOK' /\ LossInv /\ [Next]_vars => LossInv'
    <2> SUFFICES ASSUME TypeOK, TypeOK', LossInv, [Next]_vars,
                        ~DisableUploadTraffic,
                        NEW s \in Slots
                 PROVE  LossAt(s)'
      BY DEF LossInv
    <2>0. /\ counter[s] \in Nat /\ billed[s] \in Nat
          /\ carried[s] \in Nat /\ exposed[s] \in Nat
          /\ pullBatch.bytes[s] \in Nat
          /\ pendingTraffic.bytes[s] \in Nat
          /\ pushBatch.bytes[s] \in Nat
          /\ LossAt(s)
      BY DEF TypeOK, Batches, LossInv
    <2> USE DEF LossAt
    <2>1. ASSUME NEW r \in Slots, Carry(r) PROVE LossAt(s)'
      BY <2>0, <2>1 DEF Carry, Held, TypeOK, pullVars, pushVars
    <2>2. CASE PullBegin
      BY <2>0, <2>2, NoBatchIsBatch DEF PullBegin, pushVars, history
    <2>3. ASSUME NEW u \in Users, PullUser(u) PROVE LossAt(s)'
      BY <2>0, <2>3 DEF PullUser, pushVars, history
    <2>4. CASE PullCheck
      BY <2>0, <2>4 DEF PullCheck, pushVars, history
    <2>5. CASE PullLoad
      BY <2>0, <2>5 DEF PullLoad, pushVars, TypeOK, Batches
    <2>6. CASE PullStash
      BY <2>0, <2>6, NoBatchIsBatch, KeptBatch
      DEF PullStash, pushVars, history, TypeOK
    <2>7. CASE PushTake
      BY <2>0, <2>7, NoBatchIsBatch DEF PushTake, pullVars
    <2>8. CASE PanelBooks
      BY <2>0, <2>8 DEF PanelBooks, pullVars, history
    <2>9. CASE PushRefused
      BY <2>0, <2>9, NoBatchIsBatch DEF PushRefused, pullVars, history
    <2>10. CASE PushUnheard
      BY <2>0, <2>10, NoBatchIsBatch DEF PushUnheard, pullVars
    <2>11. CASE PushAccepted
      BY <2>0, <2>11 DEF PushAccepted, pullVars, history
    <2>12. ASSUME NEW r \in Slots, PushReset(r) PROVE LossAt(s)'
      BY <2>0, <2>12 DEF PushReset, pullVars, history, TypeOK, Batches
    <2>13. CASE PushEnd
      BY <2>0, <2>13, NoBatchIsBatch DEF PushEnd, pullVars, history
    <2>14. ASSUME NEW t \in Tags, SetTag(t) PROVE LossAt(s)'
      BY <2>0, <2>14 DEF SetTag, pullVars, pushVars, history
    <2>15. ASSUME NEW L \in SUBSET Users, SetUserList(L) PROVE LossAt(s)'
      BY <2>0, <2>15 DEF SetUserList, pullVars, pushVars, history
    <2>16. CASE UNCHANGED vars
      BY <2>0, <2>16 DEF vars, pullVars, pushVars, history
    <2> QED
      BY <2>1, <2>2, <2>3, <2>4, <2>5, <2>6, <2>7, <2>8, <2>9, <2>10, <2>11,
         <2>12, <2>13, <2>14, <2>15, <2>16 DEF Next, Pull, Push
  <1>3. LossInv => NothingLostUnlessExposed
    BY DEF LossInv, LossAt, NothingLostUnlessExposed
  <1> QED BY <1>1, <1>2, <1>3, TypeCorrect, PTL DEF Spec

-----------------------------------------------------------------------------
(* What is reported is what is referenced.                                 *)

\* A batch that may still be booked reports nothing for a counter it would
\* not reset.
AmountsAt(s) ==
    /\ s \notin pullBatch.refs => pullBatch.bytes[s] = 0
    /\ s \notin pendingTraffic.refs => pendingTraffic.bytes[s] = 0
    /\ pushPc \in {"sent", "booked"} /\ s \notin pushBatch.refs =>
          pushBatch.bytes[s] = 0
    /\ pushPc = "idle" => s \notin pushBatch.refs

AmountsInRefs == \A s \in Slots : AmountsAt(s)

\* No report contains an amount whose counter a success would leave as it is
\* (it would be billed again by the next report).
THEOREM AmountsReferenced == Spec => []AmountsInRefs
  <1>1. Init => AmountsInRefs
    BY NoBatchIsBatch DEF Init, AmountsInRefs, AmountsAt, Zeros
  <1>2. TypeOK /\ TypeOK' /\ AmountsInRefs /\ [Next]_vars => AmountsInRefs'
    <2> SUFFICES ASSUME TypeOK, TypeOK', AmountsInRefs, [Next]_vars,
                        NEW s \in Slots
                 PROVE  AmountsAt(s)'
      BY DEF AmountsInRefs
    <2>0. /\ counter[s] \in Nat /\ billed[s] \in Nat
          /\ carried[s] \in Nat /\ unheard[s] \in Nat
          /\ pullBatch.bytes[s] \in Nat
          /\ pendingTraffic.bytes[s] \in Nat
          /\ pushBatch.bytes[s] \in Nat
          /\ AmountsAt(s)
      BY DEF TypeOK, Batches, AmountsInRefs
    <2> USE DEF AmountsAt
    <2>1. ASSUME NEW r \in Slots, Carry(r) PROVE AmountsAt(s)'
      BY <2>0, <2>1 DEF Carry, TypeOK, pullVars, pushVars
    <2>2. CASE PullBegin
      BY <2>0, <2>2, NoBatchIsBatch DEF PullBegin, pushVars, history
    <2>3. ASSUME NEW u \in Users, PullUser(u) PROVE AmountsAt(s)'
      BY <2>0, <2>3 DEF PullUser, pushVars, history
    <2>4. CASE PullCheck
      BY <2>0, <2>4 DEF PullCheck, pushVars, history
    <2>5. CASE PullLoad
      BY <2>0, <2>5 DEF PullLoad, pushVars, TypeOK, Batches
    <2>6. CASE PullStash
      BY <2>0, <2>6, NoBatchIsBatch, KeptBatch
      DEF PullStash, pushVars, history, TypeOK
    <2>7. CASE PushTake
      BY <2>0, <2>7, NoBatchIsBatch DEF PushTake, pullVars
    <2>8. CASE PanelBooks
      BY <2>0, <2>8 DEF PanelBooks, pullVars, history
    <2>9. CASE PushRefused
      BY <2>0, <2>9, NoBatchIsBatch DEF PushRefused, pullVars, history
    <2>10. CASE PushUnheard
      BY <2>0, <2>10, NoBatchIsBatch DEF PushUnheard, pullVars
    <2>11. CASE PushAccepted
      BY <2>0, <2>11 DEF PushAccepted, pullVars, history
    <2>12. ASSUME NEW r \in Slots, PushReset(r) PROVE AmountsAt(s)'
      BY <2>0, <2>12 DEF PushReset, pullVars, history, TypeOK, Batches
    <2>13. CASE PushEnd
      BY <2>0, <2>13, NoBatchIsBatch DEF PushEnd, pullVars, history
    <2>14. ASSUME NEW t \in Tags, SetTag(t) PROVE AmountsAt(s)'
      BY <2>0, <2>14 DEF SetTag, pullVars, pushVars, history
    <2>15. ASSUME NEW L \in SUBSET Users, SetUserList(L) PROVE AmountsAt(s)'
      BY <2>0, <2>15 DEF SetUserList, pullVars, pushVars, history
    <2>16. CASE UNCHANGED vars
      BY <2>0, <2>16 DEF vars, pullVars, pushVars, history
    <2> QED
      BY <2>1, <2>2, <2>3, <2>4, <2>5, <2>6, <2>7, <2>8, <2>9, <2>10, <2>11,
         <2>12, <2>13, <2>14, <2>15, <2>16 DEF Next, Pull, Push
  <1> QED BY <1>1, <1>2, TypeCorrect, PTL DEF Spec

-----------------------------------------------------------------------------
(* No over-billing without overlap.                                        *)

\* Inductive: while pull and push have not held the counter together, a held
\* amount is not above the counter, and the panel's total exceeds what was
\* erased by at most the amount booked and not yet reset.
SerialAt(s) ==
    /\ counter[s] <= carried[s]
    /\ s \notin overlap =>
          /\ s \in pushBatch.refs =>
                s \notin pullBatch.refs /\ s \notin pendingTraffic.refs
          /\ \A b \in {pullBatch, pendingTraffic, pushBatch} :
                s \in b.refs => b.bytes[s] <= counter[s]
          /\ billed[s] <= carried[s] - counter[s] + unheard[s]
                          + (IF pushPc \in {"booked", "reset"}
                                /\ s \in pushBatch.refs
                             THEN pushBatch.bytes[s] ELSE 0)

SerialInv == \A s \in Slots : SerialAt(s)

\* A counter that userInfoMonitor never sampled while pushMonitor held it is
\* billed at most what it carried, and what was booked unheard.
THEOREM NoOverbillWithoutOverlap == Spec => []OverbilledOnlyIfOverlapped
  <1>1. Init => SerialInv
    BY NoBatchIsBatch DEF Init, SerialInv, SerialAt, Zeros
  <1>2. TypeOK /\ TypeOK' /\ AmountsInRefs /\ SerialInv /\ [Next]_vars => SerialInv'
    <2> SUFFICES ASSUME TypeOK, TypeOK', AmountsInRefs, SerialInv, [Next]_vars,
                        NEW s \in Slots
                 PROVE  SerialAt(s)'
      BY DEF SerialInv
    <2>0. /\ counter[s] \in Nat /\ billed[s] \in Nat
          /\ carried[s] \in Nat /\ unheard[s] \in Nat
          /\ pullBatch.bytes[s] \in Nat
          /\ pendingTraffic.bytes[s] \in Nat
          /\ pushBatch.bytes[s] \in Nat
          /\ AmountsAt(s)
          /\ SerialAt(s)
      BY DEF TypeOK, Batches, SerialInv, AmountsInRefs
    <2> USE DEF SerialAt, AmountsAt
    <2>1. ASSUME NEW r \in Slots, Carry(r) PROVE SerialAt(s)'
      BY <2>0, <2>1 DEF Carry, TypeOK, pullVars, pushVars
    <2>2. CASE PullBegin
      BY <2>0, <2>2, NoBatchIsBatch DEF PullBegin, pushVars, history
    <2>3. ASSUME NEW u \in Users, PullUser(u) PROVE SerialAt(s)'
      BY <2>0, <2>3 DEF PullUser, pushVars, history
    <2>4. CASE PullCheck
      BY <2>0, <2>4 DEF PullCheck, pushVars, history
    <2>5. CASE PullLoad
      BY <2>0, <2>5 DEF PullLoad, pushVars, TypeOK, Batches
    <2>6. CASE PullStash
      BY <2>0, <2>6, NoBatchIsBatch, KeptBatch
      DEF PullStash, pushVars, history, TypeOK
    <2>7. CASE PushTake
      BY <2>0, <2>7, NoBatchIsBatch DEF PushTake, pullVars
    <2>8. CASE PanelBooks
      BY <2>0, <2>8 DEF PanelBooks, pullVars, history
    <2>9. CASE PushRefused
      BY <2>0, <2>9, NoBatchIsBatch DEF PushRefused, pullVars, history
    <2>10. CASE PushUnheard
      BY <2>0, <2>10, NoBatchIsBatch DEF PushUnheard, pullVars
    <2>11. CASE PushAccepted
      BY <2>0, <2>11 DEF PushAccepted, pullVars, history
    <2>12. ASSUME NEW r \in Slots, PushReset(r) PROVE SerialAt(s)'
      BY <2>0, <2>12 DEF PushReset, pullVars, history, TypeOK, Batches
    <2>13. CASE PushEnd
      BY <2>0, <2>13, NoBatchIsBatch DEF PushEnd, pullVars, history
    <2>14. ASSUME NEW t \in Tags, SetTag(t) PROVE SerialAt(s)'
      BY <2>0, <2>14 DEF SetTag, pullVars, pushVars, history
    <2>15. ASSUME NEW L \in SUBSET Users, SetUserList(L) PROVE SerialAt(s)'
      BY <2>0, <2>15 DEF SetUserList, pullVars, pushVars, history
    <2>16. CASE UNCHANGED vars
      BY <2>0, <2>16 DEF vars, pullVars, pushVars, history
    <2> QED
      BY <2>1, <2>2, <2>3, <2>4, <2>5, <2>6, <2>7, <2>8, <2>9, <2>10, <2>11,
         <2>12, <2>13, <2>14, <2>15, <2>16 DEF Next, Pull, Push
  <1>3. TypeOK /\ SerialInv => OverbilledOnlyIfOverlapped
    BY DEF SerialInv, SerialAt, OverbilledOnlyIfOverlapped, TypeOK, Batches
  <1> QED BY <1>1, <1>2, <1>3, TypeCorrect, AmountsReferenced, PTL DEF Spec

-----------------------------------------------------------------------------
(* No byte is billed more than three times.                                *)

Amount(b, s) == IF s \in b.refs THEN b.bytes[s] ELSE 0

Least(a, b) == IF a <= b THEN a ELSE b

\* Inductive: what is billed, and what the held batches may still bill, is
\* three times what resets erased, plus for each of the three batches the
\* part of it that is still in the counter.
ThriceAt(s) ==
    /\ counter[s] <= carried[s]
    /\ billed[s] + (IF pushPc = "sent" THEN Amount(pushBatch, s) ELSE 0)
                 + Amount(pendingTraffic, s) + Amount(pullBatch, s)
          <= 3 * (carried[s] - counter[s]) + unheard[s]
             + Least(Amount(pushBatch, s), counter[s])
             + Least(Amount(pendingTraffic, s), counter[s])
             + Least(Amount(pullBatch, s), counter[s])

ThriceInv == \A s \in Slots : ThriceAt(s)

\* However the monitors interleave, a byte is billed at most three times,
\* lost answers aside.
THEOREM AtMostThrice == Spec => []BilledAtMostThrice
  <1>1. Init => ThriceInv
    BY NoBatchIsBatch DEF Init, ThriceInv, ThriceAt, Amount, Least, Zeros
  <1>2. TypeOK /\ TypeOK' /\ AmountsInRefs /\ ThriceInv /\ [Next]_vars => ThriceInv'
    <2> SUFFICES ASSUME TypeOK, TypeOK', AmountsInRefs, ThriceInv, [Next]_vars,
                        NEW s \in Slots
                 PROVE  ThriceAt(s)'
      BY DEF ThriceInv
    <2>0. /\ counter[s] \in Nat /\ billed[s] \in Nat
          /\ carried[s] \in Nat /\ unheard[s] \in Nat
          /\ pullBatch.bytes[s] \in Nat
          /\ pendingTraffic.bytes[s] \in Nat
          /\ pushBatch.bytes[s] \in Nat
          /\ AmountsAt(s)
          /\ ThriceAt(s)
      BY DEF TypeOK, Batches, ThriceInv, AmountsInRefs
    <2> USE DEF ThriceAt, AmountsAt, Amount, Least
    <2>1. ASSUME NEW r \in Slots, Carry(r) PROVE ThriceAt(s)'
      BY <2>0, <2>1 DEF Carry, TypeOK, pullVars, pushVars
    <2>2. CASE PullBegin
      BY <2>0, <2>2, NoBatchIsBatch DEF PullBegin, pushVars, history
    <2>3. ASSUME NEW u \in Users, PullUser(u) PROVE ThriceAt(s)'
      BY <2>0, <2>3 DEF PullUser, pushVars, history
    <2>4. CASE PullCheck
      BY <2>0, <2>4 DEF PullCheck, pushVars, history
    <2>5. CASE PullLoad
      BY <2>0, <2>5 DEF PullLoad, pushVars, TypeOK, Batches
    <2>6. CASE PullStash
      <3>1. Amount(Kept(pullBatch), s) = Amount(pullBatch, s)
        BY <2>0, KeptBatch DEF TypeOK
      <3>2. \/ Amount(pendingTraffic, s)' = Amount(pullBatch, s)
            \/ Amount(pendingTraffic, s)' = Amount(pendingTraffic, s)
        BY <2>6, <3>1 DEF PullStash
      <3>3. /\ Amount(pullBatch, s)' = 0
            /\ Amount(pushBatch, s)' = Amount(pushBatch, s)
            /\ UNCHANGED <<pushPc, counter, billed, carried, unheard>>
        BY <2>6, NoBatchIsBatch DEF PullStash, pushVars, history
      <3>4. /\ Amount(pullBatch, s) \in Nat
            /\ Amount(pendingTraffic, s) \in Nat
            /\ Amount(pushBatch, s) \in Nat
        BY <2>0
      <3> HIDE DEF Amount
      <3> QED BY <2>0, <3>2, <3>3, <3>4
    <2>7. CASE PushTake
      BY <2>0, <2>7, NoBatchIsBatch DEF PushTake, pullVars
    <2>8. CASE PanelBooks
      BY <2>0, <2>8 DEF PanelBooks, pullVars, history
    <2>9. CASE PushRefused
      BY <2>0, <2>9, NoBatchIsBatch DEF PushRefused, pullVars, history
    <2>10. CASE PushUnheard
      BY <2>0, <2>10, NoBatchIsBatch DEF PushUnheard, pullVars
    <2>11. CASE PushAccepted
      BY <2>0, <2>11 DEF PushAccepted, pullVars, history
    <2>12. ASSUME NEW r \in Slots, PushReset(r) PROVE ThriceAt(s)'
      BY <2>0, <2>12 DEF PushReset, pullVars, history, TypeOK, Batches
    <2>13. CASE PushEnd
      BY <2>0, <2>13, NoBatchIsBatch DEF PushEnd, pullVars, history
    <2>14. ASSUME NEW t \in Tags, SetTag(t) PROVE ThriceAt(s)'
      BY <2>0, <2>14 DEF SetTag, pullVars, pushVars, history
    <2>15. ASSUME NEW L \in SUBSET Users, SetUserList(L) PROVE ThriceAt(s)'
      BY <2>0, <2>15 DEF SetUserList, pullVars, pushVars, history
    <2>16. CASE UNCHANGED vars
      BY <2>0, <2>16 DEF vars, pullVars, pushVars, history
    <2> QED
      BY <2>1, <2>2, <2>3, <2>4, <2>5, <2>6, <2>7, <2>8, <2>9, <2>10, <2>11,
         <2>12, <2>13, <2>14, <2>15, <2>16 DEF Next, Pull, Push
  <1>3. TypeOK /\ ThriceInv => BilledAtMostThrice
    BY DEF ThriceInv, ThriceAt, BilledAtMostThrice, TypeOK, Batches, Amount, Least
  <1> QED BY <1>1, <1>2, <1>3, TypeCorrect, AmountsReferenced, PTL DEF Spec

=============================================================================
