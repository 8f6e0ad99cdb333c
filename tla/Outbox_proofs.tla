--------------------------- MODULE Outbox_proofs ---------------------------
(***************************************************************************)
(* Theorems about module Outbox, for every number of events and workers,   *)
(* every batch size, every retry limit and every set of faults.            *)
(***************************************************************************)
EXTENDS Outbox, TLAPS

-----------------------------------------------------------------------------
(* The inductive invariant.                                                *)

\* The worker is inside its for loop.
Publishing(w) == pc[w] \in {"publishing", "markSent", "markFailed"}

\* A worker in its for loop has a claim id, and it is not the NULL of a row
\* that nobody claims.
PublishersHaveClaims ==
  \A w \in Workers : Publishing(w) => claimId[w] # NoClaim

\* The batch of a worker fits the statement it has reached.
BatchesFit ==
  \A w \in Workers :
    /\ pc[w] = "idle" => batch[w] = {}
    /\ pc[w] = "claiming" => \A e \in batch[w] : status[e] = "PENDING"

\* How many copies of an event are in the broker, by the status of its row.
CopiesFitStatus ==
  \A e \in Events :
    /\ status[e] = "NONE" => published[e] = 0 /\ retryCount[e] = 0
    /\ status[e] = "PENDING" => published[e] <= retryCount[e] + resent[e]
    /\ status[e] = "PROCESSING" =>
         published[e] <= retryCount[e] + 1 + resent[e]
    /\ status[e] = "SENT" =>
         published[e] > 0 /\ published[e] <= retryCount[e] + 1 + resent[e]
    /\ status[e] = "FAILED" => published[e] <= retryCount[e] + resent[e]
    /\ status[e] # "FAILED" => retryCount[e] < MaxRetries

\* What the worker that holds an event has done with it: under this claim no
\* copy is in the broker yet but those that were resent, or it is the current
\* event and has reached the broker.
CopiesFitStep ==
  \A w \in Workers : \A e \in batch[w] :
    /\ Publishing(w) /\ (pc[w] = "publishing" \/ ~IsCurrent(w, e)) =>
         published[e] <= retryCount[e] + resent[e]
    /\ pc[w] = "markSent" /\ IsCurrent(w, e) => published[e] > 0

\* A row with an uncommitted booking is left alone until that is decided.
LateRowsAreFree ==
  \A e \in Events : late[e] # "none" =>
    /\ status[e] = "PROCESSING"
    /\ \A w \in Workers : e \notin batch[w]
    /\ late[e] = "sent" => published[e] > 0

IInv == /\ TypeOK
        /\ PublishersHaveClaims
        /\ BatchesFit
        /\ ClaimExclusive
        /\ HeldRowsAreOwned
        /\ CopiesFitStatus
        /\ CopiesFitStep
        /\ LateRowsAreFree

-----------------------------------------------------------------------------
(* Facts about the operators.                                              *)

\* The for loop is at one event at a time.
LEMMA CurrentIsUnique ==
  ASSUME TypeOK, NEW w \in Workers, NEW e \in Events, NEW x \in Events,
         IsCurrent(w, e), IsCurrent(w, x)
  PROVE  e = x
  BY EventsAssumption DEF IsCurrent, TypeOK

\* A row update changes one row, and keeps the table well typed.
LEMMA UpdateRowTyped ==
  ASSUME TypeOK, NEW w \in Workers, NEW e \in Events,
         NEW s \in Statuses, NEW n \in 0..MaxRetries, UpdateRow(w, e, s, n)
  PROVE  /\ status' \in [Events -> Statuses]
         /\ processingClaim' \in [Events -> Nat]
         /\ retryCount' \in [Events -> 0..MaxRetries]
         /\ \A x \in Events \ {e} : /\ status'[x] = status[x]
                                    /\ processingClaim'[x] = processingClaim[x]
                                    /\ retryCount'[x] = retryCount[x]
         /\ RowMatches(w, e) => /\ status'[e] = s
                                /\ processingClaim'[e] = NoClaim
                                /\ retryCount'[e] = n
         /\ ~RowMatches(w, e) => /\ status' = status
                                 /\ processingClaim' = processingClaim
                                 /\ retryCount' = retryCount
  <1>1. CASE RowMatches(w, e)
    <2>1. /\ status' = [status EXCEPT ![e] = s]
          /\ retryCount' = [retryCount EXCEPT ![e] = n]
          /\ processingClaim' = [processingClaim EXCEPT ![e] = NoClaim]
      BY <1>1 DEF UpdateRow
    <2> QED
      BY <1>1, <2>1 DEF TypeOK, NoClaim
  <1>2. CASE ~RowMatches(w, e)
    BY <1>2 DEF UpdateRow, TypeOK, table
  <1> QED
    BY <1>1, <1>2

\* The end of a cycle resets the worker and nobody else.
LEMMA EndCycleTyped ==
  ASSUME TypeOK, NEW w \in Workers, EndCycle(w)
  PROVE  /\ pc' \in [Workers -> {"idle", "claiming", "publishing",
                                 "markSent", "markFailed"}]
         /\ claimId' \in [Workers -> Nat]
         /\ batch' \in [Workers -> SUBSET Events]
         /\ readRetries' \in [Workers -> [Events -> 0..MaxRetries]]
         /\ pc'[w] = "idle" /\ batch'[w] = {}
         /\ \A v \in Workers \ {w} :
              /\ pc'[v] = pc[v] /\ claimId'[v] = claimId[v]
              /\ batch'[v] = batch[v] /\ readRetries'[v] = readRetries[v]
  <1>1. NoRetries \in [Events -> 0..MaxRetries]
    BY LimitsAssumption DEF NoRetries
  <1>2. NoClaim \in Nat
    BY DEF NoClaim
  <1> QED
    BY <1>1, <1>2 DEF EndCycle, TypeOK

\* After an event is dealt with, the worker goes on without it or is done.
LEMMA NextEventTyped ==
  ASSUME TypeOK, NEW w \in Workers, NEW e \in batch[w], NextEvent(w, e)
  PROVE  /\ pc' \in [Workers -> {"idle", "claiming", "publishing",
                                 "markSent", "markFailed"}]
         /\ claimId' \in [Workers -> Nat]
         /\ batch' \in [Workers -> SUBSET Events]
         /\ readRetries' \in [Workers -> [Events -> 0..MaxRetries]]
         /\ batch'[w] = batch[w] \ {e}
         /\ \/ pc'[w] = "idle"
            \/ /\ pc'[w] = "publishing" /\ claimId'[w] = claimId[w]
               /\ readRetries'[w] = readRetries[w]
         /\ pc'[w] = "idle" => batch'[w] = {}
         /\ \A v \in Workers \ {w} :
              /\ pc'[v] = pc[v] /\ claimId'[v] = claimId[v]
              /\ batch'[v] = batch[v] /\ readRetries'[v] = readRetries[v]
  <1>1. CASE batch[w] = {e}
    BY <1>1, EndCycleTyped DEF NextEvent
  <1>2. CASE batch[w] # {e}
    <2>1. /\ pc' = [pc EXCEPT ![w] = "publishing"]
          /\ batch' = [batch EXCEPT ![w] = @ \ {e}]
          /\ claimId' = claimId /\ readRetries' = readRetries
      BY <1>2 DEF NextEvent
    <2>2. batch' \in [Workers -> SUBSET Events]
      BY <2>1 DEF TypeOK
    <2> QED
      BY <2>1, <2>2 DEF TypeOK
  <1> QED
    BY <1>1, <1>2

-----------------------------------------------------------------------------
(* The steps that preserve the invariant, one lemma per kind of step.      *)

\* A transaction records an event: nobody holds it.
LEMMA RecordKeepsIInv ==
  ASSUME IInv, NEW e \in Events, Record(e)
  PROVE  IInv'
  <1> USE DEF Record, local, broker, IInv
  <1>1. TypeOK'
    BY DEF TypeOK, Statuses
  <1>2. PublishersHaveClaims' /\ BatchesFit'
    BY DEF PublishersHaveClaims, BatchesFit, Publishing, TypeOK
  <1>3. ClaimExclusive' /\ HeldRowsAreOwned'
    BY DEF ClaimExclusive, HeldRowsAreOwned, TypeOK, IsCurrent
  <1>4. CopiesFitStatus' /\ CopiesFitStep'
    BY DEF CopiesFitStatus, CopiesFitStep, TypeOK, IsCurrent, Publishing
  <1>5. LateRowsAreFree'
    BY DEF LateRowsAreFree, TypeOK
  <1> QED
    BY <1>1, <1>2, <1>3, <1>4, <1>5

\* A worker whose cycle ends leaves the table to the others.
LEMMA EndCycleKeepsIInv ==
  ASSUME IInv, NEW w \in Workers, EndCycle(w),
         UNCHANGED <<table, lastClaim, late, broker>>
  PROVE  IInv'
  <1> USE DEF IInv, table, broker
  <1>1. TypeOK'
    BY EndCycleTyped DEF TypeOK
  <1>2. /\ pc'[w] = "idle" /\ batch'[w] = {}
        /\ \A v \in Workers \ {w} :
             /\ pc'[v] = pc[v] /\ claimId'[v] = claimId[v]
             /\ batch'[v] = batch[v] /\ readRetries'[v] = readRetries[v]
    BY EndCycleTyped
  <1>3. PublishersHaveClaims' /\ BatchesFit'
    BY <1>2 DEF PublishersHaveClaims, BatchesFit, Publishing
  <1>4. ClaimExclusive'
    BY <1>2 DEF ClaimExclusive
  <1>5. HeldRowsAreOwned'
    <2>1. \A x \in Events : status'[x] = "PROCESSING"
                              <=> processingClaim'[x] # NoClaim
      BY DEF HeldRowsAreOwned
    <2>2. ASSUME NEW v \in Workers, Publishing(v)', NEW x \in batch'[v]
          PROVE  /\ readRetries'[v][x] = retryCount'[x]
                 /\ \/ status'[x] = "PROCESSING" /\ processingClaim'[x] = claimId'[v]
                    \/ status'[x] = "SENT" /\ pc'[v] = "markFailed" /\ IsCurrent(v, x)'
      BY <1>2, <2>2 DEF HeldRowsAreOwned, IsCurrent, Publishing
    <2> QED
      BY <2>1, <2>2 DEF HeldRowsAreOwned, Publishing
  <1>6. CopiesFitStatus' /\ CopiesFitStep'
    BY <1>2 DEF CopiesFitStatus, CopiesFitStep, IsCurrent, Publishing
  <1>7. LateRowsAreFree'
    BY <1>2 DEF LateRowsAreFree
  <1> QED
    BY <1>1, <1>3, <1>4, <1>5, <1>6, <1>7

\* The rows a worker selects are PENDING, and nobody else selects or holds
\* them: held rows are not PENDING, and locked rows are skipped.
LEMMA SelectPendingKeepsIInv ==
  ASSUME IInv, NEW w \in Workers, SelectPending(w)
  PROVE  IInv'
  <1> USE DEF IInv
  <1>1. /\ pc[w] = "idle" /\ pc'[w] = "claiming"
        /\ batch'[w] \subseteq Claimable
        /\ \A v \in Workers \ {w} : pc'[v] = pc[v] /\ batch'[v] = batch[v]
        /\ UNCHANGED <<status, processingClaim, retryCount, claimId,
                       readRetries, lastClaim, late, published, resent>>
    BY DEF SelectPending, isProcessing, Oldest, TypeOK, table, broker
  <1>2. TypeOK'
    <2>1. Oldest(Claimable) \subseteq Events
      BY DEF Oldest, Claimable
    <2> QED
      BY <1>1, <2>1 DEF SelectPending, TypeOK
  <1>3. PublishersHaveClaims'
    BY <1>1 DEF PublishersHaveClaims, Publishing
  <1>4. BatchesFit'
    BY <1>1 DEF BatchesFit, Claimable
  <1>5. ClaimExclusive'
    <2>1. ASSUME NEW v \in Workers \ {w}, NEW x \in batch[v]
          PROVE  x \notin Claimable
      <3>1. CASE pc[v] = "idle"
        BY <3>1 DEF BatchesFit
      <3>2. CASE pc[v] = "claiming"
        BY <3>2 DEF Claimable
      <3>3. CASE pc[v] \in {"publishing", "markSent", "markFailed"}
        BY <3>3 DEF HeldRowsAreOwned, Claimable
      <3> QED
        BY <3>1, <3>2, <3>3 DEF TypeOK
    <2> QED
      BY <1>1, <2>1 DEF ClaimExclusive
  <1>6. HeldRowsAreOwned'
    <2>1. \A x \in Events : status'[x] = "PROCESSING"
                              <=> processingClaim'[x] # NoClaim
      BY <1>1 DEF HeldRowsAreOwned
    <2>2. ASSUME NEW v \in Workers, Publishing(v)', NEW x \in batch'[v]
          PROVE  /\ readRetries'[v][x] = retryCount'[x]
                 /\ \/ status'[x] = "PROCESSING" /\ processingClaim'[x] = claimId'[v]
                    \/ status'[x] = "SENT" /\ pc'[v] = "markFailed" /\ IsCurrent(v, x)'
      BY <1>1, <2>2 DEF HeldRowsAreOwned, IsCurrent, Publishing
    <2> QED
      BY <2>1, <2>2 DEF HeldRowsAreOwned, Publishing
  <1>7. CopiesFitStatus' /\ CopiesFitStep'
    BY <1>1 DEF CopiesFitStatus, CopiesFitStep, IsCurrent, Publishing
  <1>8. LateRowsAreFree'
    BY <1>1 DEF LateRowsAreFree, Claimable
  <1> QED
    BY <1>2, <1>3, <1>4, <1>5, <1>6, <1>7, <1>8

\* The claim turns PENDING rows that nobody else holds into rows of this
\* worker, or of nobody.
LEMMA ClaimRowsTyped ==
  ASSUME IInv, NEW w \in Workers, ClaimRows(w)
  PROVE  /\ lastClaim' \in Nat /\ lastClaim' # NoClaim
         /\ status' \in [Events -> Statuses]
         /\ processingClaim' \in [Events -> Nat]
         /\ UNCHANGED <<retryCount, late, published, resent>>
         /\ \A x \in batch[w] :
              /\ status[x] = "PENDING"
              /\ status'[x] = "PROCESSING" /\ processingClaim'[x] = lastClaim'
         /\ \A x \in Events \ batch[w] :
              status'[x] = status[x] /\ processingClaim'[x] = processingClaim[x]
         /\ batch[w] \subseteq Events
  <1>1. lastClaim' \in Nat /\ lastClaim' # NoClaim
    BY DEF ClaimRows, IInv, TypeOK, NoClaim
  <1>2. \A x \in batch[w] : status[x] = "PENDING" /\ x \in Events
    BY DEF ClaimRows, IInv, BatchesFit, TypeOK
  <1> QED
    BY <1>1, <1>2 DEF ClaimRows, IInv, TypeOK, Statuses, broker

LEMMA CommitClaimKeepsIInv ==
  ASSUME IInv, NEW w \in Workers, CommitClaim(w)
  PROVE  IInv'
  <1> USE DEF IInv
  <1>1. /\ pc[w] = "claiming" /\ pc'[w] = "publishing" /\ batch' = batch
        /\ claimId'[w] = lastClaim'
        /\ \A x \in Events :
             readRetries'[w][x] = IF x \in batch[w] THEN retryCount[x] ELSE 0
        /\ \A v \in Workers \ {w} :
             /\ pc'[v] = pc[v] /\ claimId'[v] = claimId[v]
             /\ readRetries'[v] = readRetries[v]
    BY DEF CommitClaim, ClaimRows, TypeOK
  <1>2. TypeOK'
    <2>1. 0 \in 0..MaxRetries
      BY LimitsAssumption
    <2> QED
      BY <2>1, ClaimRowsTyped DEF CommitClaim, TypeOK
  <1>3. ClaimRows(w)
    BY DEF CommitClaim
  <1>4. PublishersHaveClaims'
    BY <1>1, <1>3, ClaimRowsTyped DEF PublishersHaveClaims, Publishing
  <1>5. ClaimExclusive'
    BY <1>1 DEF ClaimExclusive
  <1>6. \A v \in Workers \ {w} : \A x \in batch[v] : x \in Events \ batch[w]
    BY DEF ClaimExclusive, TypeOK
  <1>7. BatchesFit'
    BY <1>1, <1>3, <1>6, ClaimRowsTyped DEF BatchesFit
  <1>8. HeldRowsAreOwned'
    <2>1. \A x \in Events : status'[x] = "PROCESSING"
                              <=> processingClaim'[x] # NoClaim
      BY <1>3, ClaimRowsTyped DEF HeldRowsAreOwned, TypeOK
    <2>2. ASSUME NEW v \in Workers, Publishing(v)', NEW x \in batch'[v]
          PROVE  /\ readRetries'[v][x] = retryCount'[x]
                 /\ \/ status'[x] = "PROCESSING" /\ processingClaim'[x] = claimId'[v]
                    \/ status'[x] = "SENT" /\ pc'[v] = "markFailed" /\ IsCurrent(v, x)'
      <3>1. CASE v = w
        BY <1>1, <1>3, <3>1, ClaimRowsTyped
      <3>2. CASE v # w
        BY <1>1, <1>3, <1>6, <2>2, <3>2, ClaimRowsTyped
        DEF HeldRowsAreOwned, IsCurrent, Publishing
      <3> QED
        BY <3>1, <3>2
    <2> QED
      BY <2>1, <2>2 DEF HeldRowsAreOwned, Publishing
  <1>9. CopiesFitStatus'
    BY <1>3, ClaimRowsTyped DEF CopiesFitStatus, TypeOK
  <1>10. CopiesFitStep'
    BY <1>1, <1>3, ClaimRowsTyped
    DEF CopiesFitStep, CopiesFitStatus, IsCurrent, Publishing
  <1>11. LateRowsAreFree'
    BY <1>1, <1>3, ClaimRowsTyped DEF LateRowsAreFree
  <1> QED
    BY <1>2, <1>4, <1>5, <1>7, <1>8, <1>9, <1>10, <1>11

LEMMA LoseClaimKeepsIInv ==
  ASSUME IInv, NEW w \in Workers, LoseClaim(w)
  PROVE  IInv'
  <1> USE DEF IInv
  <1>1. ClaimRows(w) /\ EndCycle(w)
    BY DEF LoseClaim
  <1>2. /\ pc'[w] = "idle" /\ batch'[w] = {}
        /\ \A v \in Workers \ {w} :
             /\ pc'[v] = pc[v] /\ claimId'[v] = claimId[v]
             /\ batch'[v] = batch[v] /\ readRetries'[v] = readRetries[v]
    BY <1>1, EndCycleTyped
  <1>3. TypeOK'
    BY <1>1, ClaimRowsTyped, EndCycleTyped DEF TypeOK
  <1>4. PublishersHaveClaims'
    BY <1>2 DEF PublishersHaveClaims, Publishing
  <1>5. ClaimExclusive'
    BY <1>2 DEF ClaimExclusive
  <1>6. \A v \in Workers \ {w} : \A x \in batch[v] : x \in Events \ batch[w]
    BY DEF ClaimExclusive, TypeOK
  <1>7. BatchesFit'
    BY <1>1, <1>2, <1>6, ClaimRowsTyped DEF BatchesFit
  <1>8. HeldRowsAreOwned'
    <2>1. \A x \in Events : status'[x] = "PROCESSING"
                              <=> processingClaim'[x] # NoClaim
      BY <1>1, ClaimRowsTyped DEF HeldRowsAreOwned, TypeOK
    <2>2. ASSUME NEW v \in Workers, Publishing(v)', NEW x \in batch'[v]
          PROVE  /\ readRetries'[v][x] = retryCount'[x]
                 /\ \/ status'[x] = "PROCESSING" /\ processingClaim'[x] = claimId'[v]
                    \/ status'[x] = "SENT" /\ pc'[v] = "markFailed" /\ IsCurrent(v, x)'
      BY <1>1, <1>2, <1>6, <2>2, ClaimRowsTyped
      DEF HeldRowsAreOwned, IsCurrent, Publishing
    <2> QED
      BY <2>1, <2>2 DEF HeldRowsAreOwned, Publishing
  <1>9. CopiesFitStatus'
    BY <1>1, ClaimRowsTyped DEF CopiesFitStatus, TypeOK
  <1>10. CopiesFitStep'
    BY <1>1, <1>2, ClaimRowsTyped
    DEF CopiesFitStep, CopiesFitStatus, IsCurrent, Publishing
  <1>11. LateRowsAreFree'
    BY <1>1, <1>2, ClaimRowsTyped DEF LateRowsAreFree
  <1> QED
    BY <1>3, <1>4, <1>5, <1>7, <1>8, <1>9, <1>10, <1>11

\* An attempt at the current event: copies reached the broker or not, and
\* only an attempt that left a copy is booked as sent.
LEMMA PublishKeepsIInv ==
  ASSUME IInv, NEW w \in Workers, NEW e \in Events,
         PublishStep(w, e) \/ Resend(w, e)
  PROVE  IInv'
  <1> USE DEF IInv
  <1>1. /\ pc[w] = "publishing" /\ IsCurrent(w, e) /\ e \in batch[w]
        /\ \/ /\ published' = [published EXCEPT ![e] = @ + 1]
              /\ pc' = [pc EXCEPT ![w] = "markSent"]
              /\ resent' = resent
           \/ /\ published' = [published EXCEPT ![e] = @ + 1]
              /\ pc' = [pc EXCEPT ![w] = "markFailed"]
              /\ resent' = resent
           \/ /\ published' = [published EXCEPT ![e] = @ + 1]
              /\ pc' = [pc EXCEPT ![w] = "publishing"]
              /\ resent' = [resent EXCEPT ![e] = @ + 1]
              /\ resent[e] < MaxResends
           \/ /\ published' = published
              /\ pc' = [pc EXCEPT ![w] = "markFailed"]
              /\ resent' = resent
        /\ UNCHANGED <<status, processingClaim, retryCount, claimId, batch,
                       readRetries, lastClaim, late>>
    BY DEF PublishStep, PublishConfirmed, PublishUnconfirmed, PublishLost,
           Resend, Publish, Goto, table, broker, IsCurrent
  <1>2. TypeOK'
    <2>1. published' \in [Events -> Nat]
      <3>1. published \in [Events -> Nat] /\ published[e] + 1 \in Nat
        BY DEF TypeOK
      <3>2. \/ published' = [published EXCEPT ![e] = published[e] + 1]
            \/ published' = published
        BY <1>1
      <3> QED
        BY <3>1, <3>2
    <2>2. resent' \in [Events -> 0..MaxResends]
      <3>1. CASE resent' = resent
        BY <3>1 DEF TypeOK
      <3>2. CASE /\ resent' = [resent EXCEPT ![e] = @ + 1]
                 /\ resent[e] < MaxResends
        <4>1. resent[e] + 1 \in 0..MaxResends
          BY <3>2, LimitsAssumption DEF TypeOK
        <4> QED
          BY <3>2, <4>1 DEF TypeOK
      <3> QED
        BY <1>1, <3>1, <3>2
    <2>3. pc' \in [Workers -> {"idle", "claiming", "publishing",
                              "markSent", "markFailed"}]
      BY <1>1 DEF TypeOK
    <2> QED
      BY <1>1, <2>1, <2>2, <2>3 DEF TypeOK
  <1>3. /\ pc'[w] \in {"publishing", "markSent", "markFailed"}
        /\ \A v \in Workers \ {w} : pc'[v] = pc[v]
        /\ published[e] <= published'[e]
        /\ published'[e] + resent[e] <= published[e] + resent'[e] + 1
        /\ pc'[w] = "publishing" =>
             published'[e] + resent[e] <= published[e] + resent'[e]
        /\ pc'[w] = "markSent" => published'[e] > 0
        /\ resent[e] \in Nat /\ resent'[e] \in Nat /\ published'[e] \in Nat
        /\ \A x \in Events \ {e} :
             published'[x] = published[x] /\ resent'[x] = resent[x]
    <2>1. pc[w] = "publishing" /\ published[e] \in Nat /\ resent[e] \in Nat
      BY <1>1 DEF TypeOK
    <2> QED
      BY <1>1, <2>1 DEF TypeOK
  <1>4. /\ status[e] = "PROCESSING"
        /\ published[e] <= retryCount[e] + resent[e]
        /\ published[e] \in Nat /\ retryCount[e] \in Nat
        /\ \A v \in Workers \ {w} : \A x \in batch[v] : x \in Events \ {e}
    BY <1>1 DEF HeldRowsAreOwned, CopiesFitStep, ClaimExclusive, Publishing,
                TypeOK
  <1>5. PublishersHaveClaims' /\ BatchesFit'
    BY <1>1, <1>3 DEF PublishersHaveClaims, BatchesFit, Publishing
  <1>6. ClaimExclusive'
    BY <1>1 DEF ClaimExclusive
  <1>7. HeldRowsAreOwned'
    <2>1. \A x \in Events : status'[x] = "PROCESSING"
                              <=> processingClaim'[x] # NoClaim
      BY <1>1 DEF HeldRowsAreOwned, TypeOK
    <2>2. ASSUME NEW v \in Workers, Publishing(v)', NEW x \in batch'[v]
          PROVE  /\ readRetries'[v][x] = retryCount'[x]
                 /\ \/ status'[x] = "PROCESSING" /\ processingClaim'[x] = claimId'[v]
                    \/ status'[x] = "SENT" /\ pc'[v] = "markFailed" /\ IsCurrent(v, x)'
      <3>1. CASE v = w
        BY <1>1, <1>3, <2>2, <3>1 DEF HeldRowsAreOwned, IsCurrent
      <3>2. CASE v # w
        BY <1>1, <1>3, <2>2, <3>2 DEF HeldRowsAreOwned, IsCurrent, Publishing
      <3> QED
        BY <3>1, <3>2
    <2> QED
      BY <2>1, <2>2 DEF HeldRowsAreOwned, Publishing
  <1>8. CopiesFitStatus'
    BY <1>1, <1>3, <1>4 DEF CopiesFitStatus, TypeOK
  <1>9. CopiesFitStep'
    <2>1. ASSUME NEW v \in Workers, NEW x \in batch'[v], Publishing(v)',
                 pc'[v] = "publishing" \/ ~IsCurrent(v, x)'
          PROVE  published'[x] <= retryCount'[x] + resent'[x]
      <3>1. CASE x = e
        <4>1. v = w /\ pc'[w] = "publishing"
          BY <1>1, <1>3, <1>4, <2>1, <3>1 DEF IsCurrent
        <4> QED
          BY <1>1, <1>3, <1>4, <3>1, <4>1
      <3>2. CASE x # e
        BY <1>1, <1>3, <1>4, <2>1, <3>2
        DEF CopiesFitStep, IsCurrent, Publishing, TypeOK
      <3> QED
        BY <3>1, <3>2
    <2>2. ASSUME NEW v \in Workers, NEW x \in batch'[v],
                 pc'[v] = "markSent", IsCurrent(v, x)'
          PROVE  published'[x] > 0
      <3>1. CASE v = w
        <4>1. x \in Events /\ IsCurrent(w, x)
          BY <1>1, <2>2, <3>1 DEF IsCurrent, TypeOK
        <4>2. x = e
          BY <1>1, <4>1, CurrentIsUnique
        <4> QED
          BY <1>3, <2>2, <3>1, <4>2
      <3>2. CASE v # w
        BY <1>1, <1>3, <1>4, <2>2, <3>2 DEF CopiesFitStep, IsCurrent
      <3> QED
        BY <3>1, <3>2
    <2> QED
      BY <2>1, <2>2 DEF CopiesFitStep
  <1>10. LateRowsAreFree'
    BY <1>1, <1>3 DEF LateRowsAreFree, TypeOK
  <1> QED
    BY <1>2, <1>5, <1>6, <1>7, <1>8, <1>9, <1>10

\* What a booking may do to the table: the row of e is given up by its claim
\* with a status its copies and its retries fit, and no other row changes.
RowBooked(e) ==
  /\ status' \in [Events -> Statuses]
  /\ processingClaim' \in [Events -> Nat]
  /\ retryCount' \in [Events -> 0..MaxRetries]
  /\ \A x \in Events \ {e} : /\ status'[x] = status[x]
                             /\ processingClaim'[x] = processingClaim[x]
                             /\ retryCount'[x] = retryCount[x]
  /\ processingClaim'[e] = NoClaim
  /\ \/ /\ status'[e] = "PENDING"
        /\ published[e] <= retryCount'[e] + resent[e]
     \/ /\ status'[e] = "SENT" /\ published[e] > 0
        /\ published[e] <= retryCount'[e] + 1 + resent[e]
     \/ /\ status'[e] = "FAILED"
        /\ published[e] <= retryCount'[e] + resent[e]
  /\ status'[e] # "FAILED" => retryCount'[e] < MaxRetries

\* markEventAsSent finds the claim it looks for.
LEMMA MarkSentRowBooks ==
  ASSUME IInv, NEW w \in Workers, NEW e \in Events,
         pc[w] = "markSent", IsCurrent(w, e), MarkSentRow(w, e)
  PROVE  RowBooked(e) /\ status'[e] = "SENT" /\ retryCount'[e] = retryCount[e]
  <1> USE DEF IInv
  <1>1. /\ status[e] = "PROCESSING" /\ RowMatches(w, e)
        /\ published[e] > 0
    BY DEF HeldRowsAreOwned, CopiesFitStep, IsCurrent, RowMatches
  <1>2. /\ retryCount[e] \in 0..MaxRetries /\ retryCount[e] < MaxRetries
        /\ published[e] <= retryCount[e] + 1 + resent[e]
    BY <1>1 DEF CopiesFitStatus, TypeOK
  <1>3. UpdateRow(w, e, "SENT", retryCount[e]) /\ "SENT" \in Statuses
    BY DEF MarkSentRow, Statuses
  <1> QED
    BY <1>1, <1>2, <1>3, UpdateRowTyped DEF RowBooked

\* markEventAsFailed counts a failure, or finds that the event it holds has
\* been marked as sent after all.
LEMMA MarkFailedRowBooks ==
  ASSUME IInv, NEW w \in Workers, NEW e \in Events,
         pc[w] = "markFailed", IsCurrent(w, e), MarkFailedRow(w, e)
  PROVE  /\ RowBooked(e)
         /\ \/ /\ status[e] = "PROCESSING"
               /\ retryCount'[e] = retryCount[e] + 1
               /\ status'[e] = IF retryCount[e] + 1 >= MaxRetries
                               THEN "FAILED" ELSE "PENDING"
            \/ /\ status[e] = "SENT"
               /\ status' = status /\ retryCount' = retryCount
  <1> USE DEF IInv
  <1>1. /\ readRetries[w][e] = retryCount[e]
        /\ retryCount[e] \in 0..MaxRetries /\ published[e] \in Nat
        /\ claimId[w] # NoClaim
        /\ \/ status[e] = "PROCESSING" /\ RowMatches(w, e)
           \/ status[e] = "SENT"
    BY DEF HeldRowsAreOwned, PublishersHaveClaims, Publishing, IsCurrent,
           RowMatches, TypeOK
  <1> DEFINE n == retryCount[e] + 1
             s == StatusAfterFailure(n)
  <1>2. UpdateRow(w, e, s, n)
    BY <1>1 DEF MarkFailedRow, NextRetryCount
  <1>3. /\ retryCount[e] < MaxRetries /\ n \in 0..MaxRetries
        /\ s = IF n >= MaxRetries THEN "FAILED" ELSE "PENDING"
        /\ s \in Statuses
    BY <1>1, LimitsAssumption DEF CopiesFitStatus, StatusAfterFailure, Statuses
  <1>4. CASE status[e] = "PROCESSING"
    <2>1. RowMatches(w, e) /\ published[e] <= n + resent[e]
      BY <1>1, <1>4 DEF CopiesFitStatus
    <2>2. /\ status' \in [Events -> Statuses]
          /\ processingClaim' \in [Events -> Nat]
          /\ retryCount' \in [Events -> 0..MaxRetries]
          /\ \A x \in Events \ {e} : /\ status'[x] = status[x]
                                     /\ processingClaim'[x] = processingClaim[x]
                                     /\ retryCount'[x] = retryCount[x]
          /\ status'[e] = s /\ processingClaim'[e] = NoClaim /\ retryCount'[e] = n
      BY <1>2, <1>3, <2>1, UpdateRowTyped
    <2> QED
      BY <1>1, <1>3, <1>4, <2>1, <2>2, LimitsAssumption DEF RowBooked
  <1>5. CASE status[e] = "SENT"
    <2>1. processingClaim[e] = NoClaim /\ ~RowMatches(w, e)
      BY <1>1, <1>5 DEF HeldRowsAreOwned, RowMatches
    <2>2. /\ status' = status /\ processingClaim' = processingClaim
          /\ retryCount' = retryCount
      BY <1>2, <1>3, <2>1, UpdateRowTyped
    <2> QED
      BY <1>5, <2>1, <2>2 DEF RowBooked, CopiesFitStatus, TypeOK
  <1> QED
    BY <1>1, <1>4, <1>5

\* A worker that has booked its current event and leaves it keeps the
\* invariant, whether it goes on with its batch or its cycle ends.
LEMMA BookingKeepsIInv ==
  ASSUME IInv, NEW w \in Workers, NEW e \in Events,
         Publishing(w), IsCurrent(w, e), RowBooked(e),
         NextEvent(w, e) \/ EndCycle(w),
         UNCHANGED <<lastClaim, late, broker>>
  PROVE  IInv'
  <1> USE DEF IInv, broker
  <1>1. /\ e \in batch[w]
        /\ batch'[w] \subseteq batch[w] \ {e}
        /\ \/ pc'[w] = "idle"
           \/ /\ pc'[w] = "publishing" /\ claimId'[w] = claimId[w]
              /\ readRetries'[w] = readRetries[w]
        /\ pc'[w] = "idle" => batch'[w] = {}
        /\ \A v \in Workers \ {w} :
             /\ pc'[v] = pc[v] /\ claimId'[v] = claimId[v]
             /\ batch'[v] = batch[v] /\ readRetries'[v] = readRetries[v]
    <2>1. e \in batch[w]
      BY DEF IsCurrent
    <2>2. CASE NextEvent(w, e)
      BY <2>1, <2>2, NextEventTyped
    <2>3. CASE EndCycle(w)
      BY <2>1, <2>3, EndCycleTyped
    <2> QED
      BY <2>2, <2>3
  <1>2. TypeOK'
    <2>1. CASE NextEvent(w, e)
      BY <1>1, <2>1, NextEventTyped DEF TypeOK, RowBooked
    <2>2. CASE EndCycle(w)
      BY <2>2, EndCycleTyped DEF TypeOK, RowBooked
    <2> QED
      BY <2>1, <2>2
  <1>3. \A v \in Workers : \A x \in batch'[v] :
          x \in batch[v] /\ x \in Events \ {e}
    BY <1>1 DEF ClaimExclusive, TypeOK
  <1>4. PublishersHaveClaims'
    BY <1>1 DEF PublishersHaveClaims, Publishing
  <1>5. BatchesFit'
    BY <1>1, <1>3 DEF BatchesFit, RowBooked
  <1>6. ClaimExclusive'
    BY <1>1 DEF ClaimExclusive
  <1>7. \A x \in batch[w] \ {e} : ~IsCurrent(w, x)
    BY CurrentIsUnique DEF TypeOK
  <1>8. HeldRowsAreOwned'
    <2>1. \A x \in Events : status'[x] = "PROCESSING"
                              <=> processingClaim'[x] # NoClaim
      BY <1>1 DEF HeldRowsAreOwned, RowBooked
    <2>2. ASSUME NEW v \in Workers, Publishing(v)', NEW x \in batch'[v]
          PROVE  /\ readRetries'[v][x] = retryCount'[x]
                 /\ \/ status'[x] = "PROCESSING" /\ processingClaim'[x] = claimId'[v]
                    \/ status'[x] = "SENT" /\ pc'[v] = "markFailed" /\ IsCurrent(v, x)'
      <3>1. CASE v = w
        BY <1>1, <1>3, <1>7, <2>2, <3>1
        DEF HeldRowsAreOwned, Publishing, RowBooked
      <3>2. CASE v # w
        BY <1>1, <1>3, <2>2, <3>2
        DEF HeldRowsAreOwned, IsCurrent, Publishing, RowBooked
      <3> QED
        BY <3>1, <3>2
    <2> QED
      BY <2>1, <2>2 DEF HeldRowsAreOwned, Publishing
  <1>9. CopiesFitStatus'
    BY DEF CopiesFitStatus, RowBooked, TypeOK
  <1>10. CopiesFitStep'
    <2>1. ASSUME NEW v \in Workers, NEW x \in batch'[v], Publishing(v)',
                 pc'[v] = "publishing" \/ ~IsCurrent(v, x)'
          PROVE  published'[x] <= retryCount'[x] + resent'[x]
      <3>1. CASE v = w
        BY <1>1, <1>3, <1>7, <2>1, <3>1
        DEF CopiesFitStep, Publishing, RowBooked
      <3>2. CASE v # w
        BY <1>1, <1>3, <2>1, <3>2
        DEF CopiesFitStep, IsCurrent, Publishing, RowBooked
      <3> QED
        BY <3>1, <3>2
    <2>2. ASSUME NEW v \in Workers, NEW x \in batch'[v],
                 pc'[v] = "markSent", IsCurrent(v, x)'
          PROVE  published'[x] > 0
      BY <1>1, <1>3, <2>2 DEF CopiesFitStep, IsCurrent
    <2> QED
      BY <2>1, <2>2 DEF CopiesFitStep
  <1>11. LateRowsAreFree'
    BY <1>1, <1>3 DEF LateRowsAreFree, RowBooked
  <1> QED
    BY <1>2, <1>4, <1>5, <1>6, <1>8, <1>9, <1>10, <1>11

\* A markEventAsSent that throws makes the worker book the same event as
\* failed, with the row already SENT or not.
LEMMA MarkSentThrowsKeepsIInv ==
  ASSUME IInv, NEW w \in Workers, NEW e \in Events, MarkEventAsSentThrows(w, e)
  PROVE  IInv'
  <1> USE DEF IInv
  <1>1. /\ pc[w] = "markSent" /\ IsCurrent(w, e) /\ e \in batch[w]
        /\ pc' = [pc EXCEPT ![w] = "markFailed"]
        /\ UNCHANGED <<claimId, batch, readRetries, lastClaim, late,
                       published, resent>>
        /\ \/ MarkSentRow(w, e)
           \/ UNCHANGED <<status, processingClaim, retryCount>>
    BY DEF MarkEventAsSentThrows, Goto, table, broker, IsCurrent
  <1>2. /\ pc'[w] = "markFailed" /\ \A v \in Workers \ {w} : pc'[v] = pc[v]
        /\ pc' \in [Workers -> {"idle", "claiming", "publishing",
                                "markSent", "markFailed"}]
    BY <1>1 DEF TypeOK
  <1>3. /\ status' \in [Events -> Statuses]
        /\ processingClaim' \in [Events -> Nat]
        /\ retryCount' \in [Events -> 0..MaxRetries]
        /\ \A x \in Events \ {e} : /\ status'[x] = status[x]
                                   /\ processingClaim'[x] = processingClaim[x]
        /\ \A x \in Events : retryCount'[x] = retryCount[x]
        /\ \/ status'[e] = "SENT" /\ processingClaim'[e] = NoClaim
           \/ status'[e] = status[e] /\ processingClaim'[e] = processingClaim[e]
    BY <1>1, MarkSentRowBooks DEF RowBooked, TypeOK
  <1>4. /\ status[e] = "PROCESSING" /\ published[e] > 0
        /\ published[e] <= retryCount[e] + 1 + resent[e]
        /\ retryCount[e] < MaxRetries
    BY <1>1 DEF HeldRowsAreOwned, CopiesFitStep, CopiesFitStatus, TypeOK
  <1>5. TypeOK'
    BY <1>1, <1>2, <1>3 DEF TypeOK
  <1>6. PublishersHaveClaims' /\ ClaimExclusive'
    BY <1>1, <1>2 DEF PublishersHaveClaims, ClaimExclusive, Publishing
  <1>7. \A v \in Workers \ {w} : \A x \in batch[v] : x \in Events \ {e}
    BY <1>1 DEF ClaimExclusive, TypeOK
  <1>8. BatchesFit'
    BY <1>1, <1>2, <1>3, <1>7 DEF BatchesFit
  <1>9. HeldRowsAreOwned'
    <2>1. \A x \in Events : status'[x] = "PROCESSING"
                              <=> processingClaim'[x] # NoClaim
      BY <1>3, <1>4 DEF HeldRowsAreOwned, TypeOK
    <2>2. ASSUME NEW v \in Workers, Publishing(v)', NEW x \in batch'[v]
          PROVE  /\ readRetries'[v][x] = retryCount'[x]
                 /\ \/ status'[x] = "PROCESSING" /\ processingClaim'[x] = claimId'[v]
                    \/ status'[x] = "SENT" /\ pc'[v] = "markFailed" /\ IsCurrent(v, x)'
      <3>1. /\ Publishing(v) /\ x \in batch[v] /\ x \in Events
            /\ IsCurrent(v, x)' <=> IsCurrent(v, x)
        BY <1>1, <1>2, <2>2 DEF Publishing, IsCurrent, TypeOK
      <3>2. CASE v = w
        BY <1>1, <1>2, <1>3, <3>1, <3>2 DEF HeldRowsAreOwned, Publishing
      <3>3. CASE v # w
        BY <1>1, <1>2, <1>3, <1>7, <3>1, <3>3 DEF HeldRowsAreOwned, Publishing
      <3> QED
        BY <3>2, <3>3
    <2> QED
      BY <2>1, <2>2 DEF HeldRowsAreOwned, Publishing
  <1>10. CopiesFitStatus'
    BY <1>1, <1>3, <1>4 DEF CopiesFitStatus, TypeOK
  <1>11. CopiesFitStep'
    BY <1>1, <1>2, <1>3, <1>7 DEF CopiesFitStep, IsCurrent, Publishing, TypeOK
  <1>12. LateRowsAreFree'
    BY <1>1, <1>3, <1>7 DEF LateRowsAreFree
  <1> QED
    BY <1>5, <1>6, <1>8, <1>9, <1>10, <1>11, <1>12

\* An uncommitted booking takes its event out of the batch and nothing else.
LEMMA BookUncommittedKeepsIInv ==
  ASSUME IInv, NEW w \in Workers, NEW e \in Events, BookUncommitted(w, e)
  PROVE  IInv'
  <1> USE DEF IInv
  <1>1. /\ pc[w] \in {"markSent", "markFailed"} /\ Publishing(w)
        /\ IsCurrent(w, e) /\ e \in batch[w] /\ RowMatches(w, e)
        /\ late' = [late EXCEPT ![e] = IF pc[w] = "markSent"
                                       THEN "sent" ELSE "failed"]
        /\ NextEvent(w, e)
        /\ UNCHANGED <<status, processingClaim, retryCount, lastClaim,
                       published, resent>>
    BY DEF BookUncommitted, IsCurrent, Publishing, table, broker
  <1>2. /\ batch'[w] = batch[w] \ {e}
        /\ \/ pc'[w] = "idle"
           \/ /\ pc'[w] = "publishing" /\ claimId'[w] = claimId[w]
              /\ readRetries'[w] = readRetries[w]
        /\ pc'[w] = "idle" => batch'[w] = {}
        /\ \A v \in Workers \ {w} :
             /\ pc'[v] = pc[v] /\ claimId'[v] = claimId[v]
             /\ batch'[v] = batch[v] /\ readRetries'[v] = readRetries[v]
    BY <1>1, NextEventTyped
  <1>3. TypeOK'
    BY <1>1, NextEventTyped DEF TypeOK
  <1>4. \A v \in Workers : \A x \in batch'[v] :
          x \in batch[v] /\ x \in Events \ {e}
    BY <1>1, <1>2 DEF ClaimExclusive, TypeOK
  <1>5. PublishersHaveClaims' /\ BatchesFit' /\ ClaimExclusive'
    BY <1>1, <1>2 DEF PublishersHaveClaims, BatchesFit, ClaimExclusive,
                      Publishing
  <1>6. \A x \in batch[w] \ {e} : ~IsCurrent(w, x)
    BY <1>1, CurrentIsUnique DEF TypeOK
  <1>7. HeldRowsAreOwned'
    <2>1. \A x \in Events : status'[x] = "PROCESSING"
                              <=> processingClaim'[x] # NoClaim
      BY <1>1 DEF HeldRowsAreOwned
    <2>2. ASSUME NEW v \in Workers, Publishing(v)', NEW x \in batch'[v]
          PROVE  /\ readRetries'[v][x] = retryCount'[x]
                 /\ \/ status'[x] = "PROCESSING" /\ processingClaim'[x] = claimId'[v]
                    \/ status'[x] = "SENT" /\ pc'[v] = "markFailed" /\ IsCurrent(v, x)'
      <3>1. CASE v = w
        BY <1>1, <1>2, <1>4, <1>6, <2>2, <3>1
        DEF HeldRowsAreOwned, Publishing
      <3>2. CASE v # w
        BY <1>1, <1>2, <1>4, <2>2, <3>2
        DEF HeldRowsAreOwned, IsCurrent, Publishing
      <3> QED
        BY <3>1, <3>2
    <2> QED
      BY <2>1, <2>2 DEF HeldRowsAreOwned, Publishing
  <1>8. CopiesFitStatus'
    BY <1>1 DEF CopiesFitStatus
  <1>9. CopiesFitStep'
    <2>1. ASSUME NEW v \in Workers, NEW x \in batch'[v], Publishing(v)',
                 pc'[v] = "publishing" \/ ~IsCurrent(v, x)'
          PROVE  published'[x] <= retryCount'[x] + resent'[x]
      <3>1. CASE v = w
        BY <1>1, <1>2, <1>4, <1>6, <2>1, <3>1 DEF CopiesFitStep, Publishing
      <3>2. CASE v # w
        BY <1>1, <1>2, <1>4, <2>1, <3>2
        DEF CopiesFitStep, IsCurrent, Publishing
      <3> QED
        BY <3>1, <3>2
    <2>2. ASSUME NEW v \in Workers, NEW x \in batch'[v],
                 pc'[v] = "markSent", IsCurrent(v, x)'
          PROVE  published'[x] > 0
      BY <1>1, <1>2, <1>4, <2>2 DEF CopiesFitStep, IsCurrent
    <2> QED
      BY <2>1, <2>2 DEF CopiesFitStep
  <1>10. LateRowsAreFree'
    <2>1. ASSUME NEW x \in Events, late'[x] # "none"
          PROVE  /\ status'[x] = "PROCESSING"
                 /\ \A v \in Workers : x \notin batch'[v]
                 /\ late'[x] = "sent" => published'[x] > 0
      <3>1. CASE x = e
        <4>1. status[e] = "PROCESSING"
          BY <1>1 DEF HeldRowsAreOwned, PublishersHaveClaims, RowMatches,
                      Publishing
        <4>2. late'[e] = "sent" => published[e] > 0
          BY <1>1 DEF CopiesFitStep, TypeOK
        <4> QED
          BY <1>1, <1>4, <3>1, <4>1, <4>2
      <3>2. CASE x # e
        BY <1>1, <1>4, <2>1, <3>2 DEF LateRowsAreFree, TypeOK
      <3> QED
        BY <3>1, <3>2
    <2> QED
      BY <2>1 DEF LateRowsAreFree
  <1> QED
    BY <1>3, <1>5, <1>7, <1>8, <1>9, <1>10

\* A late booking finds the row as the worker has left it.
LEMMA LateCommitBooks ==
  ASSUME IInv, NEW e \in Events, LateCommit(e)
  PROVE  /\ RowBooked(e) /\ status[e] = "PROCESSING"
         /\ \/ /\ late[e] = "sent" /\ published[e] > 0
               /\ status'[e] = "SENT" /\ retryCount' = retryCount
            \/ /\ retryCount' = [retryCount EXCEPT ![e] = @ + 1]
               /\ status'[e] = IF retryCount[e] + 1 >= MaxRetries
                               THEN "FAILED" ELSE "PENDING"
  <1> USE DEF IInv
  <1>1. /\ status[e] = "PROCESSING" /\ late[e] \in {"sent", "failed"}
        /\ late[e] = "sent" => published[e] > 0
    BY DEF LateCommit, LateRowsAreFree, TypeOK
  <1>2. /\ retryCount[e] \in Nat /\ retryCount[e] < MaxRetries
        /\ published[e] \in Nat /\ resent[e] \in Nat
        /\ published[e] <= retryCount[e] + 1 + resent[e]
        /\ retryCount[e] + 1 \in 0..MaxRetries
    BY <1>1, LimitsAssumption DEF CopiesFitStatus, TypeOK
  <1>3. /\ processingClaim' \in [Events -> Nat] /\ processingClaim'[e] = NoClaim
        /\ \A x \in Events \ {e} : processingClaim'[x] = processingClaim[x]
    BY DEF LateCommit, TypeOK, NoClaim
  <1>4. CASE late[e] = "sent"
    <2>1. status' = [status EXCEPT ![e] = "SENT"] /\ retryCount' = retryCount
      BY <1>4 DEF LateCommit
    <2> QED
      BY <1>1, <1>2, <1>3, <1>4, <2>1 DEF RowBooked, TypeOK, Statuses
  <1>5. CASE late[e] = "failed"
    <2> DEFINE n == retryCount[e] + 1
    <2>1. /\ status' = [status EXCEPT ![e] = IF n >= MaxRetries
                                            THEN "FAILED" ELSE "PENDING"]
          /\ retryCount' = [retryCount EXCEPT ![e] = n]
      BY <1>5 DEF LateCommit, StatusAfterFailure
    <2>2. /\ status' \in [Events -> Statuses]
          /\ status'[e] = IF n >= MaxRetries THEN "FAILED" ELSE "PENDING"
          /\ \A x \in Events \ {e} : status'[x] = status[x]
      BY <2>1 DEF TypeOK, Statuses
    <2>3. /\ retryCount' \in [Events -> 0..MaxRetries] /\ retryCount'[e] = n
          /\ \A x \in Events \ {e} : retryCount'[x] = retryCount[x]
      BY <1>2, <2>1 DEF TypeOK
    <2> QED
      BY <1>1, <1>2, <1>3, <2>1, <2>2, <2>3, LimitsAssumption DEF RowBooked
  <1> QED
    BY <1>1, <1>4, <1>5

\* A late booking disturbs no worker.
LEMMA LateKeepsIInv ==
  ASSUME IInv, NEW e \in Events, LateCommit(e) \/ LateUndo(e)
  PROVE  IInv'
  <1> USE DEF IInv
  <1>1. /\ late[e] # "none" /\ late' = [late EXCEPT ![e] = "none"]
        /\ UNCHANGED <<pc, claimId, batch, readRetries, lastClaim, published,
                       resent>>
        /\ \A v \in Workers : e \notin batch[v]
    BY DEF LateCommit, LateUndo, LateRowsAreFree, local, broker
  <1>2. PublishersHaveClaims' /\ ClaimExclusive'
    BY <1>1 DEF PublishersHaveClaims, ClaimExclusive, Publishing
  <1>3. CASE LateUndo(e)
    <2>1. UNCHANGED <<status, processingClaim, retryCount>>
      BY <1>3 DEF LateUndo, table
    <2>2. TypeOK'
      BY <1>1, <2>1 DEF TypeOK
    <2>3. BatchesFit' /\ HeldRowsAreOwned'
      BY <1>1, <2>1 DEF BatchesFit, HeldRowsAreOwned, IsCurrent
    <2>4. CopiesFitStatus' /\ CopiesFitStep'
      BY <1>1, <2>1 DEF CopiesFitStatus, CopiesFitStep, IsCurrent, Publishing
    <2>5. LateRowsAreFree'
      BY <1>1, <2>1 DEF LateRowsAreFree, TypeOK
    <2> QED
      BY <1>2, <2>2, <2>3, <2>4, <2>5
  <1>4. CASE LateCommit(e)
    <2>1. RowBooked(e)
      BY <1>4, LateCommitBooks
    <2>2. TypeOK'
      BY <1>1, <2>1 DEF TypeOK, RowBooked
    <2>3. \A v \in Workers : \A x \in batch[v] : x \in Events \ {e}
      BY <1>1 DEF TypeOK
    <2>4. BatchesFit'
      BY <1>1, <2>1, <2>3 DEF BatchesFit, RowBooked
    <2>5. HeldRowsAreOwned'
      <3>1. \A x \in Events : status'[x] = "PROCESSING"
                                <=> processingClaim'[x] # NoClaim
        BY <2>1 DEF HeldRowsAreOwned, RowBooked
      <3>2. ASSUME NEW v \in Workers, Publishing(v)', NEW x \in batch'[v]
            PROVE  /\ readRetries'[v][x] = retryCount'[x]
                   /\ \/ status'[x] = "PROCESSING" /\ processingClaim'[x] = claimId'[v]
                      \/ status'[x] = "SENT" /\ pc'[v] = "markFailed" /\ IsCurrent(v, x)'
        BY <1>1, <2>1, <2>3, <3>2
        DEF HeldRowsAreOwned, IsCurrent, Publishing, RowBooked
      <3> QED
        BY <3>1, <3>2 DEF HeldRowsAreOwned, Publishing
    <2>6. CopiesFitStatus'
      BY <1>1, <2>1 DEF CopiesFitStatus, RowBooked, TypeOK
    <2>7. CopiesFitStep'
      BY <1>1, <2>1, <2>3 DEF CopiesFitStep, IsCurrent, Publishing, RowBooked
    <2>8. LateRowsAreFree'
      BY <1>1, <2>1 DEF LateRowsAreFree, RowBooked, TypeOK
    <2> QED
      BY <1>2, <2>2, <2>4, <2>5, <2>6, <2>7, <2>8
  <1> QED
    BY <1>3, <1>4

-----------------------------------------------------------------------------
(* Theorems.                                                               *)

LEMMA InitIInv == Init => IInv
  <1> SUFFICES ASSUME Init PROVE IInv
    OBVIOUS
  <1>1. TypeOK
    BY LimitsAssumption DEF Init, TypeOK, Statuses, NoClaim, NoRetries
  <1>2. PublishersHaveClaims /\ BatchesFit /\ ClaimExclusive
    BY DEF Init, PublishersHaveClaims, BatchesFit, ClaimExclusive, Publishing
  <1>3. HeldRowsAreOwned /\ CopiesFitStep
    BY DEF Init, HeldRowsAreOwned, CopiesFitStep
  <1>4. CopiesFitStatus /\ LateRowsAreFree
    BY LimitsAssumption DEF Init, CopiesFitStatus, LateRowsAreFree
  <1> QED
    BY <1>1, <1>2, <1>3, <1>4 DEF IInv

LEMMA NextKeepsIInv == IInv /\ [Next]_vars => IInv'
  <1> SUFFICES ASSUME IInv, [Next]_vars PROVE IInv'
    OBVIOUS
  <1>1. ASSUME NEW e \in Events, Record(e) PROVE IInv'
    BY <1>1, RecordKeepsIInv
  <1>2. ASSUME NEW w \in Workers, SelectPending(w) PROVE IInv'
    BY <1>2, SelectPendingKeepsIInv
  <1>3. ASSUME NEW w \in Workers, CommitClaim(w) PROVE IInv'
    BY <1>3, CommitClaimKeepsIInv
  <1>4. ASSUME NEW w \in Workers, LoseClaim(w) PROVE IInv'
    BY <1>4, LoseClaimKeepsIInv
  <1>5. ASSUME NEW w \in Workers, RollbackClaim(w) \/ Crash(w) PROVE IInv'
    BY <1>5, EndCycleKeepsIInv DEF RollbackClaim, Crash
  <1>6. ASSUME NEW w \in Workers, NEW e \in Events,
               PublishStep(w, e) \/ Resend(w, e)
        PROVE  IInv'
    BY <1>6, PublishKeepsIInv
  <1>7. ASSUME NEW w \in Workers, NEW e \in Events, MarkEventAsSent(w, e)
        PROVE  IInv'
    BY <1>7, MarkSentRowBooks, BookingKeepsIInv DEF MarkEventAsSent, Publishing
  <1>8. ASSUME NEW w \in Workers, NEW e \in Events, MarkEventAsSentThrows(w, e)
        PROVE  IInv'
    BY <1>8, MarkSentThrowsKeepsIInv
  <1>9. ASSUME NEW w \in Workers, NEW e \in Events, MarkEventAsFailed(w, e)
        PROVE  IInv'
    BY <1>9, MarkFailedRowBooks, BookingKeepsIInv
    DEF MarkEventAsFailed, Publishing
  <1>10. ASSUME NEW w \in Workers, NEW e \in Events,
                MarkEventAsFailedThrows(w, e)
         PROVE  IInv'
    <2>1. CASE MarkFailedRow(w, e)
      BY <1>10, <2>1, MarkFailedRowBooks, BookingKeepsIInv
      DEF MarkEventAsFailedThrows, Publishing
    <2>2. CASE UNCHANGED table
      BY <1>10, <2>2, EndCycleKeepsIInv DEF MarkEventAsFailedThrows
    <2> QED
      BY <1>10, <2>1, <2>2 DEF MarkEventAsFailedThrows
  <1>11. CASE UNCHANGED vars
    BY <1>11 DEF vars, table, local, broker, IInv, TypeOK,
                 PublishersHaveClaims, BatchesFit, ClaimExclusive,
                 HeldRowsAreOwned, CopiesFitStatus, CopiesFitStep,
                 LateRowsAreFree, Publishing, IsCurrent
  <1>12. ASSUME NEW w \in Workers, PollEmpty(w) PROVE IInv'
    BY <1>11, <1>12 DEF PollEmpty
  <1>13. ASSUME NEW w \in Workers, NEW e \in Events, BookUncommitted(w, e)
         PROVE  IInv'
    BY <1>13, BookUncommittedKeepsIInv
  <1>14. ASSUME NEW e \in Events, LateCommit(e) \/ LateUndo(e) PROVE IInv'
    BY <1>14, LateKeepsIInv
  <1> QED
    BY <1>1, <1>2, <1>3, <1>4, <1>5, <1>6, <1>7, <1>8, <1>9, <1>10, <1>11,
       <1>12, <1>13, <1>14
    DEF Next, WorkerStep, ClaimStep, BookStep

\* The inductive invariant holds throughout.
THEOREM InductiveInvariant == Spec => []IInv
  BY InitIInv, NextKeepsIInv, PTL DEF Spec

\* The variables have their types; in particular no retryCount ever passes
\* MaxRetries, although each worker computes it from what its claim read.
THEOREM TypeCorrect == Spec => []TypeOK
  <1>1. IInv => TypeOK
    BY DEF IInv
  <1> QED
    BY <1>1, InductiveInvariant, PTL

\* No event is ever in the hands of two workers.
THEOREM ClaimsAreExclusive == Spec => []ClaimExclusive
  <1>1. IInv => ClaimExclusive
    BY DEF IInv
  <1> QED
    BY <1>1, InductiveInvariant, PTL

\* Every row says who owns it.
THEOREM RowsAreOwned == Spec => []HeldRowsAreOwned
  <1>1. IInv => HeldRowsAreOwned
    BY DEF IInv
  <1> QED
    BY <1>1, InductiveInvariant, PTL

\* A row marked SENT has been in the broker, whatever failed.
THEOREM SentEventsWerePublished == Spec => []SentWasPublished
  <1>1. IInv => SentWasPublished
    BY DEF IInv, CopiesFitStatus, SentWasPublished
  <1> QED
    BY <1>1, InductiveInvariant, PTL

\* A publish() leaves one copy of an event in the broker, and one more for
\* each connection that breaks under it; the publish()es of an event are one
\* more than its booked failures, and MaxRetries at most.
THEOREM CopiesAreBounded == Spec => []PublishesAreBounded
  <1>1. IInv => PublishesAreBounded
    BY LimitsAssumption
    DEF IInv, TypeOK, Statuses, CopiesFitStatus, PublishesAreBounded
  <1> QED
    BY <1>1, InductiveInvariant, PTL

-----------------------------------------------------------------------------
(* The outbox implements EventDelivery.                                    *)

phases == [e \in Events |-> PhaseOf(e)]

\* What the phase of an event depends on.
LEMMA SamePhase ==
  ASSUME IInv, NEW x \in Events, status'[x] = status[x], late'[x] = late[x],
         \A v \in Workers : x \in batch'[v] <=> x \in batch[v]
  PROVE  phases'[x] = phases[x]
  <1>1. Stranded(x)' <=> Stranded(x)
    BY DEF Stranded
  <1>2. status[x] \in Statuses
    BY DEF IInv, TypeOK
  <1> QED
    BY <1>1, <1>2 DEF phases, PhaseOf, Statuses

\* A step that moves the phase of one event.
LEMMA OnePhase ==
  ASSUME NEW e \in Events,
         \A x \in Events \ {e} : phases'[x] = phases[x]
  PROVE  phases' = [phases EXCEPT ![e] = phases'[e]]
  BY DEF phases

\* The events the outbox still deals with.
LEMMA OwedPhases ==
  ASSUME IInv, NEW e \in Events
  PROVE  /\ status[e] = "PENDING" => phases[e] = "owed"
         /\ late[e] # "none" => phases[e] = "owed"
         /\ \A w \in Workers :
              e \in batch[w] /\ status[e] = "PROCESSING" => phases[e] = "owed"
  BY DEF IInv, LateRowsAreFree, phases, PhaseOf, Stranded

\* The claimed rows a worker has when its cycle ends early are stranded.
Dropped(w) == {x \in batch[w] : status[x] = "PROCESSING"}

LEMMA EndCycleStrands ==
  ASSUME IInv, NEW w \in Workers, EndCycle(w), late' = late,
         NEW x \in Events, status'[x] = status[x]
  PROVE  phases'[x] = IF x \in Dropped(w) THEN "stranded" ELSE phases[x]
  <1>1. /\ batch'[w] = {}
        /\ \A v \in Workers \ {w} : batch'[v] = batch[v]
    BY EndCycleTyped DEF IInv
  <1>2. CASE x \in Dropped(w)
    <2>1. late[x] = "none" /\ \A v \in Workers : x \notin batch'[v]
      BY <1>1, <1>2 DEF Dropped, IInv, LateRowsAreFree, ClaimExclusive
    <2> QED
      BY <1>2, <2>1 DEF Dropped, phases, PhaseOf, Stranded
  <1>3. CASE x \in batch[w] /\ status[x] # "PROCESSING"
    BY <1>3 DEF Dropped, phases, PhaseOf, Stranded, IInv, TypeOK, Statuses
  <1>4. CASE x \notin batch[w]
    <2>1. \A v \in Workers : x \in batch'[v] <=> x \in batch[v]
      BY <1>1, <1>4
    <2> QED
      BY <1>4, <2>1, SamePhase DEF Dropped
  <1> QED
    BY <1>2, <1>3, <1>4 DEF Dropped

\* A cycle that ends without touching the table.
LEMMA EndCycleRefines ==
  ASSUME IInv, NEW w \in Workers, EndCycle(w),
         UNCHANGED <<status, retryCount, late, broker>>
  PROVE  Dropped(w) \in SUBSET Events /\ Delivery!Strand(Dropped(w))
  <1>1. Dropped(w) \subseteq Delivery!Owed
    BY OwedPhases DEF Dropped, Delivery!Owed, phases, IInv, TypeOK
  <1>2. phases' = [x \in Events |-> IF x \in Dropped(w) THEN "stranded"
                                                        ELSE phases[x]]
    <2>1. \A x \in Events :
            phases'[x] = IF x \in Dropped(w) THEN "stranded" ELSE phases[x]
      BY EndCycleStrands
    <2> QED
      BY <2>1 DEF phases
  <1> QED
    BY <1>1, <1>2 DEF Delivery!Strand, Delivery!Owed, phases, broker

\* A claim that commits changes no phase: PENDING and PROCESSING are both
\* "owed" for a row in a batch.
LEMMA CommitClaimStutters ==
  ASSUME IInv, NEW w \in Workers, CommitClaim(w)
  PROVE  UNCHANGED <<phases, published, retryCount, resent>>
  <1>1. ClaimRows(w) /\ batch' = batch
    BY DEF CommitClaim
  <1>2. \A x \in Events : PhaseOf(x)' = PhaseOf(x)
    BY <1>1, ClaimRowsTyped DEF PhaseOf, Stranded
  <1> QED
    BY <1>1, <1>2, ClaimRowsTyped DEF phases

\* A claim that commits and is not learnt of strands its rows.
LEMMA LoseClaimRefines ==
  ASSUME IInv, NEW w \in Workers, LoseClaim(w)
  PROVE  batch[w] \in SUBSET Events /\ Delivery!Strand(batch[w])
  <1>1. /\ ClaimRows(w) /\ EndCycle(w)
        /\ batch'[w] = {}
        /\ \A v \in Workers \ {w} : batch'[v] = batch[v]
    BY EndCycleTyped DEF LoseClaim, IInv
  <1>2. /\ batch[w] \subseteq Events
        /\ \A x \in batch[w] : status[x] = "PENDING" /\ status'[x] = "PROCESSING"
        /\ \A x \in Events \ batch[w] : status'[x] = status[x]
        /\ UNCHANGED <<retryCount, late, published, resent>>
    BY <1>1, ClaimRowsTyped
  <1>3. batch[w] \subseteq Delivery!Owed
    BY <1>2, OwedPhases DEF Delivery!Owed, phases
  <1>4. ASSUME NEW x \in Events
        PROVE  phases'[x] = IF x \in batch[w] THEN "stranded" ELSE phases[x]
    <2>1. CASE x \in batch[w]
      <3>1. late[x] = "none" /\ \A v \in Workers : x \notin batch'[v]
        BY <1>1, <1>2, <2>1 DEF IInv, LateRowsAreFree, ClaimExclusive
      <3> QED
        BY <1>2, <2>1, <3>1 DEF phases, PhaseOf, Stranded
    <2>2. CASE x \notin batch[w]
      BY <1>1, <1>2, <2>2, SamePhase
    <2> QED
      BY <2>1, <2>2
  <1>5. phases' = [x \in Events |-> IF x \in batch[w] THEN "stranded"
                                                      ELSE phases[x]]
    BY <1>4 DEF phases
  <1> QED
    BY <1>2, <1>3, <1>5 DEF Delivery!Strand, Delivery!Owed, phases

\* A copy is handed over only for an event that is owed and has no copy
\* beyond its booked failures and its re-sends.
LEMMA PublishRefines ==
  ASSUME IInv, NEW w \in Workers, NEW e \in Events,
         PublishStep(w, e) \/ Resend(w, e)
  PROVE  \/ Delivery!HandOver(e)
         \/ Delivery!Resend(e)
         \/ UNCHANGED <<phases, published, retryCount, resent>>
  <1> USE DEF IInv
  <1>1. /\ pc[w] = "publishing" /\ IsCurrent(w, e) /\ e \in batch[w]
        /\ UNCHANGED <<status, retryCount, batch, late>>
        /\ \/ published' = [published EXCEPT ![e] = @ + 1] /\ resent' = resent
           \/ /\ published' = [published EXCEPT ![e] = @ + 1]
              /\ resent[e] < MaxResends
              /\ resent' = [resent EXCEPT ![e] = @ + 1]
           \/ published' = published /\ resent' = resent
    BY DEF PublishStep, PublishConfirmed, PublishUnconfirmed, PublishLost,
           Resend, Publish, Goto, table, broker, IsCurrent
  <1>2. published[e] <= retryCount[e] + resent[e] /\ status[e] = "PROCESSING"
    BY <1>1 DEF HeldRowsAreOwned, CopiesFitStep, Publishing
  <1>3. phases[e] = "owed"
    BY <1>1, <1>2, OwedPhases
  <1>4. phases' = phases
    BY <1>1 DEF phases, PhaseOf, Stranded
  <1> QED
    BY <1>1, <1>2, <1>3, <1>4
    DEF Delivery!HandOver, Delivery!Resend, Delivery!Publish, phases

\* A row that is booked as sent settles its event ...
LEMMA SentSettles ==
  ASSUME IInv, NEW e \in Events, RowBooked(e), phases[e] = "owed",
         status'[e] = "SENT", published[e] > 0, retryCount' = retryCount,
         UNCHANGED <<published, resent>>,
         \A x \in Events \ {e} : phases'[x] = phases[x]
  PROVE  Delivery!Settle(e)
  <1>1. phases'[e] = "settled"
    BY DEF phases, PhaseOf, Stranded
  <1>2. phases' = [phases EXCEPT ![e] = "settled"]
    BY <1>1, OnePhase
  <1> QED
    BY <1>2 DEF Delivery!Settle, phases

\* ... and one that is booked as failed counts a failure, while the events of
\* left are stranded.
LEMMA FailedFails ==
  ASSUME IInv, NEW e \in Events, NEW left \in SUBSET (Events \ {e}),
         phases[e] = "owed", \A x \in left : phases[x] = "owed",
         retryCount' = [retryCount EXCEPT ![e] = @ + 1],
         status'[e] = IF retryCount[e] + 1 >= MaxRetries
                      THEN "FAILED" ELSE "PENDING",
         UNCHANGED <<published, resent>>,
         \A x \in Events \ {e} :
           phases'[x] = IF x \in left THEN "stranded" ELSE phases[x]
  PROVE  Delivery!Fail(e, left)
  <1>1. phases'[e] = Delivery!NextPhase(e)
    BY DEF phases, PhaseOf, Stranded, Delivery!NextPhase
  <1>2. phases' = [x \in Events |-> IF x = e THEN Delivery!NextPhase(e)
                                   ELSE IF x \in left THEN "stranded"
                                   ELSE phases[x]]
    BY <1>1 DEF phases
  <1>3. e \in Delivery!Owed /\ left \subseteq Delivery!Owed \ {e}
    BY DEF Delivery!Owed, phases
  <1> QED
    BY <1>2, <1>3 DEF Delivery!Fail, phases

\* markEventAsSent settles the event, also when it throws after the update.
LEMMA MarkSentRefines ==
  ASSUME IInv, NEW w \in Workers, NEW e \in Events,
         pc[w] = "markSent", IsCurrent(w, e), MarkSentRow(w, e),
         batch' = batch \/ NextEvent(w, e), UNCHANGED <<late, broker>>
  PROVE  Delivery!Settle(e)
  <1>1. /\ status[e] = "PROCESSING" /\ published[e] > 0 /\ e \in batch[w]
    BY DEF IInv, HeldRowsAreOwned, CopiesFitStep, IsCurrent
  <1>2. /\ RowBooked(e) /\ status'[e] = "SENT" /\ retryCount'[e] = retryCount[e]
    BY MarkSentRowBooks
  <1>3. retryCount' = retryCount
    BY <1>2 DEF RowBooked, IInv, TypeOK
  <1>4. \A v \in Workers : \A x \in Events \ {e} :
          x \in batch'[v] <=> x \in batch[v]
    BY <1>1, NextEventTyped DEF IInv
  <1>5. \A x \in Events \ {e} : phases'[x] = phases[x]
    BY <1>2, <1>4, SamePhase DEF RowBooked
  <1>6. phases[e] = "owed"
    BY <1>1, OwedPhases
  <1> QED
    BY <1>1, <1>2, <1>3, <1>5, <1>6, SentSettles DEF broker

\* markEventAsFailed counts one failure, and does nothing to a sent event;
\* when it throws, the rest of the batch is stranded.
LEMMA MarkFailedRefines ==
  ASSUME IInv, NEW w \in Workers, NEW e \in Events,
         pc[w] = "markFailed", IsCurrent(w, e), MarkFailedRow(w, e),
         NextEvent(w, e) \/ EndCycle(w), UNCHANGED <<late, broker>>
  PROVE  \/ \E left \in SUBSET Events : Delivery!Fail(e, left)
         \/ \E left \in SUBSET Events : Delivery!Strand(left)
         \/ UNCHANGED <<phases, published, retryCount, resent>>
  <1> USE DEF IInv
  <1>1. e \in batch[w] /\ RowBooked(e) /\ UNCHANGED <<published, resent>>
    BY MarkFailedRowBooks DEF IsCurrent, broker
  <1>2. CASE NextEvent(w, e)
    <2>1. \A v \in Workers : \A x \in Events \ {e} :
            x \in batch'[v] <=> x \in batch[v]
      BY <1>1, <1>2, NextEventTyped
    <2>2. \A x \in Events \ {e} : phases'[x] = phases[x]
      BY <1>1, <2>1, SamePhase DEF RowBooked
    <2>3. CASE status[e] = "PROCESSING"
      <3>1. /\ retryCount'[e] = retryCount[e] + 1
            /\ status'[e] = IF retryCount[e] + 1 >= MaxRetries
                            THEN "FAILED" ELSE "PENDING"
        BY <2>3, MarkFailedRowBooks
      <3>2. retryCount' = [retryCount EXCEPT ![e] = @ + 1]
        BY <1>1, <3>1 DEF RowBooked, TypeOK
      <3>3. phases[e] = "owed"
        BY <1>1, <2>3, OwedPhases
      <3>4. Delivery!Fail(e, {})
        <4>1. \A x \in Events \ {e} :
                phases'[x] = IF x \in {} THEN "stranded" ELSE phases[x]
          BY <2>2
        <4>2. {} \in SUBSET (Events \ {e}) /\ \A x \in {} : phases[x] = "owed"
          OBVIOUS
        <4> QED
          BY <1>1, <3>1, <3>2, <3>3, <4>1, <4>2, FailedFails
      <3> QED
        BY <3>4
    <2>4. CASE status' = status /\ retryCount' = retryCount /\ status[e] = "SENT"
      <3>1. phases'[e] = phases[e]
        BY <2>4 DEF phases, PhaseOf, Stranded
      <3>2. phases' = phases
        BY <2>2, <3>1 DEF phases
      <3> QED
        BY <1>1, <2>4, <3>2
    <2> QED
      BY <2>3, <2>4, MarkFailedRowBooks
  <1>3. CASE EndCycle(w)
    <2>1. CASE status[e] = "PROCESSING"
      <3> DEFINE left == Dropped(w) \ {e}
      <3>1. /\ retryCount'[e] = retryCount[e] + 1
            /\ status'[e] = IF retryCount[e] + 1 >= MaxRetries
                            THEN "FAILED" ELSE "PENDING"
        BY <2>1, MarkFailedRowBooks
      <3>2. retryCount' = [retryCount EXCEPT ![e] = @ + 1]
        BY <1>1, <3>1 DEF RowBooked, TypeOK
      <3>3. phases[e] = "owed" /\ \A x \in left : phases[x] = "owed"
        BY <1>1, <2>1, OwedPhases DEF Dropped, TypeOK
      <3>4. left \in SUBSET (Events \ {e}) /\ left \in SUBSET Events
        BY DEF Dropped, TypeOK
      <3>5. \A x \in Events \ {e} :
              phases'[x] = IF x \in left THEN "stranded" ELSE phases[x]
        BY <1>1, <1>3, EndCycleStrands DEF RowBooked
      <3>6. Delivery!Fail(e, left)
        BY <1>1, <3>1, <3>2, <3>3, <3>4, <3>5, FailedFails
      <3> QED
        BY <3>4, <3>6
    <2>2. CASE status' = status /\ retryCount' = retryCount
      BY <1>3, <2>2, EndCycleRefines
    <2> QED
      BY <2>1, <2>2, MarkFailedRowBooks
  <1> QED
    BY <1>2, <1>3

\* An uncommitted booking changes no phase: the event is still owed.
LEMMA BookUncommittedStutters ==
  ASSUME IInv, NEW w \in Workers, NEW e \in Events, BookUncommitted(w, e)
  PROVE  UNCHANGED <<phases, published, retryCount, resent>>
  <1> USE DEF IInv
  <1>1. /\ pc[w] \in {"markSent", "markFailed"} /\ e \in batch[w]
        /\ RowMatches(w, e) /\ NextEvent(w, e)
        /\ late' = [late EXCEPT ![e] = IF pc[w] = "markSent"
                                       THEN "sent" ELSE "failed"]
        /\ UNCHANGED <<status, processingClaim, retryCount, published, resent>>
    BY DEF BookUncommitted, IsCurrent, table, broker
  <1>2. \A v \in Workers : \A x \in Events \ {e} :
          x \in batch'[v] <=> x \in batch[v]
    BY <1>1, NextEventTyped
  <1>3. \A x \in Events \ {e} : phases'[x] = phases[x]
    BY <1>1, <1>2, SamePhase DEF TypeOK
  <1>4. phases'[e] = phases[e]
    <2>1. status[e] = "PROCESSING"
      BY <1>1 DEF HeldRowsAreOwned, PublishersHaveClaims, RowMatches, Publishing
    <2>2. late'[e] # "none"
      BY <1>1 DEF TypeOK
    <2> QED
      BY <1>1, <2>1, <2>2 DEF phases, PhaseOf, Stranded
  <1>5. phases' = phases
    BY <1>3, <1>4 DEF phases
  <1> QED
    BY <1>1, <1>5

\* A late booking settles the event or counts a failure; one that is undone
\* leaves the event stranded.
LEMMA LateRefines ==
  ASSUME IInv, NEW e \in Events, LateCommit(e) \/ LateUndo(e)
  PROVE  \/ Delivery!Settle(e)
         \/ \E left \in SUBSET Events : Delivery!Fail(e, left)
         \/ \E left \in SUBSET Events : Delivery!Strand(left)
  <1> USE DEF IInv
  <1>1. /\ late[e] # "none" /\ late' = [late EXCEPT ![e] = "none"]
        /\ UNCHANGED <<batch, published, resent>>
    BY DEF LateCommit, LateUndo, local, broker
  <1>2. phases[e] = "owed"
    BY <1>1, OwedPhases
  <1>3. CASE LateCommit(e)
    <2>1. RowBooked(e)
      BY <1>3, LateCommitBooks
    <2>2. \A x \in Events \ {e} : phases'[x] = phases[x]
      BY <1>1, <2>1, SamePhase DEF RowBooked, TypeOK
    <2>3. CASE status'[e] = "SENT" /\ published[e] > 0 /\ retryCount' = retryCount
      BY <1>1, <1>2, <2>1, <2>2, <2>3, SentSettles
    <2>4. CASE /\ retryCount' = [retryCount EXCEPT ![e] = @ + 1]
               /\ status'[e] = IF retryCount[e] + 1 >= MaxRetries
                               THEN "FAILED" ELSE "PENDING"
      <3>1. Delivery!Fail(e, {})
        <4>1. \A x \in Events \ {e} :
                phases'[x] = IF x \in {} THEN "stranded" ELSE phases[x]
          BY <2>2
        <4>2. {} \in SUBSET (Events \ {e}) /\ \A x \in {} : phases[x] = "owed"
          OBVIOUS
        <4> QED
          BY <1>1, <1>2, <2>4, <4>1, <4>2, FailedFails
      <3> QED
        BY <3>1
    <2> QED
      BY <1>3, <2>3, <2>4, LateCommitBooks
  <1>4. CASE LateUndo(e)
    <2>1. UNCHANGED <<status, retryCount>>
      BY <1>4 DEF LateUndo, table
    <2>2. \A x \in Events \ {e} : phases'[x] = phases[x]
      BY <1>1, <2>1, SamePhase DEF TypeOK
    <2>3. phases'[e] = "stranded"
      BY <1>1, <2>1 DEF LateRowsAreFree, TypeOK, phases, PhaseOf, Stranded
    <2>4. phases' = [x \in Events |-> IF x \in {e} THEN "stranded"
                                                   ELSE phases[x]]
      BY <2>2, <2>3 DEF phases
    <2>5. Delivery!Strand({e})
      BY <1>1, <1>2, <2>1, <2>4 DEF Delivery!Strand, Delivery!Owed, phases
    <2> QED
      BY <2>5
  <1> QED
    BY <1>3, <1>4

LEMMA NextRefines ==
  IInv /\ [Next]_vars => [Delivery!Next]_(Delivery!vars)
  <1> SUFFICES ASSUME IInv, [Next]_vars
               PROVE  \/ \E e \in Events :
                           \/ Delivery!Record(e) \/ Delivery!HandOver(e)
                           \/ Delivery!Resend(e) \/ Delivery!Settle(e)
                           \/ \E left \in SUBSET Events : Delivery!Fail(e, left)
                      \/ \E left \in SUBSET Events : Delivery!Strand(left)
                      \/ UNCHANGED <<phases, published, retryCount, resent>>
    BY DEF Delivery!Next, Delivery!Attempt, Delivery!vars, phases
  <1>1. ASSUME NEW e \in Events, Record(e) PROVE Delivery!Record(e)
    <2>1. /\ status[e] = "NONE" /\ status'[e] = "PENDING"
          /\ \A x \in Events \ {e} : status'[x] = status[x]
          /\ UNCHANGED <<batch, late, retryCount, published, resent>>
      BY <1>1 DEF Record, local, broker, IInv, TypeOK
    <2>2. phases[e] = "none" /\ phases'[e] = "owed"
      BY <2>1 DEF phases, PhaseOf, Stranded
    <2>3. phases' = [phases EXCEPT ![e] = "owed"]
      BY <2>1, <2>2, SamePhase, OnePhase
    <2> QED
      BY <2>1, <2>2, <2>3 DEF Delivery!Record, phases
  <1>2. ASSUME NEW w \in Workers, RollbackClaim(w) \/ Crash(w)
        PROVE  \E left \in SUBSET Events : Delivery!Strand(left)
    BY <1>2, EndCycleRefines DEF RollbackClaim, Crash, table
  <1>3. ASSUME NEW w \in Workers, SelectPending(w)
        PROVE  UNCHANGED <<phases, published, retryCount, resent>>
    <2>1. /\ batch[w] = {} /\ batch'[w] \subseteq Claimable
          /\ \A v \in Workers \ {w} : batch'[v] = batch[v]
          /\ UNCHANGED <<status, late, published, retryCount, resent>>
      BY <1>3 DEF SelectPending, isProcessing, Oldest, table, broker, IInv,
                  TypeOK, BatchesFit
    <2>2. \A x \in Events : PhaseOf(x)' = PhaseOf(x)
      BY <2>1 DEF PhaseOf, Stranded, Claimable
    <2> QED
      BY <2>1, <2>2 DEF phases
  <1>4. ASSUME NEW w \in Workers, NEW e \in Events,
               MarkEventAsSent(w, e) \/ MarkEventAsSentThrows(w, e)
        PROVE  \/ Delivery!Settle(e)
               \/ UNCHANGED <<phases, published, retryCount, resent>>
    <2>1. /\ pc[w] = "markSent" /\ IsCurrent(w, e) /\ UNCHANGED <<late, broker>>
          /\ \/ MarkSentRow(w, e) /\ (batch' = batch \/ NextEvent(w, e))
             \/ UNCHANGED <<status, retryCount, batch>>
      BY <1>4 DEF MarkEventAsSent, MarkEventAsSentThrows, Goto, table
    <2>2. CASE UNCHANGED <<status, retryCount, batch>>
      BY <2>1, <2>2 DEF phases, PhaseOf, Stranded, broker
    <2> QED
      BY <2>1, <2>2, MarkSentRefines
  <1>5. ASSUME NEW w \in Workers, NEW e \in Events,
               MarkEventAsFailed(w, e) \/ MarkEventAsFailedThrows(w, e)
        PROVE  \/ \E left \in SUBSET Events : Delivery!Fail(e, left)
               \/ \E left \in SUBSET Events : Delivery!Strand(left)
               \/ UNCHANGED <<phases, published, retryCount, resent>>
    <2>1. /\ pc[w] = "markFailed" /\ IsCurrent(w, e)
          /\ UNCHANGED <<late, broker>>
          /\ \/ MarkFailedRow(w, e) /\ (NextEvent(w, e) \/ EndCycle(w))
             \/ UNCHANGED <<status, retryCount>> /\ EndCycle(w)
      BY <1>5 DEF MarkEventAsFailed, MarkEventAsFailedThrows, table
    <2> QED
      BY <2>1, MarkFailedRefines, EndCycleRefines
  <1>6. ASSUME UNCHANGED vars
        PROVE  UNCHANGED <<phases, published, retryCount, resent>>
    <2>1. UNCHANGED <<status, retryCount, batch, late, published, resent>>
      BY <1>6 DEF vars, table, local, broker
    <2>2. \A x \in Events : phases'[x] = phases[x]
      BY <2>1, SamePhase
    <2> QED
      BY <2>1, <2>2 DEF phases
  <1>7. ASSUME NEW w \in Workers, PollEmpty(w)
        PROVE  UNCHANGED <<phases, published, retryCount, resent>>
    BY <1>6, <1>7 DEF PollEmpty
  <1>8. ASSUME NEW e \in Events, LateCommit(e) \/ LateUndo(e)
        PROVE  \/ Delivery!Settle(e)
               \/ \E left \in SUBSET Events : Delivery!Fail(e, left)
               \/ \E left \in SUBSET Events : Delivery!Strand(left)
    BY <1>8, LateRefines
  <1> QED
    BY <1>1, <1>2, <1>3, <1>4, <1>5, <1>6, <1>7, <1>8, PublishRefines,
       CommitClaimStutters, LoseClaimRefines, BookUncommittedStutters
    DEF Next, WorkerStep, ClaimStep, BookStep

\* The outbox, with all its workers, claims and faults, does nothing that
\* EventDelivery does not allow.
THEOREM OutboxRefinesDelivery == Spec => DeliversEvents
  <1>1. Init => Delivery!Init
    BY DEF Init, Delivery!Init, PhaseOf, Stranded
  <1> QED
    BY <1>1, InductiveInvariant, NextRefines, PTL
    DEF Spec, DeliversEvents, Delivery!Spec

-----------------------------------------------------------------------------
(* Final states.  EventDelivery touches only events that are not recorded  *)
(* or owed, so a sent or failed event keeps its phase, and the phase of a  *)
(* final status is that of no other status.                                *)

LEMMA NextKeepsTerminal ==
  ASSUME IInv, [Next]_vars, NEW e \in Events, status[e] \in {"SENT", "FAILED"}
  PROVE  status'[e] = status[e] /\ published'[e] = published[e]
  <1>1. phases[e] \in {"settled", "dead"}
    BY DEF phases, PhaseOf, Stranded
  <1>2. phases'[e] = phases[e] /\ published'[e] = published[e]
    <2>1. CASE UNCHANGED <<phases, published, retryCount, resent>>
      BY <2>1
    <2>2. ASSUME NEW x \in Events,
                 \/ Delivery!Record(x) \/ Delivery!HandOver(x)
                 \/ Delivery!Resend(x) \/ Delivery!Settle(x)
          PROVE  /\ phases[x] \in {"none", "owed"}
                 /\ \A y \in Events \ {x} : phases'[y] = phases[y]
                                            /\ published'[y] = published[y]
      BY <2>2
      DEF Delivery!Record, Delivery!HandOver, Delivery!Resend,
          Delivery!Publish, Delivery!Settle, phases, IInv, TypeOK
    <2>3. CASE \E x \in Events :
                 \/ Delivery!Record(x) \/ Delivery!HandOver(x)
                 \/ Delivery!Resend(x) \/ Delivery!Settle(x)
      BY <1>1, <2>2, <2>3
    <2>4. ASSUME NEW x \in Events, NEW left \in SUBSET Events,
                 Delivery!Fail(x, left)
          PROVE  phases'[e] = phases[e] /\ published' = published
      BY <1>1, <2>4 DEF Delivery!Fail, Delivery!Owed, phases
    <2>5. ASSUME NEW left \in SUBSET Events, Delivery!Strand(left)
          PROVE  phases'[e] = phases[e] /\ published' = published
      BY <1>1, <2>5 DEF Delivery!Strand, Delivery!Owed, phases
    <2> QED
      BY <2>1, <2>3, <2>4, <2>5, NextRefines
      DEF Delivery!Next, Delivery!Attempt, Delivery!vars, phases
  <1>3. status'[e] \in Statuses
    BY NextKeepsIInv DEF IInv, TypeOK
  <1> QED
    BY <1>2, <1>3 DEF phases, PhaseOf, Stranded, Statuses

\* No step reopens or republishes an event that is SENT or FAILED.
THEOREM TerminalRowsAreFinal == Spec => TerminalIsFinal
  <1>1. IInv /\ [Next]_vars =>
          [\A e \in Events : status[e] \in {"SENT", "FAILED"} =>
             status'[e] = status[e] /\ published'[e] = published[e]]_vars
    BY NextKeepsTerminal
  <1> QED
    BY <1>1, InductiveInvariant, PTL DEF Spec, TerminalIsFinal
-----------------------------------------------------------------------------
(* Stranding.  A step that is no fault books the rows it lets go of.       *)

\* What decides whether an event is stranded.
LEMMA SameStranded ==
  ASSUME NEW x \in Events, Stranded(x)',
         status'[x] = status[x], late'[x] = late[x],
         \A v \in Workers : x \in batch[v] => x \in batch'[v]
  PROVE  Stranded(x)
  BY DEF Stranded

\* The row of e is booked, and the other events stay in their batches.
LEMMA BookedRowsOnly ==
  ASSUME IInv, NEW w \in Workers, NEW e \in Events, IsCurrent(w, e),
         RowBooked(e), batch' = batch \/ NextEvent(w, e), late' = late,
         NEW x \in Events \ {e}, Stranded(x)'
  PROVE  Stranded(x)
  <1>1. \A v \in Workers : x \in batch'[v] <=> x \in batch[v]
    BY NextEventTyped DEF IsCurrent, IInv
  <1> QED
    BY <1>1, SameStranded DEF RowBooked

LEMMA MarkStepsStrandNothing ==
  ASSUME IInv, NEW w \in Workers, NEW e \in Events, NEW x \in Events,
         \/ MarkEventAsSent(w, e) \/ MarkEventAsSentThrows(w, e)
         \/ MarkEventAsFailed(w, e) \/ BookUncommitted(w, e),
         Stranded(x)'
  PROVE  Stranded(x)
  <1> USE DEF IInv
  <1>1. CASE MarkEventAsSent(w, e) \/ MarkEventAsSentThrows(w, e)
    <2>1. /\ pc[w] = "markSent" /\ IsCurrent(w, e) /\ late' = late
          /\ \/ MarkSentRow(w, e) /\ (batch' = batch \/ NextEvent(w, e))
             \/ UNCHANGED <<status, batch>>
      BY <1>1 DEF MarkEventAsSent, MarkEventAsSentThrows, Goto, table
    <2>2. CASE UNCHANGED <<status, batch>>
      BY <2>1, <2>2, SameStranded
    <2>3. CASE MarkSentRow(w, e) /\ (batch' = batch \/ NextEvent(w, e))
      <3>1. RowBooked(e) /\ status'[e] = "SENT"
        BY <2>1, <2>3, MarkSentRowBooks
      <3> QED
        BY <2>1, <2>3, <3>1, BookedRowsOnly DEF Stranded
    <2> QED
      BY <2>1, <2>2, <2>3
  <1>2. CASE MarkEventAsFailed(w, e)
    <2>1. /\ pc[w] = "markFailed" /\ IsCurrent(w, e) /\ late' = late
          /\ MarkFailedRow(w, e) /\ NextEvent(w, e)
      BY <1>2 DEF MarkEventAsFailed
    <2>2. RowBooked(e) /\ status'[e] # "PROCESSING"
      BY <2>1, MarkFailedRowBooks
    <2> QED
      BY <2>1, <2>2, BookedRowsOnly DEF Stranded
  <1>3. CASE BookUncommitted(w, e)
    <2>1. /\ IsCurrent(w, e) /\ NextEvent(w, e) /\ status' = status
          /\ late'[e] # "none" /\ \A y \in Events \ {e} : late'[y] = late[y]
      BY <1>3 DEF BookUncommitted, table, TypeOK
    <2>2. x # e
      BY <2>1 DEF Stranded
    <2>3. \A v \in Workers : x \in batch'[v] <=> x \in batch[v]
      BY <2>1, <2>2, NextEventTyped DEF IsCurrent
    <2> QED
      BY <2>1, <2>2, <2>3, SameStranded
  <1> QED
    BY <1>1, <1>2, <1>3

LEMMA NextStrandsByFaults ==
  ASSUME IInv, [Next]_vars, NEW x \in Events, Stranded(x)', ~Stranded(x)
  PROVE  StrandingFault(x)
  <1> USE DEF IInv
  <1>1. ASSUME NEW e \in Events, Record(e)
        PROVE  FALSE
    <2>1. /\ status'[e] = "PENDING" /\ UNCHANGED <<batch, late>>
          /\ \A y \in Events \ {e} : status'[y] = status[y]
      BY <1>1 DEF Record, local, TypeOK
    <2>2. x # e
      BY <2>1 DEF Stranded
    <2> QED
      BY <2>1, <2>2, SameStranded
  <1>2. ASSUME NEW e \in Events, LateCommit(e)
        PROVE  FALSE
    <2>1. /\ RowBooked(e) /\ status'[e] # "PROCESSING"
          /\ batch' = batch /\ \A y \in Events \ {e} : late'[y] = late[y]
      BY <1>2, LateCommitBooks DEF LateCommit, local, TypeOK
    <2>2. x # e
      BY <2>1 DEF Stranded
    <2> QED
      BY <2>1, <2>2, SameStranded DEF RowBooked
  <1>3. ASSUME NEW e \in Events, LateUndo(e)
        PROVE  x = e
    <2>1. /\ UNCHANGED <<status, batch>>
          /\ \A y \in Events \ {e} : late'[y] = late[y]
      BY <1>3 DEF LateUndo, table, local, TypeOK
    <2> QED
      BY <2>1, SameStranded
  <1>4. ASSUME NEW w \in Workers, SelectPending(w)
        PROVE  FALSE
    <2>1. /\ batch[w] = {} /\ UNCHANGED <<status, late>>
          /\ \A v \in Workers \ {w} : batch'[v] = batch[v]
      BY <1>4 DEF SelectPending, isProcessing, table, TypeOK, BatchesFit
    <2> QED
      BY <2>1, SameStranded
  <1>5. ASSUME NEW w \in Workers, CommitClaim(w)
        PROVE  FALSE
    <2>1. ClaimRows(w) /\ batch' = batch
      BY <1>5 DEF CommitClaim
    <2>2. x \notin batch[w]
      BY <2>1 DEF Stranded
    <2> QED
      BY <2>1, <2>2, ClaimRowsTyped, SameStranded
  <1>6. ASSUME NEW w \in Workers, RollbackClaim(w)
        PROVE  FALSE
    <2>1. /\ pc[w] = "claiming" /\ UNCHANGED <<status, late>>
          /\ \A v \in Workers \ {w} : batch'[v] = batch[v]
      BY <1>6, EndCycleTyped DEF RollbackClaim, table
    <2>2. \A y \in batch[w] : status[y] = "PENDING"
      BY <2>1 DEF BatchesFit
    <2>3. x \notin batch[w]
      BY <2>1, <2>2 DEF Stranded
    <2> QED
      BY <2>1, <2>3, SameStranded
  <1>7. ASSUME NEW w \in Workers, NEW e \in Events,
               PublishStep(w, e) \/ Resend(w, e)
        PROVE  FALSE
    <2>1. UNCHANGED <<status, batch, late>>
      BY <1>7 DEF PublishStep, PublishConfirmed, PublishUnconfirmed,
                  PublishLost, Resend, Publish, Goto, table
    <2> QED
      BY <2>1, SameStranded
  <1>8. ASSUME UNCHANGED vars
        PROVE  FALSE
    BY <1>8, SameStranded DEF vars, table, local
  <1> QED
    BY <1>1, <1>2, <1>3, <1>4, <1>5, <1>6, <1>7, <1>8, MarkStepsStrandNothing
    DEF Next, WorkerStep, ClaimStep, BookStep, PollEmpty, StrandingFault

\* Only a worker that dies, loses its claim or cannot book a failure, and a
\* booking that is undone, leave an event to nobody.
THEOREM StrandedByFaults == Spec => OnlyFaultsStrand
  <1>1. IInv /\ [Next]_vars => [StrandsByFault]_vars
    BY NextStrandsByFaults DEF StrandsByFault
  <1> QED
    BY <1>1, InductiveInvariant, PTL DEF Spec, OnlyFaultsStrand
=============================================================================
