------------------------- MODULE ReceiptPrintProofs -------------------------
(***************************************************************************)
(* For any number of orders, lines, tills, requests and tokens: the types; *)
(* that two tills with serial clients never print one order within their   *)
(* leases; that a job is retired only after its paper; that a session has  *)
(* one live lease; and that no order from before the activation prints.    *)
(***************************************************************************)
EXTENDS ReceiptPrint, FiniteSetTheorems, TLAPS

LEMMA JobTypes ==
  /\ NoJob \in Job /\ NoHold \in Hold /\ NoLines \in Lines
  /\ Settle \in 0 .. Never /\ Lease \in 0 .. Lease /\ Never \in 0 .. Never
BY TimesAssumption, VersionAssumption, NamesAssumption, SMT
   DEF NoJob, Job, NoHold, Hold, NoLines, Lines, Version, Never

LEMMA JobUpdates ==
  /\ \A j \in Job, x \in {"PENDING", "CLAIMED", "PRINTED"} : [j EXCEPT !.state = x] \in Job
  /\ \A j \in Job, x \in Token \union {NoToken} : [j EXCEPT !.token = x] \in Job
  /\ \A j \in Job, x \in Session \union {Nobody} : [j EXCEPT !.owner = x] \in Job
  /\ \A j \in Job, x \in 0 .. Lease : [j EXCEPT !.lease = x] \in Job
BY DEF Job

LEMMA JobUpdates2 ==
  /\ \A j \in Job : [j EXCEPT !.state = "PRINTED", !.lease = 0] \in Job
  /\ \A j \in Job : [j EXCEPT !.state = "PENDING", !.token = NoToken,
                               !.owner = Nobody, !.lease = 0] \in Job
<1> SUFFICES ASSUME NEW j \in Job
    PROVE /\ [j EXCEPT !.state = "PRINTED", !.lease = 0] \in Job
          /\ [j EXCEPT !.state = "PENDING", !.token = NoToken,
                       !.owner = Nobody, !.lease = 0] \in Job
  BY Zenon
<1> DEFINE a == [j EXCEPT !.state = "PRINTED"]
           b == [j EXCEPT !.state = "PENDING"]
           c == [b EXCEPT !.token = NoToken]
           d == [c EXCEPT !.owner = Nobody]
<1>0. 0 \in 0 .. Lease
  BY TimesAssumption
<1>1. a \in Job /\ b \in Job
  BY JobUpdates
<1>2. [a EXCEPT !.lease = 0] \in Job
  BY <1>0, <1>1, JobUpdates
<1>3. c \in Job
  BY <1>1, JobUpdates
<1>4. d \in Job
  BY <1>3, JobUpdates
<1>5. [d EXCEPT !.lease = 0] \in Job
  BY <1>0, <1>4, JobUpdates
<1> HIDE DEF a, d
<1> QED BY <1>2, <1>5 DEF a, b, c, d

LEMMA FingerprintType ==
  ASSUME TypeOK, NEW o \in Order
  PROVE  Fingerprint(o) \in Lines
BY JobTypes DEF TypeOK, Fingerprint

LEMMA NewRowsType ==
  ASSUME TypeOK
  PROVE  /\ DOMAIN NewRows \subseteq Order
         /\ \A o \in DOMAIN NewRows : /\ NewRows[o] \in Job
                                      /\ NewRows[o].state = "PENDING"
                                      /\ job[o].state = "NONE"
BY JobTypes, FingerprintType, OrderAssumption, NamesAssumption
   DEF TypeOK, NewRows, NoJob, Job, First

LEMMA BeginType ==
  ASSUME TypeOK, NEW r \in Request, ClaimBegin(r)
  PROVE  TypeOK'
<1> DEFINE row(o) == IF o \in DOMAIN NewRows THEN NewRows[o] ELSE job[o]
<1>1. \A o \in Order : row(o) \in Job
  BY NewRowsType DEF TypeOK
<1>2. \A o \in Order : Refreshed(o, row(o)) \in Job
  <2>1. ASSUME NEW o \in Order, NEW j \in Job PROVE Refreshed(o, j) \in Job
    <3> DEFINE f == Fingerprint(o)
               e == IF f # NoLines THEN Settle ELSE Never
    <3>1. f \in Lines /\ e \in 0 .. Never
      BY FingerprintType, JobTypes
    <3>2. Refreshed(o, j) = IF f = j.fp THEN j ELSE [j EXCEPT !.fp = f, !.elig = e]
      BY DEF Refreshed
    <3> HIDE DEF f, e
    <3>3. [j EXCEPT !.fp = f, !.elig = e] \in Job
      BY <2>1, <3>1 DEF Job
    <3> QED BY <2>1, <3>2, <3>3
  <2> QED BY <1>1, <2>1
<1>3. DOMAIN work' = Request /\ DOMAIN work'[r] \subseteq Order
  BY NewRowsType DEF ClaimBegin, TypeOK, First
<1>4. \A o \in DOMAIN work'[r] : work'[r][o] \in Job
  BY <1>1, <1>2, NewRowsType DEF ClaimBegin, TypeOK, First
<1>5. \A q \in Request \ {r} : work'[q] = work[q]
  BY DEF ClaimBegin, TypeOK
<1> QED BY <1>3, <1>4, <1>5 DEF ClaimBegin, TypeOK

LEMMA CommitType ==
  ASSUME TypeOK, NEW r \in Request, NEW rows, Commit(r, rows),
         \A o \in Order : o \in DOMAIN rows => rows[o] \in Job
  PROVE  /\ job' \in [Order -> Job]
         /\ DOMAIN work' = Request
         /\ \A q \in Request : DOMAIN work'[q] \subseteq Order /\ \A o \in DOMAIN work'[q] : work'[q][o] \in Job
         /\ claiming' \in [Request -> {"idle", "refreshed", "checked"}]
BY DEF Commit, TypeOK, NoRows

LEMMA RowType ==
  ASSUME TypeOK, NEW r \in Request, NEW o \in Order
  PROVE  Row(r, o) \in Job
BY DEF TypeOK, Row, Rows

LEMMA TypeStep == TypeOK /\ [Next]_vars => TypeOK'
<1> SUFFICES ASSUME TypeOK, [Next]_vars PROVE TypeOK'
  OBVIOUS
<1>1. ASSUME NEW o \in Order, SyncOrder(o) PROVE TypeOK'
  BY <1>1 DEF SyncOrder, TypeOK
<1>2. ASSUME NEW o \in Order, NEW l \in Line, SyncNewLine(o, l) PROVE TypeOK'
  BY <1>2, VersionAssumption DEF SyncNewLine, TypeOK, Lines, Version
<1>3. ASSUME NEW o \in Order, NEW l \in Line, SyncReviseLine(o, l) PROVE TypeOK'
  BY <1>3, VersionAssumption DEF SyncReviseLine, TypeOK, Lines, Version
<1>4. ASSUME NEW r \in Request, ClaimBegin(r) PROVE TypeOK'
  BY <1>4, BeginType
<1>5. ASSUME NEW r \in Request, ClaimReplay(r) PROVE TypeOK'
  <2>1. \A o \in Existing(r) : [order |-> o, token |-> Row(r, o).token, left |-> Row(r, o).lease] \in Hold
    BY RowType DEF Existing, Job, Hold
  <2>2. hold' \in [Session -> Hold]
    BY <1>5, <2>1, NamesAssumption DEF ClaimReplay, Respond, TypeOK
  <2> QED BY <1>5, <2>2, CommitType DEF ClaimReplay, Commit, TypeOK
<1>6. ASSUME NEW r \in Request, ClaimNoneLive(r) PROVE TypeOK'
  BY <1>6 DEF ClaimNoneLive, TypeOK
<1>7. ASSUME NEW r \in Request, ClaimNext(r) PROVE TypeOK'
  <2>1. PICK o \in First(1, Available(r)), t \in FreshTokens :
          /\ Commit(r, [p \in Rows(r) \union {o} |->
                         IF p = o THEN Leased(Row(r, o), SessionOf[r], t) ELSE work[r][p]])
          /\ Respond(r, [order |-> o, token |-> t, left |-> Lease])
    BY <1>7 DEF ClaimNext
  <2>2. o \in Order /\ t \in Token /\ SessionOf[r] \in Session
    BY NamesAssumption DEF First, Available, FreshTokens
  <2>3. Leased(Row(r, o), SessionOf[r], t) \in Job
    BY <2>2, RowType, JobTypes DEF Leased, Job
  <2>4. hold' \in [Session -> Hold]
    BY <2>1, <2>2, JobTypes DEF Respond, TypeOK, Hold
  <2>5. \A p \in Rows(r) : work[r][p] \in Job
    BY DEF Rows, TypeOK
  <2> DEFINE rows == [p \in Rows(r) \union {o} |->
                        IF p = o THEN Leased(Row(r, o), SessionOf[r], t) ELSE work[r][p]]
  <2>6. \A p \in Order : p \in DOMAIN rows => rows[p] \in Job
    BY <2>3, <2>5
  <2>7. Commit(r, rows)
    BY <2>1
  <2> HIDE DEF rows
  <2> QED BY <2>4, <2>6, <2>7, CommitType DEF Commit, TypeOK
<1>8. ASSUME NEW r \in Request, ClaimNothing(r) PROVE TypeOK'
  BY <1>8, CommitType DEF ClaimNothing, Commit, TypeOK
<1>9. ASSUME NEW r \in Request, ClaimRollback(r) PROVE TypeOK'
  BY <1>9 DEF ClaimRollback, TypeOK, NoRows
<1>10. ASSUME NEW s \in Session, PrintOut(s) PROVE TypeOK'
  <2>1. hold[s].order \in Order /\ hold[s].token \in Token \union {NoToken}
    BY <1>10 DEF PrintOut, TypeOK, Hold
  <2> QED BY <1>10, <2>1, JobTypes DEF PrintOut, TypeOK, Message
<1>11. ASSUME NEW s \in Session, PrinterRefuses(s) PROVE TypeOK'
  <2>1. hold[s].token \in Token \union {NoToken}
    BY <1>11 DEF PrinterRefuses, TypeOK, Hold
  <2> QED BY <1>11, <2>1, JobTypes DEF PrinterRefuses, TypeOK, Message
<1>12. ASSUME NEW s \in Session, Forget(s) PROVE TypeOK'
  BY <1>12, JobTypes DEF Forget, TypeOK
<1>13. ASSUME NEW m \in net, HandleAck(m) PROVE TypeOK'
  <2>1. PICK o \in Order : job' = [job EXCEPT ![o].state = "PRINTED", ![o].lease = 0]
    BY <1>13 DEF HandleAck
  <2>2. \A j \in Job : [j EXCEPT !.state = "PRINTED", !.lease = 0] \in Job
    BY JobUpdates2
  <2>3. job' \in [Order -> Job]
    BY <2>1, <2>2 DEF TypeOK
  <2> QED BY <1>13, <2>3 DEF HandleAck, TypeOK
<1>14. ASSUME NEW m \in net, HandleFail(m) PROVE TypeOK'
  <2>1. PICK o \in Order :
          job' = [job EXCEPT ![o].state = "PENDING", ![o].token = NoToken,
                             ![o].owner = Nobody, ![o].lease = 0]
    BY <1>14 DEF HandleFail
  <2>2. \A j \in Job : [j EXCEPT !.state = "PENDING", !.token = NoToken,
                                 !.owner = Nobody, !.lease = 0] \in Job
    BY JobUpdates2
  <2>3. job' \in [Order -> Job]
    BY <2>1, <2>2 DEF TypeOK
  <2> QED BY <1>14, <2>3 DEF HandleFail, TypeOK
<1>15. ASSUME NEW m \in net, Drop(m) PROVE TypeOK'
  BY <1>15 DEF Drop, TypeOK
<1>16. ASSUME Tick PROVE TypeOK'
  <2>a. \A n \in 0 .. Lease : Less(n) \in 0 .. Lease
    BY TimesAssumption DEF Less
  <2>b. \A n \in 0 .. Never : Less(n) \in 0 .. Never
    BY TimesAssumption DEF Less, Never
  <2>1. \A j \in Job : Older(j) \in Job
    <3> SUFFICES ASSUME NEW j \in Job PROVE Older(j) \in Job
      OBVIOUS
    <3>1. j.lease \in 0 .. Lease /\ j.elig \in 0 .. Never
      BY DEF Job
    <3>2. (IF j.elig = Never THEN Never ELSE Less(j.elig)) \in 0 .. Never
      BY <3>1, <2>b
    <3> QED BY <3>1, <3>2, <2>a DEF Older, Job
  <2>2. \A h \in Hold : [h EXCEPT !.left = Less(@)] \in Hold
    BY <2>a, TimesAssumption DEF Hold, NoHold, Less
  <2> QED BY <1>16, <2>1, <2>2 DEF Tick, TypeOK, Rows
<1>17. CASE UNCHANGED vars
  BY <1>17 DEF vars, TypeOK
<1> QED BY <1>1, <1>2, <1>3, <1>4, <1>5, <1>6, <1>7, <1>8, <1>9, <1>10,
           <1>11, <1>12, <1>13, <1>14, <1>15, <1>16, <1>17 DEF Next

LEMMA TypeInit == Init => TypeOK
BY JobTypes, NamesAssumption DEF Init, TypeOK, NoRows, NoJob, Job

\* Every value a reachable ledger, transaction, client or message carries has
\* its type, for any number of orders, tills, tokens and line revisions.
THEOREM TypeCorrect == Spec => []TypeOK
BY TypeInit, TypeStep, PTL DEF Spec

-----------------------------------------------------------------------------
(* One active consumer *)

LEMMA LessFacts ==
  ASSUME NEW a \in Nat, NEW b \in Nat
  PROVE  /\ Less(a) \in Nat /\ (a = 0 => Less(a) = 0)
         /\ (a >= b => Less(a) >= Less(b))
         /\ (Less(a) > 0 => a > 0)
BY DEF Less

\* A transaction never touches the job of a client within its lease.
LEMMA LiveNotLocked ==
  ASSUME TypeOK, LeaseInv, NEW s \in Session, hold[s].left > 0, NEW r \in Request
  PROVE  hold[s].order \notin Rows(r) /\ ~ Claimable(Row(r, hold[s].order))
<1>1. hold[s] # NoHold
  BY DEF NoHold
<1>2. hold[s].left \in Nat /\ job[hold[s].order].lease \in Nat
  BY <1>1, TimesAssumption DEF TypeOK, Hold, Job, LeaseInv, LiveHoldIsLeased
<1>3. ~ Claimable(job[hold[s].order]) /\ job[hold[s].order].state # "NONE"
  BY <1>2 DEF LeaseInv, LiveHoldIsLeased, Claimable
<1> QED BY <1>3 DEF LeaseInv, LocksAreClaimable, Row

\* What a commit of rows that were free to claim leaves of the invariant.
LEMMA CommitLocks ==
  ASSUME TypeOK, LocksAreClaimable, NEW r \in Request, NEW rows, Commit(r, rows),
         \A q \in Request \ {r} : DOMAIN rows \intersect Rows(q) = {}
  PROVE  LocksAreClaimable'
<1>1. \A q \in Request \ {r} : work'[q] = work[q] /\ Rows(q)' = Rows(q)
  BY DEF Commit, TypeOK, Rows
<1>2. Rows(r)' = {}
  BY DEF Commit, TypeOK, Rows, NoRows
<1>3. ASSUME NEW q \in Request \ {r}, NEW o \in Rows(q)
      PROVE  job'[o] = job[o]
  BY <1>3 DEF Commit, TypeOK, Rows
<1> QED BY <1>1, <1>2, <1>3 DEF LocksAreClaimable, Claimable

LEMMA BeginRows ==
  ASSUME TypeOK, NEW r \in Request, ClaimBegin(r)
  PROVE  /\ \A o \in DOMAIN work'[r] :
              Claimable(work'[r][o]) /\ (job[o].state = "NONE" \/ Claimable(job[o]))
         /\ DOMAIN work'[r] \intersect Locked = {}
         /\ \A q \in Request \ {r} : work'[q] = work[q]
<1> DEFINE row(o) == IF o \in DOMAIN NewRows THEN NewRows[o] ELSE job[o]
           open == First(Limit, {o \in Order : orderState[o] = "telegram" /\ Claimable(row(o))})
<1>1. /\ work' = [work EXCEPT ![r] = [o \in open \union DOMAIN NewRows |->
                    IF o \in open THEN Refreshed(o, row(o)) ELSE row(o)]]
      /\ (open \union DOMAIN NewRows) \intersect Locked = {}
  BY DEF ClaimBegin
<1>2. \A o \in open : o \in Order /\ Claimable(row(o))
  BY DEF First
<1>3. \A o \in DOMAIN NewRows : o \in Order /\ Claimable(row(o)) /\ job[o].state = "NONE"
  BY NewRowsType DEF Claimable
<1>4. \A o \in Order : row(o) \in Job
  BY NewRowsType DEF TypeOK
<1>5. \A o, j : (o \in Order /\ j \in Job /\ Claimable(j)) => Claimable(Refreshed(o, j))
  BY DEF Claimable, Refreshed, Job
<1>6. work'[r] = [o \in open \union DOMAIN NewRows |->
                    IF o \in open THEN Refreshed(o, row(o)) ELSE row(o)]
  BY <1>1 DEF TypeOK
<1>7. \A q \in Request \ {r} : work'[q] = work[q]
  BY <1>1 DEF TypeOK
<1>8. \A o \in open : job[o].state = "NONE" \/ Claimable(job[o])
  BY <1>2, <1>3
<1> HIDE DEF row, open
<1> QED BY <1>1, <1>2, <1>3, <1>4, <1>5, <1>6, <1>7, <1>8

\* What a request leases is free, and locked by no other transaction.
LEMMA NextRow ==
  ASSUME TypeOK, LocksAreClaimable, NEW r \in Request, NEW o \in First(1, Available(r))
  PROVE  /\ o \in Order /\ Claimable(Row(r, o)) /\ orderState[o] = "telegram"
         /\ \A q \in Request \ {r} : (Rows(r) \union {o}) \intersect Rows(q) = {}
<1>1. o \in Order /\ o \notin LockedByOthers(r) /\ Claimable(Row(r, o)) /\ orderState[o] = "telegram"
  BY DEF First, Available
<1> QED BY <1>1 DEF LockedByOthers, LocksAreClaimable

LEMMA LocksStep ==
  ASSUME TypeOK, LocksAreClaimable, [Next]_vars
  PROVE  LocksAreClaimable'
<1>1. ASSUME NEW r \in Request, ClaimBegin(r) PROVE LocksAreClaimable'
  <2>1. \A q \in Request : q # r => Rows(q)' = Rows(q) /\ Rows(q) \intersect DOMAIN work'[r] = {}
    BY <1>1, BeginRows DEF Rows, Locked
  <2>2. Rows(r)' = DOMAIN work'[r] /\ job' = job
    BY <1>1 DEF Rows, ClaimBegin
  <2> QED BY <1>1, <2>1, <2>2, BeginRows DEF LocksAreClaimable, Claimable
<1>2. ASSUME NEW r \in Request, Commit(r, work[r]) PROVE LocksAreClaimable'
  BY <1>2, CommitLocks DEF LocksAreClaimable, Rows
<1>3. ASSUME NEW r \in Request, ClaimNext(r) PROVE LocksAreClaimable'
  <2>1. PICK o \in First(1, Available(r)), t \in FreshTokens :
          Commit(r, [p \in Rows(r) \union {o} |->
                      IF p = o THEN Leased(Row(r, o), SessionOf[r], t) ELSE work[r][p]])
    BY <1>3 DEF ClaimNext
  <2> QED BY <2>1, NextRow, CommitLocks
<1>4. ASSUME NEW r \in Request, ClaimRollback(r) PROVE LocksAreClaimable'
  <2>1. \A q \in Request \ {r} : work'[q] = work[q] /\ Rows(q)' = Rows(q)
    BY <1>4 DEF ClaimRollback, TypeOK, Rows
  <2>2. Rows(r)' = {}
    BY <1>4 DEF ClaimRollback, TypeOK, Rows, NoRows
  <2> QED BY <1>4, <2>1, <2>2 DEF ClaimRollback, LocksAreClaimable, Claimable
<1>5. ASSUME NEW m \in net, HandleAck(m) \/ HandleFail(m) PROVE LocksAreClaimable'
  <2>1. PICK o \in Order \ Locked : \A p \in Order : p # o => job'[p] = job[p]
    BY <1>5 DEF HandleAck, HandleFail, TypeOK
  <2>2. work' = work /\ \A r \in Request : o \notin Rows(r)
    BY <1>5, <2>1 DEF HandleAck, HandleFail, Locked
  <2> QED BY <2>1, <2>2 DEF LocksAreClaimable, Rows, TypeOK, Claimable
<1>6. ASSUME Tick PROVE LocksAreClaimable'
  <2>1. \A j \in Job : Claimable(j) => Claimable(Older(j))
    BY LessFacts, TimesAssumption DEF Older, Claimable, Job
  <2>2. \A j \in Job : Older(j).state = j.state
    BY DEF Older, Job
  <2>3. \A r \in Request : Rows(r)' = Rows(r) /\ \A o \in Rows(r) : work'[r][o] = Older(work[r][o])
    BY <1>6 DEF Tick, Rows
  <2>4. \A o \in Order : job'[o] = Older(job[o])
    BY <1>6 DEF Tick
  <2> QED BY <2>1, <2>2, <2>3, <2>4 DEF LocksAreClaimable, TypeOK, Rows
<1>7. ASSUME job' = job, work' = work PROVE LocksAreClaimable'
  BY <1>7 DEF LocksAreClaimable, Rows, Claimable
<1> QED
  <2>1. ASSUME NEW r \in Request, ClaimReplay(r) \/ ClaimNothing(r) PROVE Commit(r, work[r])
    BY <2>1 DEF ClaimReplay, ClaimNothing
  <2>2. ASSUME NEW r \in Request, ClaimNoneLive(r) PROVE job' = job /\ work' = work
    BY <2>2 DEF ClaimNoneLive
  <2>3. ASSUME \/ \E o \in Order : SyncOrder(o)
               \/ \E o \in Order, l \in Line : SyncNewLine(o, l) \/ SyncReviseLine(o, l)
               \/ \E s \in Session : PrintOut(s) \/ PrinterRefuses(s) \/ Forget(s)
               \/ \E m \in net : Drop(m)
               \/ UNCHANGED vars
        PROVE  job' = job /\ work' = work
    BY <2>3 DEF SyncOrder, SyncNewLine, SyncReviseLine, PrintOut, PrinterRefuses, Forget, Drop, vars
  <2> QED BY <1>1, <1>2, <1>3, <1>4, <1>5, <1>6, <1>7, <2>1, <2>2, <2>3 DEF Next

LEMMA LeaseStep ==
  ASSUME SerialClients, TypeOK, LeaseInv, [Next]_vars
  PROVE  LeaseInv'
<1> USE DEF LeaseInv
<1>0. LocksAreClaimable'
  BY LocksStep
<1>1. ASSUME NEW o \in Order, SyncOrder(o) PROVE LeaseInv'
  BY <1>0, <1>1 DEF SyncOrder, QuietWhileBusy, ClaimingHoldsNothing,
              LiveHoldIsLeased
<1>2. ASSUME NEW o \in Order, NEW l \in Line, SyncNewLine(o, l) \/ SyncReviseLine(o, l)
      PROVE  LeaseInv'
  BY <1>0, <1>2 DEF SyncNewLine, SyncReviseLine, QuietWhileBusy,
              ClaimingHoldsNothing, LiveHoldIsLeased
<1>3. ASSUME NEW r \in Request, ClaimBegin(r) PROVE LeaseInv'
  <2>2. MayPoll(SessionOf[r]) /\ Impatient = {}
    BY <1>3 DEF ClaimBegin, SerialClients, OneRequestEach
  <2>3. QuietWhileBusy' /\ ClaimingHoldsNothing'
    BY <1>3, <2>2 DEF ClaimBegin, MayPoll, TypeOK, QuietWhileBusy, ClaimingHoldsNothing
  <2>4. LiveHoldIsLeased'
    BY <1>3 DEF ClaimBegin, LiveHoldIsLeased
  <2> QED BY <1>0, <2>3, <2>4
<1>4. ASSUME NEW r \in Request, ClaimReplay(r) PROVE LeaseInv'
  <2>1. PICK o \in Existing(r) \ LockedByOthers(r) :
          Respond(r, [order |-> o, token |-> Row(r, o).token, left |-> Row(r, o).lease])
    BY <1>4 DEF ClaimReplay
  <2>2. Commit(r, work[r]) /\ claiming[r] = "refreshed"
    BY <1>4 DEF ClaimReplay
  <2>3. o \in Order /\ o \notin Rows(r) /\ Row(r, o) = job[o]
    BY <2>1, RowType DEF Existing, Row, Claimable, Job, LocksAreClaimable
  <2>5. QuietWhileBusy'
    BY <2>1, <2>2 DEF Commit, Respond, TypeOK, QuietWhileBusy, Message
  <2>6. ClaimingHoldsNothing'
    BY <2>1, <2>2, NamesAssumption
    DEF Commit, Respond, TypeOK, ClaimingHoldsNothing, SerialClients, OneRequestEach
  <2>7. ASSUME NEW s \in Session, hold[s].left > 0
        PROVE  job'[hold[s].order] = job[hold[s].order]
    BY <2>2, <2>7, LiveNotLocked DEF Commit, Rows, LiveHoldIsLeased
  <2>8. job'[o] = job[o] /\ job[o].state = "CLAIMED" /\ job[o].owner = SessionOf[r]
        /\ job[o].lease \in Nat
    BY <2>1, <2>2, <2>3, TimesAssumption DEF Commit, Rows, Existing, TypeOK, Job
  <2>9. ASSUME NEW s \in Session, hold'[s].left > 0
        PROVE /\ hold'[s].order \in Order /\ job'[hold'[s].order].state = "CLAIMED"
              /\ job'[hold'[s].order].owner = s /\ job'[hold'[s].order].lease >= hold'[s].left
    <3>1. CASE hold'[s] = hold[s]
      BY <2>9, <3>1, <2>7 DEF LiveHoldIsLeased
    <3>2. CASE hold'[s] # hold[s]
      <4>1. s = SessionOf[r] /\ hold'[s] = [order |-> o, token |-> Row(r, o).token, left |-> Row(r, o).lease]
        BY <3>2, <2>1 DEF Respond, TypeOK
      <4> QED BY <4>1, <2>3, <2>8
    <3> QED BY <3>1, <3>2
  <2> QED BY <1>0, <2>5, <2>6, <2>9 DEF LiveHoldIsLeased
<1>5. ASSUME NEW r \in Request, ClaimNoneLive(r) PROVE LeaseInv'
  BY <1>0, <1>5 DEF ClaimNoneLive, TypeOK, QuietWhileBusy,
              ClaimingHoldsNothing, LiveHoldIsLeased
<1>6. ASSUME NEW r \in Request, ClaimNext(r) PROVE LeaseInv'
  <2>1. PICK o \in First(1, Available(r)), t \in FreshTokens :
          /\ Commit(r, [p \in Rows(r) \union {o} |->
                         IF p = o THEN Leased(Row(r, o), SessionOf[r], t) ELSE work[r][p]])
          /\ Respond(r, [order |-> o, token |-> t, left |-> Lease])
    BY <1>6 DEF ClaimNext
  <2> DEFINE rows == [p \in Rows(r) \union {o} |->
                        IF p = o THEN Leased(Row(r, o), SessionOf[r], t) ELSE work[r][p]]
  <2>2. Commit(r, rows) /\ claiming[r] = "checked"
    BY <1>6, <2>1 DEF ClaimNext
  <2>3. o \in Order /\ o \notin LockedByOthers(r) /\ Claimable(Row(r, o))
    BY DEF First, Available
  <2>4. \A q \in Request \ {r} : DOMAIN rows \intersect Rows(q) = {}
    BY <2>3 DEF LockedByOthers, LocksAreClaimable
  <2>5. /\ rows[o].state = "CLAIMED" /\ rows[o].owner = SessionOf[r] /\ rows[o].lease = Lease
        /\ o \in DOMAIN rows /\ DOMAIN rows = Rows(r) \union {o}
    BY <2>3, RowType DEF Leased, Job
  <2> HIDE DEF rows
  <2>7. QuietWhileBusy'
    BY <2>1, <2>2 DEF Commit, Respond, TypeOK, QuietWhileBusy, Message
  <2>8. ClaimingHoldsNothing'
    <3> SUFFICES ASSUME NEW q \in Request, claiming'[q] # "idle"
                 PROVE  hold'[SessionOf[q]] = NoHold
      BY DEF ClaimingHoldsNothing
    <3>1. q # r /\ claiming'[q] = claiming[q]
      BY <2>2 DEF Commit, TypeOK
    <3>2. SessionOf[q] # SessionOf[r]
      BY <3>1 DEF SerialClients, OneRequestEach
    <3>3. hold'[SessionOf[q]] = hold[SessionOf[q]]
      BY <2>1, <3>2, NamesAssumption DEF Respond, TypeOK
    <3> QED BY <3>1, <3>3 DEF ClaimingHoldsNothing
  <2>9. ASSUME NEW s \in Session, hold[s].left > 0
        PROVE  job'[hold[s].order] = job[hold[s].order]
    BY <2>2, <2>3, <2>5, <2>9, LiveNotLocked DEF Commit, LiveHoldIsLeased
  <2>10. job'[o] = rows[o]
    BY <2>2, <2>3, <2>5 DEF Commit
  <2>11. ASSUME NEW s \in Session, hold'[s].left > 0
         PROVE /\ hold'[s].order \in Order /\ job'[hold'[s].order].state = "CLAIMED"
               /\ job'[hold'[s].order].owner = s /\ job'[hold'[s].order].lease >= hold'[s].left
    <3>1. CASE hold'[s] = hold[s]
      BY <2>11, <3>1, <2>9 DEF LiveHoldIsLeased
    <3>2. CASE hold'[s] # hold[s]
      <4>1. s = SessionOf[r] /\ hold'[s] = [order |-> o, token |-> t, left |-> Lease]
        BY <3>2, <2>1 DEF Respond, TypeOK
      <4> QED BY <4>1, <2>3, <2>5, <2>10, TimesAssumption
    <3> QED BY <3>1, <3>2
  <2> QED BY <1>0, <2>7, <2>8, <2>11 DEF LiveHoldIsLeased
<1>7. ASSUME NEW r \in Request, ClaimNothing(r) PROVE LeaseInv'
  <2>1. Commit(r, work[r]) /\ hold' = hold
    BY <1>7 DEF ClaimNothing
  <2>3. QuietWhileBusy' /\ ClaimingHoldsNothing'
    BY <2>1 DEF Commit, TypeOK, QuietWhileBusy, ClaimingHoldsNothing
  <2>4. LiveHoldIsLeased'
    BY <2>1, LiveNotLocked DEF Commit, Rows, LiveHoldIsLeased
  <2> QED BY <1>0, <2>3, <2>4
<1>8. ASSUME NEW r \in Request, ClaimRollback(r) PROVE LeaseInv'
  BY <1>0, <1>8 DEF ClaimRollback, TypeOK, QuietWhileBusy, ClaimingHoldsNothing, LiveHoldIsLeased
<1>9. ASSUME NEW s \in Session, PrintOut(s) \/ PrinterRefuses(s) \/ Forget(s) PROVE LeaseInv'
  <2>2. hold' = [hold EXCEPT ![s] = NoHold] /\ claiming' = claiming /\ job' = job /\ hold[s] # NoHold
    BY <1>9 DEF PrintOut, PrinterRefuses, Forget
  <2>3. \A m \in net' : m.session = s \/ m \in net
    BY <1>9 DEF PrintOut, PrinterRefuses, Forget
  <2>4. QuietWhileBusy'
    BY <2>2, <2>3, NamesAssumption DEF QuietWhileBusy, ClaimingHoldsNothing, TypeOK, Message
  <2>5. ClaimingHoldsNothing'
    BY <2>2, NamesAssumption DEF ClaimingHoldsNothing, TypeOK
  <2>6. NoHold.left = 0
    BY DEF NoHold
  <2>7. LiveHoldIsLeased'
    BY <2>2, <2>6 DEF LiveHoldIsLeased, TypeOK
  <2> QED BY <1>0, <2>4, <2>5, <2>7
<1>10. ASSUME NEW m \in net, HandleAck(m) \/ HandleFail(m) PROVE LeaseInv'
  <2>1. PICK o \in Order \ Locked : job[o].owner = m.session /\ \A p \in Order : p # o => job'[p] = job[p]
    BY <1>10 DEF HandleAck, HandleFail, TypeOK
  <2>2. hold[m.session] = NoHold /\ m.session \in Session
    BY DEF QuietWhileBusy, TypeOK, Message
  <2>4. \A s \in Session : hold[s].left > 0 => hold[s].order # o
    BY <2>1, <2>2 DEF LiveHoldIsLeased, NoHold
  <2>5. hold' = hold
    BY <1>10 DEF HandleAck, HandleFail
  <2>6. LiveHoldIsLeased'
    BY <2>1, <2>4, <2>5 DEF LiveHoldIsLeased
  <2> QED BY <1>10, <1>0, <2>6 DEF HandleAck, HandleFail, QuietWhileBusy, ClaimingHoldsNothing
<1>11. ASSUME NEW m \in net, Drop(m) PROVE LeaseInv'
  BY <1>0, <1>11 DEF Drop, QuietWhileBusy, ClaimingHoldsNothing, LiveHoldIsLeased
<1>12. ASSUME Tick PROVE LeaseInv'
  <2>1. \A j \in Job : /\ Claimable(j) => Claimable(Older(j))
                       /\ Older(j).state = j.state /\ Older(j).owner = j.owner
                       /\ Older(j).lease = Less(j.lease)
    BY LessFacts, TimesAssumption DEF Older, Claimable, Job
  <2>2. \A r \in Request : Rows(r)' = Rows(r) /\ \A o \in Rows(r) : work'[r][o] = Older(work[r][o])
    BY <1>12 DEF Tick, Rows
  <2>3. \A o \in Order : job'[o] = Older(job[o])
    BY <1>12 DEF Tick
  <2>5. \A s \in Session : /\ hold'[s].order = hold[s].order /\ hold'[s].left = Less(hold[s].left)
                           /\ hold[s] = NoHold => hold'[s] = NoHold
    BY <1>12 DEF Tick, TypeOK, Hold, NoHold, Less
  <2>6. QuietWhileBusy' /\ ClaimingHoldsNothing'
    BY <1>12, <2>5, NamesAssumption DEF Tick, QuietWhileBusy, ClaimingHoldsNothing, TypeOK, Message
  <2>7. LiveHoldIsLeased'
    <3> SUFFICES ASSUME NEW s \in Session, hold'[s].left > 0
                 PROVE /\ hold'[s].order \in Order /\ job'[hold'[s].order].state = "CLAIMED"
                       /\ job'[hold'[s].order].owner = s /\ job'[hold'[s].order].lease >= hold'[s].left
      BY DEF LiveHoldIsLeased
    <3>1. hold[s].left \in Nat
      BY TimesAssumption DEF TypeOK, Hold, NoHold
    <3>2. hold[s].left > 0
      BY <3>1, <2>5, LessFacts
    <3>3. hold[s].order \in Order /\ job[hold[s].order] \in Job /\ job[hold[s].order].lease \in Nat
      BY <3>2, TimesAssumption DEF LiveHoldIsLeased, TypeOK, Job
    <3> QED BY <3>1, <3>2, <3>3, <2>1, <2>3, <2>5, LessFacts DEF LiveHoldIsLeased
  <2> QED BY <1>0, <2>6, <2>7
<1>13. CASE UNCHANGED vars
  BY <1>0, <1>13 DEF vars, QuietWhileBusy, ClaimingHoldsNothing, LiveHoldIsLeased
<1> QED BY <1>1, <1>2, <1>3, <1>4, <1>5, <1>6, <1>7, <1>8, <1>9, <1>10, <1>11, <1>12, <1>13 DEF Next

LEMMA LeaseInit == Init => LeaseInv
BY NamesAssumption DEF Init, LeaseInv, LocksAreClaimable, QuietWhileBusy, ClaimingHoldsNothing,
       LiveHoldIsLeased, Rows, NoRows, NoHold

LEMMA LeaseSafe == TypeOK /\ LeaseInv => OneActiveConsumer
<1> SUFFICES ASSUME TypeOK, LeaseInv, NEW s \in Session, NEW t \in Session, s # t
             PROVE  LiveClaims(s) \intersect LiveClaims(t) = {}
  BY DEF OneActiveConsumer
<1> QED BY DEF LeaseInv, LiveHoldIsLeased, LiveClaims

\* However many tills poll, and however responses, reports, transactions and
\* lease expiries interleave, no two tills whose clients are serial print one
\* order within their leases.
THEOREM OneConsumer == SerialClients => (Spec => []OneActiveConsumer)
<1>1. Init => TypeOK /\ LeaseInv
  BY TypeInit, LeaseInit
<1>2. SerialClients /\ TypeOK /\ LeaseInv /\ [Next]_vars => TypeOK' /\ LeaseInv'
  BY TypeStep, LeaseStep
<1>3. SerialClients => SerialClients'
  BY DEF SerialClients, OneRequestEach
<1> QED BY <1>1, <1>2, <1>3, LeaseSafe, PTL DEF Spec

-----------------------------------------------------------------------------
(* Paper before the acknowledgement *)

\* What ClaimBegin writes into the rows it locks.
LEMMA BeginWrites ==
  ASSUME TypeOK, NEW r \in Request, ClaimBegin(r)
  PROVE  \A o \in DOMAIN work'[r] :
           /\ o \in Order /\ orderState[o] = "telegram"
           /\ \/ work'[r][o].state = job[o].state /\ work'[r][o].token = job[o].token
              \/ /\ job[o].state = "NONE" /\ o \in Recent
                 /\ work'[r][o].state = "PENDING" /\ work'[r][o].token = NoToken
<1> DEFINE row(o) == IF o \in DOMAIN NewRows THEN NewRows[o] ELSE job[o]
           open == First(Limit, {o \in Order : orderState[o] = "telegram" /\ Claimable(row(o))})
<1>1. work'[r] = [o \in open \union DOMAIN NewRows |->
                    IF o \in open THEN Refreshed(o, row(o)) ELSE row(o)]
  BY DEF ClaimBegin, TypeOK
<1>2. \A o \in open : o \in Order /\ orderState[o] = "telegram"
  BY DEF First
<1>3. \A o \in DOMAIN NewRows : /\ o \in Recent /\ o \in Order /\ orderState[o] = "telegram"
                                /\ NewRows[o].state = "PENDING" /\ NewRows[o].token = NoToken
                                /\ job[o].state = "NONE"
  BY OrderAssumption DEF NewRows, First, NoJob
<1>4. \A o \in Order : row(o) \in Job
  BY NewRowsType DEF TypeOK
<1>5. \A o, j : (o \in Order /\ j \in Job) =>
         Refreshed(o, j).state = j.state /\ Refreshed(o, j).token = j.token
  BY DEF Refreshed, Job
<1>6. \A o \in open \union DOMAIN NewRows :
        work'[r][o].state = row(o).state /\ work'[r][o].token = row(o).token
  <2> HIDE DEF row, open
  <2> QED BY <1>1, <1>2, <1>3, <1>4, <1>5
<1>7. \A o \in Order :
        \/ row(o) = job[o]
        \/ /\ o \in Recent /\ job[o].state = "NONE"
           /\ row(o).state = "PENDING" /\ row(o).token = NoToken
  BY <1>3
<1>8. DOMAIN work'[r] = open \union DOMAIN NewRows
  BY <1>1
<1> HIDE DEF row, open
<1> QED BY <1>2, <1>3, <1>6, <1>7, <1>8

\* All but ClaimNext and HandleAck: a job keeps its state and token, or waits
\* with none; a client keeps its claim, drops it, or is told of a live one;
\* and what is newly acknowledged is on paper.
KeepsJobs ==
  \A o \in Order :
    \/ /\ job'[o].state = job[o].state /\ job'[o].token = job[o].token
       /\ job[o].state = "PRINTED" => job'[o].owner = job[o].owner
    \/ job'[o].state = "PENDING" /\ job'[o].token = NoToken

KeepsHolds ==
  \A s \in Session : hold'[s] # NoHold =>
    \/ hold[s] # NoHold /\ hold'[s].token = hold[s].token /\ hold'[s].order = hold[s].order
    \/ \E o \in Order : /\ job[o].state = "CLAIMED" /\ job[o].token = hold'[s].token
                        /\ hold'[s].order = o

KeepsReports ==
  /\ onPaper \subseteq onPaper'
  /\ \A m \in net' : \/ m \in net \/ m.kind # "ack"
                     \/ \E s \in Session : /\ hold[s] # NoHold /\ m.token = hold[s].token
                                           /\ m.session = s /\ <<hold[s].order, s>> \in onPaper'

LEMMA KeepsPaper ==
  ASSUME TypeOK, TypeOK', PaperInv, KeepsJobs, KeepsHolds, KeepsReports
  PROVE  TokensAreFences' /\ AcksHavePaper' /\ PrintedHasPaper'
<1> USE DEF PaperInv, KeepsJobs
<1>1. \A o \in Order : job'[o].state = "CLAIMED" => job[o].state = "CLAIMED" /\ job'[o].token = job[o].token
  OBVIOUS
<1>2. \A o \in Order : job'[o].state = "CLAIMED" => job'[o].token # NoToken
  BY <1>1 DEF TokensAreFences
<1>3. ASSUME NEW o \in Order, NEW p \in Order, job'[o].token = job'[p].token
      PROVE  o = p \/ job'[o].token = NoToken
  BY <1>3 DEF TokensAreFences
<1>4. ASSUME NEW s \in Session, NEW o \in Order,
             hold'[s] # NoHold, job'[o].state = "CLAIMED", job'[o].token = hold'[s].token
      PROVE  o = hold'[s].order
  BY <1>1, <1>2, <1>4 DEF TokensAreFences, KeepsHolds
<1>5. TokensAreFences'
  BY <1>2, <1>3, <1>4 DEF TokensAreFences
<1>6. ASSUME NEW m \in net', NEW o \in Order,
             m.kind = "ack", job'[o].state = "CLAIMED", job'[o].token = m.token
      PROVE  <<o, m.session>> \in onPaper'
  <2>1. job[o].state = "CLAIMED" /\ job[o].token = m.token
    BY <1>1, <1>6
  <2>2. CASE m \in net
    BY <1>6, <2>1, <2>2 DEF AcksHavePaper, KeepsReports
  <2>3. ASSUME NEW s \in Session, hold[s] # NoHold, m.token = hold[s].token, m.session = s,
               <<hold[s].order, s>> \in onPaper'
        PROVE  <<o, m.session>> \in onPaper'
    BY <2>1, <2>3 DEF TokensAreFences
  <2> QED BY <1>6, <2>2, <2>3 DEF KeepsReports
<1>7. AcksHavePaper'
  BY <1>6 DEF AcksHavePaper
<1>8. ASSUME NEW o \in Recent, job'[o].state = "PRINTED"
      PROVE  <<o, job'[o].owner>> \in onPaper'
  BY <1>8, OrderAssumption DEF PrintedHasPaper, KeepsReports
<1>9. PrintedHasPaper'
  BY <1>8 DEF PrintedHasPaper
<1> QED BY <1>5, <1>7, <1>9

\* A commit of the rows a transaction has written keeps the jobs.
LEMMA CommitKeeps ==
  ASSUME TypeOK, LocksAreClaimable, RowsFollowJobs, NEW r \in Request, Commit(r, work[r])
  PROVE  KeepsJobs
<1> SUFFICES ASSUME NEW o \in Order
             PROVE \/ /\ job'[o].state = job[o].state /\ job'[o].token = job[o].token
                      /\ job[o].state = "PRINTED" => job'[o].owner = job[o].owner
                   \/ job'[o].state = "PENDING" /\ job'[o].token = NoToken
  BY DEF KeepsJobs
<1>1. CASE o \in Rows(r)
  <2>1. job'[o] = work[r][o] /\ job[o].state # "PRINTED"
    BY <1>1 DEF Commit, Rows, LocksAreClaimable, Claimable
  <2> QED BY <1>1, <2>1 DEF RowsFollowJobs
<1>2. CASE o \notin Rows(r)
  BY <1>2 DEF Commit, Rows
<1> QED BY <1>1, <1>2

LEMMA RowsStep ==
  ASSUME TypeOK, LocksAreClaimable, RowsFollowJobs, [Next]_vars
  PROVE  RowsFollowJobs'
<1>1. ASSUME NEW r \in Request, ClaimBegin(r) PROVE RowsFollowJobs'
  <2>1. job' = job /\ \A q \in Request \ {r} : work'[q] = work[q]
    BY <1>1, BeginRows DEF ClaimBegin
  <2> QED BY <1>1, <2>1, BeginWrites DEF RowsFollowJobs, Rows
<1>2. ASSUME NEW r \in Request, NEW rows, Commit(r, rows),
             \A q \in Request \ {r} : DOMAIN rows \intersect Rows(q) = {}
      PROVE  RowsFollowJobs'
  <2>1. \A q \in Request \ {r} : /\ work'[q] = work[q]
                                 /\ \A o \in Rows(q) : job'[o] = job[o]
    BY <1>2 DEF Commit, TypeOK, Rows
  <2>2. work'[r] = NoRows
    BY <1>2 DEF Commit, TypeOK
  <2> QED BY <2>1, <2>2 DEF RowsFollowJobs, Rows, NoRows
<1>3. ASSUME NEW r \in Request, ClaimNext(r) PROVE RowsFollowJobs'
  <2>1. PICK o \in First(1, Available(r)), t \in FreshTokens :
          Commit(r, [p \in Rows(r) \union {o} |->
                      IF p = o THEN Leased(Row(r, o), SessionOf[r], t) ELSE work[r][p]])
    BY <1>3 DEF ClaimNext
  <2> QED BY <1>2, <2>1, NextRow
<1>4. ASSUME NEW r \in Request, ClaimReplay(r) \/ ClaimNothing(r) PROVE RowsFollowJobs'
  BY <1>2, <1>4 DEF ClaimReplay, ClaimNothing, LocksAreClaimable, Rows
<1>5. ASSUME NEW r \in Request, ClaimRollback(r) PROVE RowsFollowJobs'
  BY <1>5 DEF ClaimRollback, TypeOK, RowsFollowJobs, Rows, NoRows
<1>6. ASSUME NEW m \in net, HandleAck(m) \/ HandleFail(m) PROVE RowsFollowJobs'
  <2>1. PICK o \in Order \ Locked : \A p \in Order : p # o => job'[p] = job[p]
    BY <1>6 DEF HandleAck, HandleFail, TypeOK
  <2>2. work' = work /\ \A r \in Request : o \notin Rows(r)
    BY <1>6, <2>1 DEF HandleAck, HandleFail, Locked
  <2> QED BY <2>1, <2>2 DEF RowsFollowJobs, Rows, TypeOK
<1>7. ASSUME Tick PROVE RowsFollowJobs'
  <2>1. \A j \in Job : Older(j).state = j.state /\ Older(j).token = j.token
    BY DEF Older, Job
  <2>2. \A r \in Request : Rows(r)' = Rows(r) /\ \A o \in Rows(r) : work'[r][o] = Older(work[r][o])
    BY <1>7 DEF Tick, Rows
  <2>3. \A o \in Order : job'[o] = Older(job[o])
    BY <1>7 DEF Tick
  <2> QED BY <2>1, <2>2, <2>3 DEF RowsFollowJobs, TypeOK, Rows
<1>8. ASSUME job' = job, work' = work PROVE RowsFollowJobs'
  BY <1>8 DEF RowsFollowJobs, Rows
<1> QED
  <2>1. ASSUME \/ \E o \in Order : SyncOrder(o)
               \/ \E o \in Order, l \in Line : SyncNewLine(o, l) \/ SyncReviseLine(o, l)
               \/ \E r \in Request : ClaimNoneLive(r)
               \/ \E s \in Session : PrintOut(s) \/ PrinterRefuses(s) \/ Forget(s)
               \/ \E m \in net : Drop(m)
               \/ UNCHANGED vars
        PROVE  job' = job /\ work' = work
    BY <2>1 DEF SyncOrder, SyncNewLine, SyncReviseLine, ClaimNoneLive, PrintOut, PrinterRefuses,
                Forget, Drop, vars
  <2> QED BY <1>1, <1>3, <1>4, <1>5, <1>6, <1>7, <1>8, <2>1 DEF Next

LEMMA PaperStep ==
  ASSUME TypeOK, TypeOK', PaperInv, [Next]_vars
  PROVE  PaperInv'
<1> USE DEF PaperInv
<1> DEFINE Holds == TokensAreFences' /\ AcksHavePaper' /\ PrintedHasPaper'
<1>1. ASSUME UNCHANGED job, KeepsHolds, KeepsReports PROVE Holds
  BY <1>1, KeepsPaper DEF KeepsJobs
<1>2. ASSUME UNCHANGED <<hold, net, onPaper>> PROVE KeepsHolds /\ KeepsReports
  BY <1>2 DEF KeepsHolds, KeepsReports
<1>3. ASSUME NEW r \in Request, ClaimReplay(r) PROVE Holds
  <2>1. PICK o \in Existing(r) \ LockedByOthers(r) :
          Respond(r, [order |-> o, token |-> Row(r, o).token, left |-> Row(r, o).lease])
    BY <1>3 DEF ClaimReplay
  <2>2. Commit(r, work[r])
    BY <1>3 DEF ClaimReplay
  <2>3. o \in Order /\ Row(r, o) = job[o] /\ job[o].state = "CLAIMED"
    BY <2>1, RowType DEF Existing, Row, Claimable, Job, LocksAreClaimable
  <2>4. KeepsHolds
    BY <2>1, <2>3, NamesAssumption DEF Respond, TypeOK, KeepsHolds
  <2>5. KeepsReports
    BY <2>2 DEF Commit, KeepsReports
  <2> QED BY <2>2, <2>4, <2>5, CommitKeeps, KeepsPaper
<1>4. ASSUME NEW r \in Request, ClaimNext(r) PROVE Holds
  <2>1. PICK o \in First(1, Available(r)), t \in FreshTokens :
          /\ Commit(r, [p \in Rows(r) \union {o} |->
                         IF p = o THEN Leased(Row(r, o), SessionOf[r], t) ELSE work[r][p]])
          /\ Respond(r, [order |-> o, token |-> t, left |-> Lease])
    BY <1>4 DEF ClaimNext
  <2>2. /\ o \in Order /\ Claimable(Row(r, o)) /\ Row(r, o) \in Job
        /\ job[o].state # "PRINTED"
    BY NextRow, RowType DEF Row, LocksAreClaimable, Claimable
  <2>3. job'[o].state = "CLAIMED" /\ job'[o].token = t
    BY <2>1, <2>2 DEF Commit, Leased, Job
  <2>4. \A p \in Order : p # o =>
          \/ /\ job'[p].state = job[p].state /\ job'[p].token = job[p].token
             /\ job[p].state = "PRINTED" => job'[p].owner = job[p].owner
          \/ job'[p].state = "PENDING" /\ job'[p].token = NoToken
    <3> SUFFICES ASSUME NEW p \in Order, p # o
                 PROVE \/ /\ job'[p].state = job[p].state /\ job'[p].token = job[p].token
                          /\ job[p].state = "PRINTED" => job'[p].owner = job[p].owner
                       \/ job'[p].state = "PENDING" /\ job'[p].token = NoToken
      OBVIOUS
    <3>1. CASE p \in Rows(r)
      <4>1. job'[p] = work[r][p] /\ job[p].state # "PRINTED"
        BY <2>1, <3>1 DEF Commit, Rows, LocksAreClaimable, Claimable
      <4> QED BY <3>1, <4>1 DEF RowsFollowJobs
    <3>2. CASE p \notin Rows(r)
      BY <2>1, <3>2 DEF Commit
    <3> QED BY <3>1, <3>2
  <2>5. /\ t # NoToken /\ \A p \in Order : job[p].token # t
        /\ \A s \in Session : hold[s].token # t
        /\ \A m \in net : m.token # t
    BY NamesAssumption DEF FreshTokens
  <2>6. net' = net /\ onPaper' = onPaper
    BY <2>1 DEF Commit
  <2>7. \A s \in Session : \/ hold'[s] = hold[s]
                           \/ hold'[s] = [order |-> o, token |-> t, left |-> Lease]
    BY <2>1 DEF Respond, TypeOK
  <2>8. TokensAreFences'
    <3>1. \A p \in Order : job'[p].state = "CLAIMED" => job'[p].token # NoToken
      BY <2>3, <2>4, <2>5 DEF TokensAreFences
    <3>2. \A p, q \in Order : job'[p].token = job'[q].token => p = q \/ job'[p].token = NoToken
      BY <2>3, <2>4, <2>5 DEF TokensAreFences
    <3>3. ASSUME NEW s \in Session, NEW p \in Order,
                 hold'[s] # NoHold, job'[p].state = "CLAIMED", job'[p].token = hold'[s].token
          PROVE  p = hold'[s].order
      <4>1. CASE hold'[s] = hold[s]
        BY <2>3, <2>4, <2>5, <3>1, <3>3, <4>1 DEF TokensAreFences
      <4>2. CASE hold'[s] = [order |-> o, token |-> t, left |-> Lease]
        BY <2>3, <2>4, <2>5, <3>3, <4>2
      <4> QED BY <2>7, <4>1, <4>2
    <3> QED BY <3>1, <3>2, <3>3 DEF TokensAreFences
  <2>9. AcksHavePaper'
    <3> SUFFICES ASSUME NEW m \in net, NEW p \in Order,
                        m.kind = "ack", job'[p].state = "CLAIMED", job'[p].token = m.token
                 PROVE  <<p, m.session>> \in onPaper
      BY <2>6 DEF AcksHavePaper
    <3> QED BY <2>3, <2>4, <2>5 DEF AcksHavePaper
  <2>10. PrintedHasPaper'
    BY <2>3, <2>4, <2>6, OrderAssumption DEF PrintedHasPaper
  <2> QED BY <2>8, <2>9, <2>10
<1>5. ASSUME NEW r \in Request, ClaimNothing(r) PROVE Holds
  <2>1. Commit(r, work[r]) /\ UNCHANGED <<hold, net, onPaper>>
    BY <1>5 DEF ClaimNothing, Commit
  <2> QED BY <1>2, <2>1, CommitKeeps, KeepsPaper
<1>6. ASSUME NEW s \in Session, PrintOut(s) PROVE Holds
  <2>1. hold' = [hold EXCEPT ![s] = NoHold] /\ hold[s] # NoHold /\ job' = job
    BY <1>6 DEF PrintOut
  <2>2. KeepsHolds
    BY <2>1 DEF KeepsHolds, TypeOK
  <2>3. KeepsReports
    BY <1>6 DEF PrintOut, KeepsReports
  <2> QED BY <1>1, <2>1, <2>2, <2>3
<1>7. ASSUME NEW s \in Session, PrinterRefuses(s) \/ Forget(s) PROVE Holds
  <2>1. hold' = [hold EXCEPT ![s] = NoHold] /\ job' = job
    BY <1>7 DEF PrinterRefuses, Forget
  <2>2. KeepsHolds
    BY <2>1 DEF KeepsHolds, TypeOK
  <2>3. KeepsReports
    BY <1>7 DEF PrinterRefuses, Forget, KeepsReports
  <2> QED BY <1>1, <2>1, <2>2, <2>3
<1>8. ASSUME NEW m \in net, HandleAck(m) PROVE Holds
  <2>1. PICK o \in Order \ Locked :
          /\ job[o].token = m.token /\ job[o].owner = m.session /\ job[o].state = "CLAIMED"
          /\ job' = [job EXCEPT ![o].state = "PRINTED", ![o].lease = 0]
    BY <1>8 DEF HandleAck
  <2>2. /\ \A p \in Order : job'[p].token = job[p].token /\ job'[p].owner = job[p].owner
        /\ \A p \in Order : p # o => job'[p] = job[p]
        /\ job'[o].state = "PRINTED"
    BY <2>1 DEF TypeOK, Job
  <2>3. UNCHANGED <<hold, net, onPaper>> /\ m.kind = "ack"
    BY <1>8 DEF HandleAck
  <2>4. <<o, job'[o].owner>> \in onPaper'
    <3>1. <<o, m.session>> \in onPaper
      BY <2>1, <2>3 DEF AcksHavePaper
    <3>2. job'[o].owner = m.session
      BY <2>1, <2>2
    <3> QED BY <2>3, <3>1, <3>2
  <2>5. \A p \in Order : job'[p].state = "CLAIMED" => job[p].state = "CLAIMED"
    BY <2>2
  <2>6. TokensAreFences'
    BY <2>2, <2>3, <2>5 DEF TokensAreFences
  <2>7. AcksHavePaper'
    BY <2>2, <2>3, <2>5 DEF AcksHavePaper
  <2>8. PrintedHasPaper'
    BY <2>2, <2>3, <2>4, OrderAssumption DEF PrintedHasPaper
  <2> QED BY <2>6, <2>7, <2>8
<1>9. ASSUME NEW m \in net, HandleFail(m) PROVE Holds
  <2>1. PICK o \in Order \ Locked :
          job' = [job EXCEPT ![o].state = "PENDING", ![o].token = NoToken,
                             ![o].owner = Nobody, ![o].lease = 0]
    BY <1>9 DEF HandleFail
  <2>2. job'[o].state = "PENDING" /\ job'[o].token = NoToken
    BY <2>1 DEF TypeOK, Job
  <2>3. \A p \in Order : p # o => job'[p] = job[p]
    BY <2>1 DEF TypeOK
  <2>4. KeepsJobs
    BY <2>2, <2>3 DEF KeepsJobs
  <2> QED BY <1>2, <1>9, <2>4, KeepsPaper DEF HandleFail
<1>10. ASSUME NEW m \in net, Drop(m) PROVE Holds
  BY <1>1, <1>10 DEF Drop, KeepsHolds, KeepsReports
<1>11. ASSUME Tick PROVE Holds
  <2>1. \A j \in Job : Older(j).state = j.state /\ Older(j).token = j.token /\ Older(j).owner = j.owner
    BY DEF Older, Job
  <2>2. KeepsJobs
    BY <1>11, <2>1 DEF Tick, KeepsJobs, TypeOK
  <2>3. \A s \in Session : /\ hold'[s].order = hold[s].order /\ hold'[s].token = hold[s].token
                           /\ hold[s] = NoHold => hold'[s] = NoHold
    BY <1>11 DEF Tick, TypeOK, Hold, NoHold, Less
  <2>4. KeepsHolds
    BY <2>3 DEF KeepsHolds
  <2>5. KeepsReports
    BY <1>11 DEF Tick, KeepsReports
  <2> QED BY <2>2, <2>4, <2>5, KeepsPaper
<1>12. ASSUME UNCHANGED <<job, hold, net, onPaper>> PROVE Holds
  BY <1>1, <1>2, <1>12
<1>13. Holds
  <2>1. ASSUME \/ \E o \in Order : SyncOrder(o)
               \/ \E o \in Order, l \in Line : SyncNewLine(o, l) \/ SyncReviseLine(o, l)
               \/ \E r \in Request : ClaimBegin(r) \/ ClaimNoneLive(r) \/ ClaimRollback(r)
               \/ UNCHANGED vars
        PROVE  UNCHANGED <<job, hold, net, onPaper>>
    BY <2>1 DEF SyncOrder, SyncNewLine, SyncReviseLine, ClaimBegin, ClaimNoneLive, ClaimRollback, vars
  <2> HIDE DEF Holds
  <2> QED BY <1>3, <1>4, <1>5, <1>6, <1>7, <1>8, <1>9, <1>10, <1>11, <1>12, <2>1 DEF Next
<1> QED BY <1>13, LocksStep, RowsStep

LEMMA PaperInit == Init => PaperInv
BY NamesAssumption, OrderAssumption
   DEF Init, PaperInv, LocksAreClaimable, RowsFollowJobs, TokensAreFences, AcksHavePaper,
       PrintedHasPaper, Rows, NoRows, NoHold, NoJob

\* For any clients, impatient ones too: a recent job is retired only after the
\* paper has left the printer of the session that acknowledged it.  No lost
\* response, late or repeated report or expired lease ends in a slip that
\* nobody has (print_service.py, acknowledge).
THEOREM PaperBeforeAck == Spec => []PrintedHasPaper
<1>1. TypeOK /\ PaperInv /\ [Next]_vars => TypeOK' /\ PaperInv'
  BY TypeStep, PaperStep
<1>2. PaperInv => PrintedHasPaper
  BY DEF PaperInv
<1> QED BY TypeInit, PaperInit, <1>1, <1>2, PTL DEF Spec

-----------------------------------------------------------------------------
(* One lease per session *)

LEMMA JobsTelegramStep ==
  ASSUME TypeOK, LocksAreClaimable, JobsAreTelegram, [Next]_vars
  PROVE  JobsAreTelegram'
<1> USE DEF JobsAreTelegram
<1>1. ASSUME NEW o \in Order, SyncOrder(o) PROVE JobsAreTelegram'
  <2>1. /\ orderState'[o] \notin {"absent", "pos"}
        /\ \A p \in Order : p # o => orderState'[p] = orderState[p]
        /\ job' = job /\ work' = work
    BY <1>1 DEF SyncOrder, TypeOK
  <2>2. \A r \in Request : o \notin Rows(r)
    BY <1>1 DEF SyncOrder, Locked
  <2> QED BY <2>1, <2>2 DEF Rows, TypeOK
<1>2. ASSUME NEW r \in Request, ClaimBegin(r) PROVE JobsAreTelegram'
  <2>1. UNCHANGED <<job, orderState>> /\ \A q \in Request \ {r} : work'[q] = work[q]
    BY <1>2, BeginRows DEF ClaimBegin
  <2> QED BY <1>2, <2>1, BeginWrites DEF Rows
<1>3. ASSUME NEW r \in Request, NEW rows, Commit(r, rows),
             \A o \in DOMAIN rows : orderState[o] = "telegram"
      PROVE  JobsAreTelegram'
  <2>1. orderState' = orderState /\ \A o \in Order : o \notin DOMAIN rows => job'[o] = job[o]
    BY <1>3 DEF Commit
  <2>2. work'[r] = NoRows /\ \A q \in Request \ {r} : work'[q] = work[q]
    BY <1>3 DEF Commit, TypeOK
  <2> QED BY <1>3, <2>1, <2>2 DEF Rows, NoRows
<1>4. ASSUME NEW r \in Request, ClaimReplay(r) \/ ClaimNothing(r) PROVE JobsAreTelegram'
  BY <1>3, <1>4 DEF ClaimReplay, ClaimNothing, Rows
<1>5. ASSUME NEW r \in Request, ClaimNext(r) PROVE JobsAreTelegram'
  <2>1. PICK o \in First(1, Available(r)), t \in FreshTokens :
          Commit(r, [p \in Rows(r) \union {o} |->
                      IF p = o THEN Leased(Row(r, o), SessionOf[r], t) ELSE work[r][p]])
    BY <1>5 DEF ClaimNext
  <2> QED BY <1>3, <2>1, NextRow
<1>6. ASSUME NEW r \in Request, ClaimRollback(r) PROVE JobsAreTelegram'
  BY <1>6 DEF ClaimRollback, TypeOK, Rows, NoRows
<1>7. ASSUME NEW m \in net, HandleAck(m) \/ HandleFail(m) PROVE JobsAreTelegram'
  <2>1. PICK o \in Order : job[o].state = "CLAIMED" /\ \A p \in Order : p # o => job'[p] = job[p]
    BY <1>7 DEF HandleAck, HandleFail, TypeOK
  <2>2. UNCHANGED <<work, orderState>>
    BY <1>7 DEF HandleAck, HandleFail
  <2> QED BY <2>1, <2>2 DEF Rows
<1>8. ASSUME Tick PROVE JobsAreTelegram'
  <2>1. \A j \in Job : Older(j).state = j.state
    BY DEF Older, Job
  <2>2. \A r \in Request : Rows(r)' = Rows(r)
    BY <1>8 DEF Tick, Rows
  <2> QED BY <1>8, <2>1, <2>2 DEF Tick, TypeOK
<1>9. ASSUME UNCHANGED <<job, work, orderState>> PROVE JobsAreTelegram'
  BY <1>9 DEF Rows
<1> QED
  <2>1. ASSUME \/ \E o \in Order, l \in Line : SyncNewLine(o, l) \/ SyncReviseLine(o, l)
               \/ \E r \in Request : ClaimNoneLive(r)
               \/ \E s \in Session : PrintOut(s) \/ PrinterRefuses(s) \/ Forget(s)
               \/ \E m \in net : Drop(m)
               \/ UNCHANGED vars
        PROVE  UNCHANGED <<job, work, orderState>>
    BY <2>1 DEF SyncNewLine, SyncReviseLine, ClaimNoneLive, PrintOut, PrinterRefuses, Forget, Drop, vars
  <2> QED BY <1>1, <1>2, <1>4, <1>5, <1>6, <1>7, <1>8, <1>9, <2>1 DEF Next

\* No step but ClaimNext gives out a lease, and only ClaimNoneLive passes the check.
FewerLeases == \A s \in Session : LeasesOf(s)' \subseteq LeasesOf(s)
NoneChecked == \A r \in Request : claiming'[r] = "checked" => claiming[r] = "checked"

LEMMA FewerKeep ==
  ASSUME SingleLeases, NamesAssumption, FewerLeases, NoneChecked
  PROVE  SingleLeases'
BY DEF SingleLeases, FewerLeases, NoneChecked

LEMMA SessionStep ==
  ASSUME OneRequestEach, TypeOK, TypeOK', SessionInv, [Next]_vars
  PROVE  SessionInv'
<1> USE DEF SessionInv
<1>1. ASSUME NEW o \in Order, SyncOrder(o) PROVE SingleLeases'
  <2>1. \A p \in Order : p # o => orderState'[p] = orderState[p]
    BY <1>1 DEF SyncOrder, TypeOK
  <2>2. orderState'[o] = "telegram" => orderState[o] \in {"absent", "pos"}
    BY <1>1 DEF SyncOrder, TypeOK
  <2>3. UNCHANGED <<job, claiming>>
    BY <1>1 DEF SyncOrder
  <2>4. FewerLeases
    BY <2>1, <2>2, <2>3 DEF FewerLeases, LeasesOf, JobsAreTelegram
  <2> QED BY <2>3, <2>4, NamesAssumption, FewerKeep DEF NoneChecked
<1>2. ASSUME UNCHANGED <<job, orderState>>, NoneChecked PROVE SingleLeases'
  BY <1>2, NamesAssumption, FewerKeep DEF FewerLeases, LeasesOf
<1>3. ASSUME NEW r \in Request, Commit(r, work[r]) PROVE SingleLeases'
  <2>1. \A o \in Order : \/ job'[o] = job[o]
                        \/ job'[o].state = "PENDING"
                        \/ job'[o].lease = 0
    BY <1>3 DEF Commit, LocksAreClaimable, Rows, Claimable
  <2>2. orderState' = orderState /\ NoneChecked
    BY <1>3 DEF Commit, TypeOK, NoneChecked
  <2>3. FewerLeases
    BY <2>1, <2>2 DEF FewerLeases, LeasesOf
  <2> QED BY <2>2, <2>3, NamesAssumption, FewerKeep
<1>4. ASSUME NEW r \in Request, ClaimReplay(r) \/ ClaimNothing(r) PROVE SingleLeases'
  BY <1>3, <1>4 DEF ClaimReplay, ClaimNothing
<1>5. ASSUME NEW r \in Request, ClaimBegin(r) PROVE SingleLeases'
  BY <1>2, <1>5 DEF ClaimBegin, NoneChecked, TypeOK
<1>6. ASSUME NEW r \in Request, ClaimRollback(r) PROVE SingleLeases'
  BY <1>2, <1>6 DEF ClaimRollback, NoneChecked, TypeOK
<1>7. ASSUME NEW r \in Request, ClaimNoneLive(r) PROVE SingleLeases'
  <2>1. UNCHANGED <<job, orderState>> /\ Existing(r) = {}
    BY <1>7 DEF ClaimNoneLive
  <2>2. LeasesOf(SessionOf[r]) = {}
    <3> SUFFICES ASSUME NEW o \in LeasesOf(SessionOf[r]) PROVE FALSE
      OBVIOUS
    <3>1. o \in Order /\ ~ Claimable(job[o]) /\ job[o].state # "NONE"
      BY DEF LeasesOf, Claimable
    <3>2. Row(r, o) = job[o]
      BY <3>1 DEF Row, LocksAreClaimable
    <3> QED BY <2>1, <3>2 DEF Existing, LeasesOf
  <2>3. \A q \in Request : q # r => claiming'[q] = claiming[q]
    BY <1>7 DEF ClaimNoneLive, TypeOK
  <2>4. \A s \in Session : LeasesOf(s)' = LeasesOf(s)
    BY <2>1 DEF LeasesOf
  <2> QED BY <2>2, <2>3, <2>4, NamesAssumption DEF SingleLeases
<1>8. ASSUME NEW r \in Request, ClaimNext(r) PROVE SingleLeases'
  <2>1. PICK o \in First(1, Available(r)), t \in FreshTokens :
          Commit(r, [p \in Rows(r) \union {o} |->
                      IF p = o THEN Leased(Row(r, o), SessionOf[r], t) ELSE work[r][p]])
    BY <1>8 DEF ClaimNext
  <2>2. o \in Order /\ Row(r, o) \in Job
    BY NextRow, RowType
  <2>3. job'[o].owner = SessionOf[r]
    BY <2>1, <2>2 DEF Commit, Leased, Job
  <2>4. \A p \in Order : p # o => \/ job'[p] = job[p]
                                  \/ job'[p].state = "PENDING"
                                  \/ job'[p].lease = 0
    BY <2>1 DEF Commit, LocksAreClaimable, Rows, Claimable
  <2>5. orderState' = orderState
    BY <2>1 DEF Commit
  <2>6. \A s \in Session : LeasesOf(s)' \subseteq LeasesOf(s) \union {o}
    BY <2>4, <2>5 DEF LeasesOf
  <2>7. \A s \in Session : s # SessionOf[r] => LeasesOf(s)' \subseteq LeasesOf(s)
    BY <2>3, <2>4, <2>5 DEF LeasesOf
  <2>8. LeasesOf(SessionOf[r]) = {}
    BY <1>8 DEF ClaimNext, SingleLeases
  <2>9. ASSUME NEW s \in Session, NEW p \in LeasesOf(s)', NEW q \in LeasesOf(s)' PROVE p = q
    <3>1. CASE s = SessionOf[r]
      BY <2>6, <2>8, <2>9, <3>1
    <3>2. CASE s # SessionOf[r]
      BY <2>7, <2>9, <3>2 DEF SingleLeases
    <3> QED BY <3>1, <3>2
  <2>10. ASSUME NEW q \in Request, claiming'[q] = "checked" PROVE LeasesOf(SessionOf[q])' = {}
    <3>1. q # r /\ claiming[q] = "checked"
      BY <2>1, <2>10 DEF Commit, TypeOK
    <3>2. SessionOf[q] # SessionOf[r] /\ SessionOf[q] \in Session
      BY <3>1, NamesAssumption DEF OneRequestEach
    <3> QED BY <2>7, <3>1, <3>2 DEF SingleLeases
  <2> QED BY <2>9, <2>10 DEF SingleLeases
<1>9. ASSUME NEW m \in net, HandleAck(m) \/ HandleFail(m) PROVE SingleLeases'
  <2>1. PICK o \in Order : /\ job'[o].state # "CLAIMED"
                          /\ \A p \in Order : p # o => job'[p] = job[p]
    <3>1. CASE HandleAck(m)
      <4>1. PICK o \in Order : job' = [job EXCEPT ![o].state = "PRINTED", ![o].lease = 0]
        BY <3>1 DEF HandleAck
      <4>2. job'[o].state = "PRINTED" /\ \A p \in Order : p # o => job'[p] = job[p]
        BY <4>1 DEF TypeOK, Job
      <4> QED BY <4>2
    <3>2. CASE HandleFail(m)
      <4>1. PICK o \in Order :
              job' = [job EXCEPT ![o].state = "PENDING", ![o].token = NoToken,
                                 ![o].owner = Nobody, ![o].lease = 0]
        BY <3>2 DEF HandleFail
      <4>2. job'[o].state = "PENDING" /\ \A p \in Order : p # o => job'[p] = job[p]
        BY <4>1 DEF TypeOK, Job
      <4> QED BY <4>2
    <3> QED BY <1>9, <3>1, <3>2
  <2>2. UNCHANGED <<orderState, claiming>>
    BY <1>9 DEF HandleAck, HandleFail
  <2>3. FewerLeases
    BY <2>1, <2>2 DEF FewerLeases, LeasesOf
  <2> QED BY <2>2, <2>3, NamesAssumption, FewerKeep DEF NoneChecked
<1>10. ASSUME Tick PROVE SingleLeases'
  <2>1. \A j \in Job : /\ Older(j).state = j.state /\ Older(j).owner = j.owner
                       /\ Older(j).lease = Less(j.lease)
    BY DEF Older, Job
  <2>2. \A o \in Order : job'[o] = Older(job[o]) /\ job[o].lease \in Nat
    BY <1>10, TimesAssumption DEF Tick, TypeOK, Job
  <2>3. \A o \in Order : job'[o].lease > 0 => job[o].lease > 0
    BY <2>1, <2>2, LessFacts DEF TypeOK
  <2>4. UNCHANGED <<orderState, claiming>>
    BY <1>10 DEF Tick
  <2>5. FewerLeases
    BY <2>1, <2>2, <2>3, <2>4 DEF FewerLeases, LeasesOf, TypeOK
  <2> QED BY <2>4, <2>5, NamesAssumption, FewerKeep DEF NoneChecked
<1>11. SingleLeases'
  <2>1. ASSUME \/ \E o \in Order, l \in Line : SyncNewLine(o, l) \/ SyncReviseLine(o, l)
               \/ \E s \in Session : PrintOut(s) \/ PrinterRefuses(s) \/ Forget(s)
               \/ \E m \in net : Drop(m)
               \/ UNCHANGED vars
        PROVE  UNCHANGED <<job, orderState, claiming>>
    BY <2>1 DEF SyncNewLine, SyncReviseLine, PrintOut, PrinterRefuses, Forget, Drop, vars
  <2>2. ASSUME UNCHANGED <<job, orderState, claiming>> PROVE SingleLeases'
    BY <1>2, <2>2 DEF NoneChecked
  <2> QED BY <1>1, <1>4, <1>5, <1>6, <1>7, <1>8, <1>9, <1>10, <2>1, <2>2 DEF Next
<1> QED BY <1>11, LocksStep, JobsTelegramStep

LEMMA SessionInit == Init => SessionInv
BY DEF Init, SessionInv, LocksAreClaimable, JobsAreTelegram, SingleLeases, LeasesOf, Rows, NoRows, NoJob

LEMMA SessionSafe == SessionInv => OneLeasePerSession
<1> SUFFICES ASSUME SessionInv, NEW s \in Session PROVE Cardinality(LeasesOf(s)) <= 1
  BY DEF OneLeasePerSession
<1>1. \A o, p \in LeasesOf(s) : o = p
  BY DEF SessionInv, SingleLeases
<1>2. CASE LeasesOf(s) = {}
  BY <1>2, FS_EmptySet
<1>3. ASSUME NEW o \in LeasesOf(s) PROVE Cardinality(LeasesOf(s)) <= 1
  <2>1. LeasesOf(s) = {o}
    BY <1>1
  <2> QED BY <2>1, FS_Singleton
<1> QED BY <1>2, <1>3

\* A session with one claim request at a time never has two live leases, even
\* if its client polls again before its last report is answered: a lost
\* response is answered with the lease it lost (claim_next, the existing lease).
THEOREM OneLease == OneRequestEach => (Spec => []OneLeasePerSession)
<1>1. OneRequestEach /\ TypeOK /\ SessionInv /\ [Next]_vars => TypeOK' /\ SessionInv'
  BY TypeStep, SessionStep
<1>2. OneRequestEach => OneRequestEach'
  BY DEF OneRequestEach
<1> QED BY TypeInit, SessionInit, SessionSafe, <1>1, <1>2, PTL DEF Spec

-----------------------------------------------------------------------------
(* No historical replay *)

LEMMA RecentStep ==
  ASSUME TypeOK, LocksAreClaimable, HistoryInv, [Next]_vars
  PROVE  HistoryInv'
<1> USE OrderAssumption
<1> USE DEF HistoryInv, OnlyRecentJobs, NoHistoricalReplay
<1>1. ASSUME NEW r \in Request, ClaimBegin(r) PROVE HistoryInv'
  <2>1. UNCHANGED <<job, hold, onPaper>> /\ \A q \in Request \ {r} : work'[q] = work[q]
    BY <1>1, BeginRows DEF ClaimBegin
  <2>2. DOMAIN work'[r] \subseteq Recent
    BY <1>1, BeginRows, BeginWrites DEF Claimable
  <2> QED BY <2>1, <2>2 DEF Rows
<1>2. ASSUME NEW r \in Request, NEW rows, Commit(r, rows), DOMAIN rows \subseteq Recent,
             NEW o \in Recent, NEW t, NEW n, Respond(r, [order |-> o, token |-> t, left |-> n])
      PROVE  HistoryInv'
  <2>1. onPaper' = onPaper /\ \A p \in Order \ Recent : job'[p] = job[p]
    BY <1>2 DEF Commit
  <2>2. work'[r] = NoRows /\ \A q \in Request \ {r} : work'[q] = work[q]
    BY <1>2 DEF Commit, TypeOK
  <2>3. \A s \in Session : hold'[s] = hold[s] \/ hold'[s].order = o
    BY <1>2 DEF Respond, TypeOK
  <2> QED BY <2>1, <2>2, <2>3 DEF Rows, NoRows
<1>3. ASSUME NEW r \in Request, ClaimReplay(r) PROVE HistoryInv'
  <2>1. PICK o \in Existing(r) \ LockedByOthers(r) :
          Respond(r, [order |-> o, token |-> Row(r, o).token, left |-> Row(r, o).lease])
    BY <1>3 DEF ClaimReplay
  <2>2. o \in Recent
    BY <2>1 DEF Existing, Row
  <2> QED BY <1>2, <1>3, <2>1, <2>2 DEF ClaimReplay, Rows
<1>4. ASSUME NEW r \in Request, ClaimNext(r) PROVE HistoryInv'
  <2>1. PICK o \in First(1, Available(r)), t \in FreshTokens :
          /\ Commit(r, [p \in Rows(r) \union {o} |->
                         IF p = o THEN Leased(Row(r, o), SessionOf[r], t) ELSE work[r][p]])
          /\ Respond(r, [order |-> o, token |-> t, left |-> Lease])
    BY <1>4 DEF ClaimNext
  <2>2. o \in Recent
    BY NextRow DEF Claimable, Row
  <2> QED BY <1>2, <2>1, <2>2
<1>5. ASSUME NEW r \in Request, ClaimNothing(r) \/ ClaimRollback(r) PROVE HistoryInv'
  <2>1. UNCHANGED <<hold, onPaper>> /\ \A p \in Order \ Recent : job'[p] = job[p]
    BY <1>5 DEF ClaimNothing, ClaimRollback, Commit, Rows
  <2>2. work'[r] = NoRows /\ \A q \in Request \ {r} : work'[q] = work[q]
    BY <1>5 DEF ClaimNothing, ClaimRollback, Commit, TypeOK
  <2> QED BY <2>1, <2>2 DEF Rows, NoRows
<1>6. ASSUME NEW s \in Session, PrintOut(s) \/ PrinterRefuses(s) \/ Forget(s) PROVE HistoryInv'
  <2>1. hold[s] # NoHold /\ hold' = [hold EXCEPT ![s] = NoHold] /\ UNCHANGED <<job, work>>
    BY <1>6 DEF PrintOut, PrinterRefuses, Forget
  <2>2. onPaper' \subseteq onPaper \union {<<hold[s].order, s>>}
    BY <1>6 DEF PrintOut, PrinterRefuses, Forget
  <2> QED BY <2>1, <2>2 DEF Rows, TypeOK
<1>7. ASSUME NEW m \in net, HandleAck(m) \/ HandleFail(m) PROVE HistoryInv'
  <2>1. PICK o \in Order : job[o].state = "CLAIMED" /\ \A p \in Order : p # o => job'[p] = job[p]
    BY <1>7 DEF HandleAck, HandleFail, TypeOK
  <2>2. UNCHANGED <<work, hold, onPaper>>
    BY <1>7 DEF HandleAck, HandleFail
  <2> QED BY <2>1, <2>2 DEF Rows
<1>8. ASSUME Tick PROVE HistoryInv'
  <2>1. \A j \in Job : Older(j).state = j.state
    BY DEF Older, Job
  <2>2. \A r \in Request : Rows(r)' = Rows(r)
    BY <1>8 DEF Tick, Rows
  <2>3. \A s \in Session : /\ hold'[s].order = hold[s].order
                           /\ hold[s] = NoHold => hold'[s] = NoHold
    BY <1>8 DEF Tick, TypeOK, Hold, NoHold, Less
  <2> QED BY <1>8, <2>1, <2>2, <2>3 DEF Tick, TypeOK
<1>9. ASSUME UNCHANGED <<job, work, hold, onPaper>> PROVE HistoryInv'
  BY <1>9 DEF Rows
<1> QED
  <2>1. ASSUME \/ \E o \in Order : SyncOrder(o)
               \/ \E o \in Order, l \in Line : SyncNewLine(o, l) \/ SyncReviseLine(o, l)
               \/ \E r \in Request : ClaimNoneLive(r)
               \/ \E m \in net : Drop(m)
               \/ UNCHANGED vars
        PROVE  UNCHANGED <<job, work, hold, onPaper>>
    BY <2>1 DEF SyncOrder, SyncNewLine, SyncReviseLine, ClaimNoneLive, Drop, vars
  <2> QED BY <1>1, <1>3, <1>4, <1>5, <1>6, <1>7, <1>8, <1>9, <2>1 DEF Next

LEMMA RecentInit == Init => LocksAreClaimable /\ HistoryInv
BY NamesAssumption
   DEF Init, LocksAreClaimable, HistoryInv, OnlyRecentJobs, NoHistoricalReplay, Rows, NoRows, NoHold, NoJob

\* No order from before the activation is ever printed, even when the cloud
\* rewrites its origin to TELEGRAM after the till has come up
\* (suppress_historical_telegram_replay, ReceiptPrintPolicy.activated_at).
THEOREM HistoryStaysQuiet == Spec => []NoHistoricalReplay
<1>1. TypeOK /\ LocksAreClaimable /\ HistoryInv /\ [Next]_vars
        => TypeOK' /\ LocksAreClaimable' /\ HistoryInv'
  BY TypeStep, LocksStep, RecentStep
<1>2. HistoryInv => NoHistoricalReplay
  BY DEF HistoryInv
<1> QED BY TypeInit, RecentInit, <1>1, <1>2, PTL DEF Spec
=============================================================================
