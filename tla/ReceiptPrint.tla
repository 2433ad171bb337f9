---------------------------- MODULE ReceiptPrint ----------------------------
(***************************************************************************)
(* The durable receipt-print ledger of the till                            *)
(* (customers/services/print_service.py): one row per Telegram order,      *)
(* leased to one POS session at a time under a random fencing token, and   *)
(* retired by an acknowledgement.                                          *)
(*                                                                         *)
(* claim_next is one READ COMMITTED transaction of several statements.     *)
(* Three steps are kept apart, because other requests, the sync engine and *)
(* the clock move between them: materialise and refresh the open jobs;     *)
(* look for a lease the session already has; lease the next job.  The rows *)
(* a request has locked and written stay in work[r] until it commits.      *)
(* Instants are kept as the ticks that remain, so that time is unbounded;  *)
(* a random token is any token nobody remembers.                           *)
(***************************************************************************)
EXTENDS Naturals, FiniteSetsExt

CONSTANTS
  Order,      \* telegram orders, numbered by (created_at, pk)
  Recent,     \* those created after ReceiptPrintPolicy.activated_at
  Session,    \* authenticated POS sessions
  Request,    \* claim requests the server works on at once
  SessionOf,  \* SessionOf[r]: whose request r is
  Token,      \* claim tokens
  Nobody,     \* the blank claimed_session_hash
  NoToken,    \* a null claim_token
  Line,       \* lines an order may have
  MaxVersion, \* bound: sync revisions of a line
  Revised,    \* the lines that are revised at all
  LineGross,  \* LineGross[l][v]: price * quantity of revision v of line l
  Subtotal,   \* Order.subtotal
  Limit,      \* rows one materialise or refresh pass looks at (250)
  Impatient,  \* sessions whose client polls again before its last report is answered
  Settle,     \* TELEGRAM_PRINT_MATERIALIZATION_SETTLE_SECONDS, in ticks
  Lease       \* TELEGRAM_PRINT_LEASE_SECONDS, in ticks

Version == 0 .. MaxVersion      \* 0: the line has not arrived
Lines   == [Line -> Version]
NoLines == [l \in Line |-> 0]

ASSUME OrderAssumption   == Order \subseteq Nat /\ Recent \subseteq Order
ASSUME NamesAssumption   == /\ Nobody \notin Session /\ NoToken \notin Token
                            /\ SessionOf \in [Request -> Session]
                            /\ Impatient \subseteq Session
ASSUME TimesAssumption   == Settle \in Nat /\ Lease \in Nat \ {0} /\ Limit \in Nat \ {0}
ASSUME VersionAssumption == MaxVersion \in Nat \ {0}
ASSUME MoneyAssumption   == /\ LineGross \in [Line -> [1 .. MaxVersion -> Nat]]
                            /\ Subtotal \in [Order -> Nat]

VARIABLES
  orderState, \* the synchronised Order row
  lines,      \* the synchronised OrderItem rows of each order
  job,        \* ReceiptPrintJob of each order
  claiming,   \* where each request is in claim_next
  work,       \* work[r]: the rows r has locked and written, not committed
  hold,       \* the claim a POS client is printing
  net,        \* acknowledgements and failure reports on their way
  onPaper     \* <<o, s>>: paper of order o has left the printer of session s

vars == <<orderState, lines, job, claiming, work, hold, net, onPaper>>

Never == Settle + 1             \* a null eligible_at

Job == [state : {"NONE", "PENDING", "CLAIMED", "PRINTED"},
        token : Token \union {NoToken},
        owner : Session \union {Nobody},
        lease : 0 .. Lease,
        elig  : 0 .. Never,
        fp    : Lines]
NoJob == [state |-> "NONE", token |-> NoToken, owner |-> Nobody,
          lease |-> 0, elig |-> Never, fp |-> NoLines]
NoRows == [o \in {} |-> NoJob]

NoHold == [order |-> 0, token |-> NoToken, left |-> 0]
Hold   == {NoHold} \union [order : Order, token : Token \union {NoToken}, left : 0 .. Lease]

Message == [kind : {"ack", "fail"}, session : Session, token : Token \union {NoToken}]

TypeOK ==
  /\ orderState \in [Order -> {"absent", "pos", "telegram", "canceled", "deleted"}]
  /\ lines \in [Order -> Lines]
  /\ job \in [Order -> Job]
  /\ claiming \in [Request -> {"idle", "refreshed", "checked"}]
  /\ DOMAIN work = Request
  /\ \A r \in Request : DOMAIN work[r] \subseteq Order /\ \A o \in DOMAIN work[r] : work[r][o] \in Job
  /\ hold \in [Session -> Hold]
  /\ net \subseteq Message
  /\ onPaper \subseteq Order \X Session

-----------------------------------------------------------------------------
(* Completeness evidence *)

Live(o) == {l \in Line : lines[o][l] > 0}
Gross(o) == MapThenSumSet(LAMBDA l : LineGross[l][lines[o][l]], Live(o))

\* _materialization_fingerprint: the digest of every live line and its version
\* when their gross equals the subtotal, and '' (NoLines) otherwise.
Fingerprint(o) ==
  IF Live(o) # {} /\ Gross(o) = Subtotal[o] THEN lines[o] ELSE NoLines

First(n, S) == {o \in S : Cardinality({p \in S : p < o}) < n}

-----------------------------------------------------------------------------
(* Row locks *)

Rows(r)   == DOMAIN work[r]
Locked    == UNION {Rows(r) : r \in Request}
LockedByOthers(r) == UNION {Rows(q) : q \in Request \ {r}}
Row(r, o) == IF o \in Rows(r) THEN work[r][o] ELSE job[o]

\* Mutant: a running lease does not protect a job.
ClaimableUnleased(j) == j.state \in {"PENDING", "CLAIMED"}
\* Mutant: a lease that ran out is never claimed again.
ClaimableNeverAgain(j) == j.state = "PENDING"
Claimable(j) == j.state = "PENDING" \/ (j.state = "CLAIMED" /\ j.lease = 0)

\* A uuid4 that no row, client or message carries.
FreshTokens ==
  Token \ ( {job[o].token : o \in Order} \union {hold[s].token : s \in Session}
            \union {m.token : m \in net} )

-----------------------------------------------------------------------------
Init ==
  /\ orderState \in [Order -> {"absent", "pos", "telegram"}]
  /\ \A o \in Order : orderState[o] # "absent" <=> o \notin Recent
  /\ lines = [o \in Order |-> NoLines]
  \* suppress_historical_telegram_replay
  /\ job = [o \in Order |-> IF orderState[o] = "telegram"
                            THEN [NoJob EXCEPT !.state = "PRINTED"] ELSE NoJob]
  /\ claiming = [r \in Request |-> "idle"]
  /\ work = [r \in Request |-> NoRows]
  /\ hold = [s \in Session |-> NoHold]
  /\ net = {}
  /\ onPaper = {}

-----------------------------------------------------------------------------
(* The sync engine.  A refreshing transaction also locks the joined order  *)
(* rows, so changing the order, or inserting a line that references it,    *)
(* waits for it; revising a line does not.                                 *)

SyncOrder(o) ==
  /\ o \notin Locked
  /\ \/ orderState[o] = "absent" /\ orderState' = [orderState EXCEPT ![o] = "telegram"]
     \/ orderState[o] = "pos" /\ orderState' = [orderState EXCEPT ![o] = "telegram"]
     \/ /\ orderState[o] = "telegram"
        /\ \E end \in {"canceled", "deleted"} : orderState' = [orderState EXCEPT ![o] = end]
  /\ UNCHANGED <<lines, job, claiming, work, hold, net, onPaper>>

SyncNewLine(o, l) ==
  /\ orderState[o] # "absent"
  /\ o \notin Locked
  /\ lines[o][l] = 0
  /\ lines' = [lines EXCEPT ![o][l] = 1]
  /\ UNCHANGED <<orderState, job, claiming, work, hold, net, onPaper>>

SyncReviseLine(o, l) ==
  /\ l \in Revised /\ lines[o][l] \in 1 .. MaxVersion - 1
  /\ lines' = [lines EXCEPT ![o][l] = @ + 1]
  /\ UNCHANGED <<orderState, job, claiming, work, hold, net, onPaper>>

-----------------------------------------------------------------------------
(* claim_next *)

\* Mutant: the activation boundary of ReceiptPrintPolicy is not applied.
NewRowsOfAnyAge ==
  LET unjobbed == {o \in Order : orderState[o] = "telegram" /\ Live(o) # {} /\ job[o].state = "NONE"}
      complete == {o \in First(Limit, unjobbed) : Fingerprint(o) # NoLines}
  IN  [o \in complete |->
        [NoJob EXCEPT !.state = "PENDING", !.elig = Settle, !.fp = Fingerprint(o)]]

\* Rows that _materialize_new_jobs creates: PENDING, with complete lines.
NewRows ==
  LET unjobbed == {o \in Recent : /\ orderState[o] = "telegram"
                                  /\ Live(o) # {}
                                  /\ job[o].state = "NONE"}
      complete == {o \in First(Limit, unjobbed) : Fingerprint(o) # NoLines}
  IN  [o \in complete |->
        [NoJob EXCEPT !.state = "PENDING", !.elig = Settle, !.fp = Fingerprint(o)]]

\* _refresh_pending_materialization: a moved snapshot restarts its settle time.
Refreshed(o, j) ==
  IF Fingerprint(o) = j.fp THEN j
  ELSE [j EXCEPT !.fp = Fingerprint(o),
                 !.elig = IF Fingerprint(o) # NoLines THEN Settle ELSE Never]

MayPoll(s) == /\ hold[s] = NoHold
              /\ s \in Impatient \/ \A m \in net : m.session # s

\* The lock blocks until no other transaction holds one of the rows.
ClaimBegin(r) ==
  LET new  == NewRows
      row(o) == IF o \in DOMAIN new THEN new[o] ELSE job[o]
      open == First(Limit, {o \in Order : orderState[o] = "telegram" /\ Claimable(row(o))})
  IN  /\ claiming[r] = "idle"
      /\ MayPoll(SessionOf[r])
      /\ (open \union DOMAIN new) \intersect Locked = {}
      /\ claiming' = [claiming EXCEPT ![r] = "refreshed"]
      /\ work' = [work EXCEPT ![r] = [o \in open \union DOMAIN new |->
                    IF o \in open THEN Refreshed(o, row(o)) ELSE row(o)]]
      /\ UNCHANGED <<orderState, lines, job, hold, net, onPaper>>

\* The session's live claim.
Existing(r) == {o \in Order : /\ orderState[o] = "telegram"
                              /\ Row(r, o).state = "CLAIMED"
                              /\ Row(r, o).owner = SessionOf[r]
                              /\ Row(r, o).lease > 0}

\* select_for_update(skip_locked=True)
Available(r) == {o \in Order : /\ orderState[o] = "telegram"
                               /\ o \notin LockedByOthers(r)
                               /\ Claimable(Row(r, o))
                               /\ Row(r, o).elig = 0
                               /\ Row(r, o).fp # NoLines}

Leased(j, s, t) ==
  [j EXCEPT !.state = "CLAIMED", !.token = t, !.owner = s, !.lease = Lease]

\* COMMIT of r with the rows it has written.
Commit(r, rows) ==
  /\ job' = [o \in Order |-> IF o \in DOMAIN rows THEN rows[o] ELSE job[o]]
  /\ work' = [work EXCEPT ![r] = NoRows]
  /\ claiming' = [claiming EXCEPT ![r] = "idle"]
  /\ UNCHANGED <<orderState, lines, net, onPaper>>

\* The response, which the client may never see.
Respond(r, claim) == hold' \in {hold, [hold EXCEPT ![SessionOf[r]] = claim]}

\* A retry after a lost response is given the same token and order.
ClaimReplay(r) ==
  /\ claiming[r] = "refreshed"
  /\ \E o \in Existing(r) \ LockedByOthers(r) :
       /\ Commit(r, work[r])
       /\ Respond(r, [order |-> o, token |-> Row(r, o).token, left |-> Row(r, o).lease])

\* Mutant: a retry is not recognised, so a lost response costs a second lease.
ClaimAnother(r) ==
  /\ claiming[r] = "refreshed"
  /\ claiming' = [claiming EXCEPT ![r] = "checked"]
  /\ UNCHANGED <<orderState, lines, job, work, hold, net, onPaper>>

ClaimNoneLive(r) ==
  /\ claiming[r] = "refreshed"
  /\ Existing(r) = {}
  /\ claiming' = [claiming EXCEPT ![r] = "checked"]
  /\ UNCHANGED <<orderState, lines, job, work, hold, net, onPaper>>

ClaimNext(r) ==
  /\ claiming[r] = "checked"
  /\ \E o \in First(1, Available(r)), t \in FreshTokens :
       /\ Commit(r, [p \in Rows(r) \union {o} |->
                      IF p = o THEN Leased(Row(r, o), SessionOf[r], t) ELSE work[r][p]])
       /\ Respond(r, [order |-> o, token |-> t, left |-> Lease])

ClaimNothing(r) ==
  /\ claiming[r] = "checked"
  /\ Available(r) = {}
  /\ Commit(r, work[r])
  /\ UNCHANGED hold

\* The process dies or the database fails inside the transaction.
ClaimRollback(r) ==
  /\ claiming[r] # "idle"
  /\ work' = [work EXCEPT ![r] = NoRows]
  /\ claiming' = [claiming EXCEPT ![r] = "idle"]
  /\ UNCHANGED <<orderState, lines, job, hold, net, onPaper>>

-----------------------------------------------------------------------------
(* acknowledge and release_failed *)

\* Mutant: the acknowledgement is matched by its session, not by its token.
HandleAckUnfenced(m) ==
  /\ m.kind = "ack"
  /\ \E o \in Order \ Locked :
       /\ job[o].owner = m.session
       /\ job[o].state = "CLAIMED"
       /\ job' = [job EXCEPT ![o].state = "PRINTED", ![o].lease = 0]
  /\ UNCHANGED <<orderState, lines, claiming, work, hold, net, onPaper>>

HandleAck(m) ==
  /\ m.kind = "ack"
  /\ \E o \in Order \ Locked :
       /\ job[o].token = m.token
       /\ job[o].owner = m.session
       /\ job[o].state = "CLAIMED"
       /\ job' = [job EXCEPT ![o].state = "PRINTED", ![o].lease = 0]
  /\ UNCHANGED <<orderState, lines, claiming, work, hold, net, onPaper>>

HandleFail(m) ==
  /\ m.kind = "fail"
  /\ \E o \in Order \ Locked :
       /\ job[o].token = m.token
       /\ job[o].owner = m.session
       /\ job[o].state = "CLAIMED"
       /\ job' = [job EXCEPT ![o].state = "PENDING", ![o].token = NoToken,
                             ![o].owner = Nobody, ![o].lease = 0]
  /\ UNCHANGED <<orderState, lines, claiming, work, hold, net, onPaper>>

\* A request is retried for as long as it stays in net, and then given up.
Drop(m) ==
  /\ net' = net \ {m}
  /\ UNCHANGED <<orderState, lines, job, claiming, work, hold, onPaper>>

-----------------------------------------------------------------------------
(* The POS client (external): the loop of OPERATIONS.md, section 6.  It    *)
(* reports success only after the printer has, and failure only when       *)
(* nothing was printed.  A browser refresh forgets the claim.              *)

PrintOut(s) ==
  /\ hold[s] # NoHold
  /\ onPaper' = onPaper \union {<<hold[s].order, s>>}
  /\ net' = net \union {[kind |-> "ack", session |-> s, token |-> hold[s].token]}
  /\ hold' = [hold EXCEPT ![s] = NoHold]
  /\ UNCHANGED <<orderState, lines, job, claiming, work>>

PrinterRefuses(s) ==
  /\ hold[s] # NoHold
  /\ net' = net \union {[kind |-> "fail", session |-> s, token |-> hold[s].token]}
  /\ hold' = [hold EXCEPT ![s] = NoHold]
  /\ UNCHANGED <<orderState, lines, job, claiming, work, onPaper>>

Forget(s) ==
  /\ hold[s] # NoHold
  /\ hold' = [hold EXCEPT ![s] = NoHold]
  /\ UNCHANGED <<orderState, lines, job, claiming, work, net, onPaper>>

-----------------------------------------------------------------------------
Less(n) == IF n > 0 THEN n - 1 ELSE 0
Older(j) == [j EXCEPT !.lease = Less(@), !.elig = IF @ = Never THEN Never ELSE Less(@)]

Tick ==
  /\ job' = [o \in Order |-> Older(job[o])]
  /\ work' = [r \in Request |-> [o \in Rows(r) |-> Older(work[r][o])]]
  /\ hold' = [s \in Session |-> [hold[s] EXCEPT !.left = Less(@)]]
  /\ UNCHANGED <<orderState, lines, claiming, net, onPaper>>

Next ==
  \/ \E o \in Order : SyncOrder(o)
  \/ \E o \in Order, l \in Line : SyncNewLine(o, l) \/ SyncReviseLine(o, l)
  \/ \E r \in Request : \/ ClaimBegin(r) \/ ClaimReplay(r) \/ ClaimNoneLive(r)
                       \/ ClaimNext(r) \/ ClaimNothing(r) \/ ClaimRollback(r)
  \/ \E s \in Session : PrintOut(s) \/ PrinterRefuses(s) \/ Forget(s)
  \/ \E m \in net : HandleAck(m) \/ HandleFail(m) \/ Drop(m)
  \/ Tick

Spec == Init /\ [][Next]_vars

\* The desktop's poller keeps polling and reports what it printed until it is
\* answered; the server finishes its transactions.  A request may be lost any
\* number of times, but not always (SF).
Fairness ==
  /\ WF_vars(Tick)
  /\ \A r \in Request :
       /\ SF_vars(ClaimBegin(r))
       /\ SF_vars(ClaimNoneLive(r)) /\ SF_vars(ClaimNothing(r))
       /\ SF_vars(ClaimReplay(r) /\ hold'[SessionOf[r]] # NoHold)
       /\ SF_vars(ClaimNext(r) /\ hold'[SessionOf[r]] # NoHold)
  /\ \A s \in Session :
       /\ SF_vars(PrintOut(s))
       /\ SF_vars(\E m \in net : m.session = s /\ HandleAck(m))
       /\ WF_vars(\E m \in net : m.session = s /\ Drop(m))

FairSpec == Spec /\ Fairness

-----------------------------------------------------------------------------
(* Properties *)

LiveClaims(s) == IF hold[s].left > 0 THEN {hold[s].order} ELSE {}

\* "One active consumer": two POS sessions never print the same order, each
\* within its lease (customers/models.py:40).
OneActiveConsumer ==
  \A s, t \in Session : s # t => LiveClaims(s) \intersect LiveClaims(t) = {}

LeasesOf(s) == {o \in Order : /\ job[o].state = "CLAIMED" /\ job[o].owner = s
                              /\ job[o].lease > 0 /\ orderState[o] = "telegram"}

\* A session never has two live leases: a response that is lost, or a browser
\* that reloads, does not cost a second order its place in the queue
\* (claim_next, the existing lease).
OneLeasePerSession == \A s \in Session : Cardinality(LeasesOf(s)) <= 1

\* A recent order is retired only after the session whose claim was
\* acknowledged has printed it, whatever other, older or later
\* acknowledgements are in flight (acknowledge, the fencing token).
PrintedHasPaper ==
  \A o \in Recent : job[o].state = "PRINTED" => <<o, job[o].owner>> \in onPaper

\* An order older than the activation of the feature is never printed, even
\* when the cloud later rewrites its origin from POS to TELEGRAM
\* (ReceiptPrintPolicy; suppress_historical_telegram_replay).
NoHistoricalReplay == \A p \in onPaper : p[1] \in Recent

\* An order whose live lines account for its subtotal, and stay so, is printed
\* and acknowledged at last (customers/models.py:31).
EventuallyPrinted ==
  \A o \in Recent :
    <>[](orderState[o] = "telegram" /\ Fingerprint(o) # NoLines) => <>(job[o].state = "PRINTED")

-----------------------------------------------------------------------------
(* The inductive invariant behind OneActiveConsumer *)

\* A session has at most one claim request on the server.
OneRequestEach == \A q, r \in Request : SessionOf[q] = SessionOf[r] => q = r

\* Every client is serial: one request at a time, and no new claim before its
\* last report is answered or given up.
SerialClients == Impatient = {} /\ OneRequestEach

\* A transaction has locked only rows that were free to claim, and no two
\* transactions the same row.
LocksAreClaimable ==
  /\ \A r \in Request : \A o \in Rows(r) :
       Claimable(work[r][o]) /\ (job[o].state = "NONE" \/ Claimable(job[o]))
  /\ \A q, r \in Request : q # r => Rows(q) \intersect Rows(r) = {}

\* While a session claims or prints, no report of it is on its way.
QuietWhileBusy ==
  \A m \in net :
    /\ hold[m.session] = NoHold
    /\ \A r \in Request : SessionOf[r] = m.session => claiming[r] = "idle"

ClaimingHoldsNothing ==
  \A r \in Request : claiming[r] # "idle" => hold[SessionOf[r]] = NoHold

\* A client that believes in its lease really has it.
LiveHoldIsLeased ==
  \A s \in Session : hold[s].left > 0 =>
    LET o == hold[s].order
    IN  o \in Order /\ job[o].state = "CLAIMED" /\ job[o].owner = s /\ job[o].lease >= hold[s].left

LeaseInv == LocksAreClaimable /\ QuietWhileBusy /\ ClaimingHoldsNothing /\ LiveHoldIsLeased

(* The inductive invariant behind PrintedHasPaper: a token is a fence. *)

\* A locked row has the state and the token of its job, or creates the job.
RowsFollowJobs ==
  \A r \in Request : \A o \in Rows(r) :
    \/ work[r][o].state = job[o].state /\ work[r][o].token = job[o].token
    \/ job[o].state = "NONE" /\ work[r][o].state = "PENDING" /\ work[r][o].token = NoToken

\* A token names one claimed order, for the ledger and for every client.
TokensAreFences ==
  /\ \A o \in Order : job[o].state = "CLAIMED" => job[o].token # NoToken
  /\ \A o, p \in Order : job[o].token = job[p].token => o = p \/ job[o].token = NoToken
  /\ \A s \in Session, o \in Order :
       hold[s] # NoHold /\ job[o].state = "CLAIMED" /\ job[o].token = hold[s].token
         => o = hold[s].order

\* An acknowledgement that can still retire an order was sent after its paper.
AcksHavePaper ==
  \A m \in net, o \in Order :
    m.kind = "ack" /\ job[o].state = "CLAIMED" /\ job[o].token = m.token
      => <<o, m.session>> \in onPaper

PaperInv == LocksAreClaimable /\ RowsFollowJobs /\ TokensAreFences /\ AcksHavePaper /\ PrintedHasPaper

(* The inductive invariant behind OneLeasePerSession. *)

\* Only an order that has become TELEGRAM has a job, and a locked order stays.
JobsAreTelegram ==
  /\ \A o \in Order : orderState[o] \in {"absent", "pos"} => job[o].state = "NONE"
  /\ \A r \in Request : \A o \in Rows(r) : orderState[o] = "telegram"

SingleLeases ==
  /\ \A s \in Session : \A o, p \in LeasesOf(s) : o = p
  /\ \A r \in Request : claiming[r] = "checked" => LeasesOf(SessionOf[r]) = {}

SessionInv == LocksAreClaimable /\ JobsAreTelegram /\ SingleLeases

(* The inductive invariant behind NoHistoricalReplay. *)
OnlyRecentJobs ==
  /\ \A o \in Order \ Recent : job[o].state \in {"NONE", "PRINTED"}
  /\ \A r \in Request : Rows(r) \subseteq Recent
  /\ \A s \in Session : hold[s] # NoHold => hold[s].order \in Recent

HistoryInv == OnlyRecentJobs /\ NoHistoricalReplay
=============================================================================
