----------------------------- MODULE AuditChain -----------------------------
(***************************************************************************)
(* The hash-chained audit log (src/src/transactions/auditService.js): log, *)
(* called by every handler of the backend, and verifyAuditChain.           *)
(*                                                                         *)
(* A hash is modelled as what went into it: the hash of a row is the       *)
(* sequence of the contents of all rows it is chained to, so two hashes    *)
(* are equal exactly if these are.                                         *)
(*                                                                         *)
(* The log is ordered by created_at, in milliseconds, and then by id, a    *)
(* random UUID.  The two together are a number here, the stamp of a row:   *)
(* within a millisecond stamps come in any order, later ones are greater.  *)
(***************************************************************************)
EXTENDS Naturals, Sequences, FiniteSets

CONSTANTS
  Writers,     \* calls of log that can be in flight at once
  MaxStamp,    \* bound: stamps that can be drawn
  Events,      \* what there is to be logged: type, actor, target, metadata
  Limit,       \* how many rows verifyAuditChain reads
  Nobody       \* no writer

ASSUME AuditAssumption ==
  /\ MaxStamp \in Nat /\ Limit \in Nat
  /\ Nobody \notin Writers
  /\ \A e \in Events : Events # {e}

VARIABLES
  now,       \* the clock of the Node process: the least stamp it may still draw
  rows,      \* table audit_logs, in the order of COMMIT
  holder,    \* the transaction that holds the advisory lock
  writer,    \* the calls of log
  altered    \* stamps of rows that were changed behind the program's back

auditVars == <<now, rows, holder, writer, altered>>

-----------------------------------------------------------------------------
Stamps == 1..MaxStamp

Content == [stamp : Stamps, event : Events]

Genesis == <<>>

\* calculateCurrentHash.
HashOf(prev, c) == Append(prev, c)

Row == [content : Content, prev : Seq(Content), hash : Seq(Content)]

Idle == [pc |-> "idle", content |-> <<>>, prev |-> Genesis]
WriterState ==
  {Idle} \cup [pc : {"waiting", "holding"}, content : Content, prev : Seq(Content)]

AuditTypeOK ==
  /\ now \in 1..(MaxStamp + 1)
  /\ rows \in Seq(Row)
  /\ holder \in Writers \cup {Nobody}
  /\ writer \in [Writers -> WriterState]
  /\ \A w \in Writers : writer[w].pc = "holding" => holder = w
  /\ altered \subseteq Stamps

AuditInit ==
  /\ now = 1
  /\ rows = <<>>
  /\ holder = Nobody
  /\ writer = [w \in Writers |-> Idle]
  /\ altered = {}

-----------------------------------------------------------------------------
(* log *)

Drawn == {rows[i].content.stamp : i \in DOMAIN rows}
         \cup {writer[w].content.stamp : w \in {v \in Writers : writer[v] # Idle}}

\* The id and the timestamp are taken first; then the call waits for a
\* connection and for the advisory lock.
Stamp(w, s, e) ==
  /\ writer[w] = Idle
  /\ s >= now /\ s \notin Drawn
  /\ writer' = [writer EXCEPT ![w] =
       [pc |-> "waiting", content |-> [stamp |-> s, event |-> e], prev |-> Genesis]]
  /\ UNCHANGED <<now, rows, holder, altered>>

\* ORDER BY created_at, id.
Before(c, d) == c.stamp < d.stamp

\* The hash of the last row, in the order of the log, among those at positions S.
LastHash(S) ==
  IF S = {} THEN {Genesis}
  ELSE {rows[i].hash : i \in {k \in S : \A j \in S \ {k} : Before(rows[j].content, rows[k].content)}}

\* Mutant: the lock is not waited for.
NeverLocked == TRUE

LockFree == holder = Nobody

\* pg_advisory_xact_lock, and the SELECT of the previous hash.
ReadPrevious(w) ==
  /\ writer[w].pc = "waiting"
  /\ LockFree
  /\ holder' = w
  /\ \E h \in LastHash(DOMAIN rows) :
       writer' = [writer EXCEPT ![w].pc = "holding", ![w].prev = h]
  /\ UNCHANGED <<now, rows, altered>>

\* Mutant: the row is chained to the previous one without a hash of its own.
HashesPreviousOnly(w) == writer[w].prev

CurrentHash(w) == HashOf(writer[w].prev, writer[w].content)

\* INSERT and COMMIT, which releases the lock.
CommitRow(w) ==
  /\ writer[w].pc = "holding"
  /\ rows' = Append(rows, [content |-> writer[w].content, prev |-> writer[w].prev,
                           hash |-> CurrentHash(w)])
  /\ holder' = Nobody
  /\ writer' = [writer EXCEPT ![w] = Idle]
  /\ UNCHANGED <<now, altered>>

\* Any error is swallowed, the transaction rolls back and the row is lost.
LogFails(w) ==
  /\ writer[w] # Idle
  /\ holder' = IF holder = w THEN Nobody ELSE holder
  /\ writer' = [writer EXCEPT ![w] = Idle]
  /\ UNCHANGED <<now, rows, altered>>

\* The backend dies with all the calls it had in flight.
LoseWriters ==
  /\ holder' = Nobody
  /\ writer' = [w \in Writers |-> Idle]
  /\ UNCHANGED <<now, rows, altered>>

\* A millisecond passes: what is drawn from now on comes after all that was drawn.
Tick ==
  /\ \E latest \in Drawn : /\ \A s \in Drawn : s <= latest
                           /\ now <= latest
                           /\ now' = latest + 1
  /\ UNCHANGED <<rows, holder, writer, altered>>

\* A stored row is changed by something other than the program; once is enough,
\* and to a hash any other event is as good as another.
AlterRow(i) ==
  /\ altered = {}
  /\ rows' = [rows EXCEPT ![i].content.event = CHOOSE e \in Events : e # @]
  /\ altered' = {rows[i].content.stamp}
  /\ UNCHANGED <<now, holder, writer>>

\* A step of log, or of the world around it.
AuditStep ==
  \/ \E w \in Writers : ReadPrevious(w) \/ CommitRow(w) \/ LogFails(w)
  \/ Tick
  \/ \E i \in DOMAIN rows : AlterRow(i)

AuditNext ==
  \/ \E w \in Writers, s \in Stamps, e \in Events : Stamp(w, s, e)
  \/ LoseWriters
  \/ AuditStep

AuditSpec == AuditInit /\ [][AuditNext]_auditVars

-----------------------------------------------------------------------------
(* verifyAuditChain *)

Predecessors(i) == {j \in DOMAIN rows : Before(rows[j].content, rows[i].content)}

\* The first Limit rows, in the order of the log.
Checked == {i \in DOMAIN rows : Cardinality(Predecessors(i)) < Limit}

\* Mutant: only the links between the rows are compared.
LinkOnly(i) == rows[i].prev \in LastHash(Predecessors(i))

RowVerifies(i) ==
  /\ rows[i].prev \in LastHash(Predecessors(i))
  /\ rows[i].hash = HashOf(rows[i].prev, rows[i].content)

\* The loop stops at the first row that does not verify: the log is valid if
\* there is none.
ChainValid == \A i \in Checked : RowVerifies(i)

-----------------------------------------------------------------------------
(* Properties *)

\* Rows were committed in the order in which they were stamped.
CommittedInOrder ==
  \A i, j \in DOMAIN rows : i < j => Before(rows[i].content, rows[j].content)

\* The advisory lock does what it is for: however calls of log overlap, a row is
\* chained to the row that was last in the log when it was committed.
ChainedToTheLast ==
  \A i \in DOMAIN rows : rows[i].prev \in LastHash(1..(i - 1))

\* An untouched log whose rows were committed in the order of their timestamps
\* verifies, however the calls overlapped, failed and waited.
OrderedLogVerifies == CommittedInOrder /\ altered = {} => ChainValid

\* A row that was altered is noticed, if it is among the rows that are read.
AlterationDetected ==
  (\E i \in Checked : rows[i].content.stamp \in altered) => ~ChainValid

\* What the repository says of the log, refuted by a run that expects it: a log
\* nobody has touched verifies.
UntouchedLogVerifies == altered = {} => ChainValid
=============================================================================
