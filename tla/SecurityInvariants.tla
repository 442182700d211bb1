------------------------- MODULE SecurityInvariants -------------------------
(***************************************************************************)
(* The inductive invariants of ReceiptKeys, AuditChain and SecurityDesk.   *)
(***************************************************************************)
EXTENDS SecurityDesk

-----------------------------------------------------------------------------
(* Receipt keys *)

\* The versions with a public key are 1..n, each with a pair of its own file;
\* a rotation works on the next version, or activates the last one.
KeysUpTo(n) ==
  /\ \A v \in Versions : public[v] # 0 <=> v <= n
  /\ \A v \in 1..n : private[v] = public[v]
  /\ activeFile <= n /\ override <= n
  /\ rotation.next \in {"private", "public"} => rotation.version = n + 1
  /\ rotation.next = "public" => private[rotation.version] = rotation.pair
  /\ rotation.next = "active" => rotation.version = n

KeysInv ==
  /\ KeysTypeOK
  /\ \E n \in Versions : KeysUpTo(n)
  /\ ReceiptsVerify

-----------------------------------------------------------------------------
(* Audit log *)

\* No stamp is drawn twice by rows that are stored or calls in flight.
StampsDiffer ==
  /\ \A i, j \in DOMAIN rows : rows[i].content.stamp = rows[j].content.stamp => i = j
  /\ \A w \in Writers, i \in DOMAIN rows :
       writer[w] # Idle => writer[w].content.stamp # rows[i].content.stamp
  /\ \A v, w \in Writers :
       writer[v] # Idle /\ writer[w] # Idle /\ writer[v].content.stamp = writer[w].content.stamp
         => v = w

\* What holds the lock has read the hash that is still the last one.
HolderIsCurrent ==
  \A w \in Writers : writer[w].pc = "holding" => writer[w].prev \in LastHash(DOMAIN rows)

\* The hash of a row tells whether the row is the one that was written.
HashesTell ==
  /\ altered \subseteq {rows[i].content.stamp : i \in DOMAIN rows}
  /\ \A i \in DOMAIN rows :
       rows[i].content.stamp \notin altered <=>
         rows[i].hash = HashOf(rows[i].prev, rows[i].content)

AuditInv ==
  /\ AuditTypeOK
  /\ StampsDiffer
  /\ HolderIsCurrent
  /\ ChainedToTheLast
  /\ HashesTell

-----------------------------------------------------------------------------
(* The handlers *)

\* What is logged, is being logged or is still to be logged is true.
IsTrue(e) ==
  /\ e.type = "key_rotation" => e.version \in Published
  /\ e.type = "valid_receipt" => e.receipt \in receipts
  /\ e.type = "invalid_receipt" /\ e.reason = "Invalid receipt" => ~e.signed

EventsTrue ==
  /\ \A w \in Writers : \A i \in DOMAIN toLog[w] : IsTrue(toLog[w][i])
  /\ \A w \in Writers : writer[w] # Idle => IsTrue(writer[w].content.event)
  /\ \A i \in Genuine : IsTrue(rows[i].content.event)

DeskInv ==
  /\ DeskTypeOK
  /\ KeysInv
  /\ AuditInv
  /\ EventsTrue
=============================================================================
