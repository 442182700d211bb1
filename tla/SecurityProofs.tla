--------------------------- MODULE SecurityProofs ---------------------------
(***************************************************************************)
(* The receipt keys, the audit log and the handlers that use both are      *)
(* type-correct and safe for every number of keys, writers and rows.       *)
(***************************************************************************)
EXTENDS SecurityInvariants, SequenceTheorems, TLAPS

-----------------------------------------------------------------------------
(* Receipt keys *)

\* The version numbers that may be asked for, in terms of KeysUpTo.
LEMMA Numbering ==
  ASSUME KeysTypeOK, NEW n \in Versions, KeysUpTo(n)
  PROVE  /\ Published = 1..n
         /\ LastPublished = n
         /\ ActiveVersion \in Published
<1>1. Published = 1..n
  BY KeysAssumption DEF KeysUpTo, Published, Versions
<1>2. LastPublished = n
  <2>1. n \in Published /\ \A u \in Published : u <= n
    BY <1>1 DEF Versions
  <2>2. \A v \in Published : (\A u \in Published : u <= v) => v = n
    BY <1>1, <2>1 DEF Versions
  <2>3. QED BY <2>1, <2>2 DEF LastPublished
<1>3. ActiveVersion \in 1..n
  BY <1>2, KeysAssumption DEF ActiveVersion, KeysUpTo, KeysTypeOK, Versions
<1>4. QED BY <1>1, <1>2, <1>3

LEMMA KeysInitially == KeysInit => KeysInv
<1> SUFFICES ASSUME KeysInit PROVE KeysInv
  OBVIOUS
<1>1. KeysTypeOK
  BY KeysAssumption DEF KeysInit, KeysTypeOK, Versions, Pairs
<1>2. KeysUpTo(1)
  BY KeysAssumption DEF KeysInit, KeysUpTo, Versions, NoRotation
<1>3. ReceiptsVerify
  BY DEF KeysInit, ReceiptsVerify
<1>4. QED BY <1>1, <1>2, <1>3, KeysAssumption DEF KeysInv, Versions

\* What is published stays published, with the same key.
LEMMA PublishedStays ==
  ASSUME KeysInv, [KeysNext]_keyVars
  PROVE  /\ Published \subseteq Published'
         /\ \A v \in Published : public'[v] = public[v]
<1>1. CASE UNCHANGED public
  BY <1>1 DEF Published
<1>2. CASE WriteFile /\ rotation.next = "public"
  <2>1. PICK n \in Versions : KeysUpTo(n)
    BY DEF KeysInv
  <2>2. Published = 1..n /\ rotation.version = n + 1 /\ rotation.pair # 0
    <3>1. KeysTypeOK /\ rotation # NoRotation
      BY <1>2 DEF KeysInv, NoRotation
    <3>2. rotation.pair \in Pairs
      BY <3>1 DEF KeysTypeOK
    <3>3. QED BY <1>2, <2>1, <3>1, <3>2, Numbering DEF KeysUpTo, Pairs
  <2>3. public' = [public EXCEPT ![n + 1] = rotation.pair]
    BY <1>2, <2>2 DEF WriteFile
  <2>4. \A v \in Published : public'[v] = public[v]
    BY <2>2, <2>3 DEF KeysInv, KeysTypeOK, Versions
  <2>5. QED BY <2>4 DEF Published
<1>3. QED
  BY <1>1, <1>2 DEF KeysNext, keyVars, files, StartRotation, WriteFile, RestartService,
       SignReceipt

LEMMA KeysStep == KeysInv /\ [KeysNext]_keyVars => KeysInv'
<1> SUFFICES ASSUME KeysInv, [KeysNext]_keyVars PROVE KeysInv'
  OBVIOUS
<1>0. KeysTypeOK /\ ReceiptsVerify
  BY DEF KeysInv
<1>1. PICK n \in Versions : KeysUpTo(n)
  BY DEF KeysInv
<1>2. Published = 1..n /\ LastPublished = n /\ ActiveVersion \in 1..n
  BY <1>0, <1>1, Numbering
<1>3. CASE StartRotation
  <2>1. rotation' = [next |-> "private", version |-> n + 1, pair |-> generated + 1]
        /\ n + 1 \in Versions /\ generated + 1 \in Pairs /\ generated' = generated + 1
        /\ UNCHANGED <<files, override, receipts>>
    BY <1>0, <1>2, <1>3, KeysAssumption DEF StartRotation, KeysTypeOK, Versions, Pairs
  <2>2. KeysTypeOK'
    BY <1>0, <2>1, KeysAssumption DEF KeysTypeOK, files, Pairs
  <2>3. KeysUpTo(n)'
    BY <1>1, <2>1 DEF KeysUpTo, files
  <2>4. ReceiptsVerify'
    BY <1>0, <2>1 DEF ReceiptsVerify, Verifies, files
  <2>5. QED BY <2>2, <2>3, <2>4 DEF KeysInv
<1>4. CASE WriteFile
  <2> DEFINE v == rotation.version
             p == rotation.pair
  <2>0. /\ rotation.next \in {"private", "public", "active"}
        /\ v \in Versions /\ p \in Pairs
        /\ UNCHANGED <<override, generated, receipts>>
    BY <1>0, <1>4 DEF WriteFile, KeysTypeOK, NoRotation
  <2>1. CASE rotation.next = "private"
    <3>1. /\ v = n + 1 /\ private' = [private EXCEPT ![v] = p]
          /\ rotation' = [rotation EXCEPT !.next = "public"]
          /\ UNCHANGED <<public, activeFile>>
      BY <1>1, <1>4, <2>1 DEF WriteFile, WriteAfter, KeysUpTo
    <3>2. rotation' = [next |-> "public", version |-> v, pair |-> p]
      BY <1>0, <2>1, <3>1 DEF KeysTypeOK, NoRotation
    <3>3. KeysTypeOK'
      <4>1. p \in 0..MaxPairs
        BY <2>0, KeysAssumption DEF Pairs
      <4>2. QED BY <1>0, <2>0, <3>1, <3>2, <4>1 DEF KeysTypeOK
    <3>4. KeysUpTo(n)'
      BY <1>0, <1>1, <2>0, <3>1, <3>2 DEF KeysUpTo, KeysTypeOK, Versions
    <3>5. ReceiptsVerify'
      BY <1>0, <2>0, <3>1 DEF ReceiptsVerify, Verifies
    <3>6. QED BY <3>3, <3>4, <3>5 DEF KeysInv
  <2>2. CASE rotation.next = "public"
    <3>1. /\ v = n + 1 /\ public' = [public EXCEPT ![v] = p] /\ private[v] = p
          /\ rotation' = [rotation EXCEPT !.next = "active"]
          /\ UNCHANGED <<private, activeFile>>
      BY <1>1, <1>4, <2>2 DEF WriteFile, WriteAfter, KeysUpTo
    <3>2. rotation' = [next |-> "active", version |-> v, pair |-> p]
      BY <1>0, <2>2, <3>1 DEF KeysTypeOK, NoRotation
    <3>3. KeysTypeOK'
      <4>1. p \in 0..MaxPairs
        BY <2>0, KeysAssumption DEF Pairs
      <4>2. QED BY <1>0, <2>0, <3>1, <3>2, <4>1 DEF KeysTypeOK
    <3>4. KeysUpTo(n + 1)'
      BY <1>0, <1>1, <2>0, <3>1, <3>2 DEF KeysUpTo, KeysTypeOK, Versions, Pairs
    <3>5. ReceiptsVerify'
      <4>1. \A r \in receipts : r.version \in Published
        BY <1>0 DEF ReceiptsVerify, Verifies, KeysTypeOK, Published, Pairs
      <4>2. QED BY <1>0, <2>0, <4>1, PublishedStays, <1>4 DEF ReceiptsVerify, Verifies, KeysNext
    <3>6. QED BY <2>0, <3>1, <3>3, <3>4, <3>5 DEF KeysInv
  <2>3. CASE rotation.next = "active"
    <3>1. v = n /\ activeFile' = v /\ rotation' = NoRotation /\ UNCHANGED <<private, public>>
      BY <1>1, <1>4, <2>3 DEF WriteFile, WriteAfter, KeysUpTo
    <3>2. KeysTypeOK'
      BY <1>0, <2>0, <3>1, KeysAssumption DEF KeysTypeOK, Versions
    <3>3. KeysUpTo(n)'
      BY <1>1, <2>0, <3>1 DEF KeysUpTo, NoRotation, Versions
    <3>4. ReceiptsVerify'
      BY <1>0, <2>0, <3>1 DEF ReceiptsVerify, Verifies
    <3>5. QED BY <3>2, <3>3, <3>4 DEF KeysInv
  <2>4. QED BY <2>0, <2>1, <2>2, <2>3
<1>5. CASE RestartService
  <2>1. override' \in 0..n /\ rotation' = NoRotation /\ UNCHANGED <<files, generated, receipts>>
    BY <1>2, <1>5 DEF RestartService, Versions
  <2>2. KeysTypeOK'
    BY <1>0, <2>1, KeysAssumption DEF KeysTypeOK, files, Versions
  <2>3. KeysUpTo(n)'
    BY <1>1, <2>1 DEF KeysUpTo, files, NoRotation
  <2>4. ReceiptsVerify'
    BY <1>0, <2>1 DEF ReceiptsVerify, Verifies, files
  <2>5. QED BY <2>2, <2>3, <2>4 DEF KeysInv
<1>6. CASE SignReceipt
  <2> DEFINE r == [version |-> ActiveVersion, pair |-> private[ActiveVersion]]
  <2>1. /\ receipts' = receipts \cup {r}
        /\ UNCHANGED <<files, override, rotation, generated>>
        /\ public[ActiveVersion] = private[ActiveVersion] /\ private[ActiveVersion] # 0
    BY <1>1, <1>2, <1>6 DEF SignReceipt, SigningPair, KeysUpTo
  <2>2. ActiveVersion \in Versions /\ private[ActiveVersion] \in Pairs
    BY <1>0, <1>2, <2>1, KeysAssumption DEF KeysTypeOK, Versions, Pairs
  <2>3. KeysTypeOK'
    BY <1>0, <2>1, <2>2 DEF KeysTypeOK, files
  <2>4. KeysUpTo(n)'
    BY <1>1, <2>1 DEF KeysUpTo, files
  <2>5. ReceiptsVerify'
    BY <1>0, <2>1 DEF ReceiptsVerify, Verifies, files
  <2>6. QED BY <2>3, <2>4, <2>5 DEF KeysInv
<1>7. CASE UNCHANGED keyVars
  BY <1>0, <1>1, <1>7 DEF KeysInv, KeysTypeOK, KeysUpTo, ReceiptsVerify, Verifies, keyVars, files
<1>8. QED BY <1>3, <1>4, <1>5, <1>6, <1>7 DEF KeysNext

\* The invariant of ReceiptKeys.
THEOREM KeysInvariant == KeysSpec => []KeysInv
BY KeysInitially, KeysStep, PTL DEF KeysSpec

\* There is always a matching pair to sign with, also after a crash.
LEMMA KeysSign == KeysInv => ActiveCanSign
<1> SUFFICES ASSUME KeysInv PROVE private[ActiveVersion] # 0 /\ private[ActiveVersion] = public[ActiveVersion]
  BY DEF ActiveCanSign
<1>1. PICK n \in Versions : KeysUpTo(n)
  BY DEF KeysInv
<1>2. Published = 1..n /\ ActiveVersion \in Published
  BY <1>1, Numbering DEF KeysInv
<1>3. QED BY <1>1, <1>2 DEF KeysUpTo, Published

-----------------------------------------------------------------------------
(* Audit log *)

LEMMA RowFacts ==
  ASSUME AuditTypeOK
  PROVE  /\ Len(rows) \in Nat /\ DOMAIN rows = 1..Len(rows)
         /\ \A i \in 1..Len(rows) :
              /\ rows[i] \in Row /\ rows[i].content \in Content
              /\ rows[i].content.stamp \in Nat
              /\ rows[i].prev \in Seq(Content) /\ rows[i].hash \in Seq(Content)
<1>1. Len(rows) \in Nat /\ DOMAIN rows = 1..Len(rows)
      /\ \A i \in 1..Len(rows) : rows[i] \in Row
  BY LenProperties, ElementOfSeq DEF AuditTypeOK
<1>2. ASSUME NEW x \in Row
      PROVE  /\ x.content \in Content /\ x.content.stamp \in Nat
             /\ x.prev \in Seq(Content) /\ x.hash \in Seq(Content)
  BY AuditAssumption DEF Row, Content, Stamps
<1>3. QED BY <1>1, <1>2

LEMMA WriterFacts ==
  ASSUME AuditTypeOK, NEW w \in Writers, writer[w] # Idle
  PROVE  /\ writer[w].pc \in {"waiting", "holding"}
         /\ writer[w].content \in Content /\ writer[w].prev \in Seq(Content)
BY DEF AuditTypeOK, WriterState

\* A hash determines what has been hashed.
LEMMA HashIsInjective ==
  ASSUME NEW s \in Seq(Content), NEW c \in Content, NEW d \in Content, HashOf(s, c) = HashOf(s, d)
  PROVE  c = d
BY AppendProperties DEF HashOf

\* The last hash depends on the hashes and the stamps of the rows.
LEMMA LastHashStays ==
  ASSUME NEW S,
         \A i \in S : rows'[i].hash = rows[i].hash /\ rows'[i].content.stamp = rows[i].content.stamp
  PROVE  LastHash(S)' = LastHash(S)
BY DEF LastHash, Before

LEMMA LastHashSame ==
  ASSUME UNCHANGED rows
  PROVE  LastHash(DOMAIN rows)' = LastHash(DOMAIN rows)
BY DEF LastHash, Before

LEMMA LastHashType ==
  ASSUME AuditTypeOK, NEW S \in SUBSET (DOMAIN rows), NEW h \in LastHash(S)
  PROVE  h \in Seq(Content)
BY RowFacts, EmptySeq DEF LastHash, Genesis

LEMMA AuditInitially == AuditInit => AuditInv
<1> SUFFICES ASSUME AuditInit PROVE AuditInv
  OBVIOUS
<1>1. rows = <<>> /\ DOMAIN rows = {} /\ altered = {} /\ now = 1
      /\ holder = Nobody /\ writer = [w \in Writers |-> Idle]
  BY DEF AuditInit
<1>2. AuditTypeOK
  BY <1>1, AuditAssumption, EmptySeq DEF AuditTypeOK, WriterState, Idle
<1>3. QED
  BY <1>1, <1>2 DEF AuditInv, StampsDiffer, HolderIsCurrent, ChainedToTheLast, HashesTell, Idle

\* Steps that leave the rows alone.
LEMMA RowsUnchanged ==
  ASSUME AuditInv, UNCHANGED <<rows, altered>>, AuditTypeOK',
         \A w \in Writers : writer'[w] # Idle => 
           \/ writer[w] # Idle /\ writer'[w].content = writer[w].content
           \/ /\ writer'[w].content.stamp \notin Drawn
              /\ \A v \in Writers \ {w} : writer'[v] = writer[v],
         HolderIsCurrent'
  PROVE  AuditInv'
<1>1. StampsDiffer'
  <2>1. \A w \in Writers, i \in DOMAIN rows : writer'[w] # Idle =>
          writer'[w].content.stamp # rows[i].content.stamp
    BY DEF AuditInv, StampsDiffer, Drawn
  <2>2. ASSUME NEW v \in Writers, NEW w \in Writers, v # w, writer'[v] # Idle, writer'[w] # Idle
        PROVE  writer'[v].content.stamp # writer'[w].content.stamp
    BY <2>2 DEF AuditInv, StampsDiffer, Drawn
  <2>3. QED BY <2>1, <2>2 DEF AuditInv, StampsDiffer
<1>2. ChainedToTheLast'
  BY DEF AuditInv, ChainedToTheLast, LastHash
<1>3. HashesTell'
  BY DEF AuditInv, HashesTell
<1>4. QED BY <1>1, <1>2, <1>3 DEF AuditInv

LEMMA CommitStep == ASSUME AuditInv, NEW w \in Writers, CommitRow(w) PROVE AuditInv'
<1> PICK n : n = Len(rows)
  OBVIOUS
<1> DEFINE r == [content |-> writer[w].content, prev |-> writer[w].prev,
                hash |-> CurrentHash(w)]
<1>0. AuditTypeOK /\ rows \in Seq(Row)
  BY DEF AuditInv, AuditTypeOK
<1>1. /\ writer[w].pc = "holding" /\ writer[w] # Idle /\ holder = w
      /\ writer[w].content \in Content /\ writer[w].prev \in Seq(Content)
  BY <1>0, WriterFacts DEF CommitRow, Idle, AuditTypeOK
<1>2. r \in Row
  BY <1>1, AppendProperties DEF Row, CurrentHash, HashOf
<1>3. /\ rows' = Append(rows, r) /\ holder' = Nobody
      /\ writer' = [writer EXCEPT ![w] = Idle] /\ UNCHANGED <<now, altered>>
  BY DEF CommitRow
<1>4. /\ n \in Nat /\ DOMAIN rows = 1..n /\ DOMAIN rows' = 1..(n + 1)
      /\ \A i \in 1..n : rows'[i] = rows[i]
      /\ rows'[n + 1] = r /\ rows' \in Seq(Row)
  BY <1>0, <1>2, <1>3, RowFacts, AppendProperties, LenProperties
<1>5. AuditTypeOK'
  <2>1. writer' \in [Writers -> WriterState]
    BY <1>0, <1>3 DEF AuditTypeOK, WriterState
  <2>2. \A v \in Writers : writer'[v].pc # "holding"
    BY <1>0, <1>1, <1>3, AuditAssumption DEF AuditTypeOK, Idle
  <2>3. QED BY <1>0, <1>3, <1>4, <2>1, <2>2 DEF AuditTypeOK
<1>6. \A v \in Writers : writer'[v] = IF v = w THEN Idle ELSE writer[v]
  BY <1>0, <1>3 DEF AuditTypeOK
<1>7. StampsDiffer'
  BY <1>1, <1>4, <1>6 DEF AuditInv, StampsDiffer
<1>8. HolderIsCurrent'
  BY <1>0, <1>1, <1>6, AuditAssumption DEF AuditTypeOK, HolderIsCurrent, Idle
<1>9. ChainedToTheLast'
  <2>1. ASSUME NEW i \in 1..n PROVE rows'[i].prev \in LastHash(1..(i - 1))'
    <3>1. LastHash(1..(i - 1))' = LastHash(1..(i - 1))
      BY <1>4, LastHashStays
    <3>2. QED BY <1>4, <3>1 DEF AuditInv, ChainedToTheLast
  <2>2. rows'[n + 1].prev \in LastHash(1..n)'
    <3>1. LastHash(1..n)' = LastHash(1..n)
      BY <1>4, LastHashStays
    <3>2. QED BY <1>1, <1>4, <3>1 DEF AuditInv, HolderIsCurrent
  <2>3. QED BY <1>4, <2>1, <2>2 DEF ChainedToTheLast
<1>10. HashesTell'
  <2>1. \A i \in 1..n : rows'[i].content.stamp \notin altered' <=>
          rows'[i].hash = HashOf(rows'[i].prev, rows'[i].content)
    BY <1>3, <1>4 DEF AuditInv, HashesTell
  <2>0. altered' \subseteq {rows'[i].content.stamp : i \in DOMAIN rows'}
    BY <1>3, <1>4 DEF AuditInv, HashesTell
  <2>2. rows'[n + 1].hash = HashOf(rows'[n + 1].prev, rows'[n + 1].content)
    BY <1>4 DEF CurrentHash
  <2>3. rows'[n + 1].content.stamp \notin altered'
    BY <1>1, <1>3, <1>4 DEF AuditInv, StampsDiffer, HashesTell
  <2>4. QED BY <1>4, <2>0, <2>1, <2>2, <2>3 DEF HashesTell
<1>11. QED BY <1>5, <1>7, <1>8, <1>9, <1>10 DEF AuditInv


LEMMA AlterStep == ASSUME AuditInv, NEW k \in DOMAIN rows, AlterRow(k) PROVE AuditInv'
<1> DEFINE other(e) == CHOOSE f \in Events : f # e
           old == rows[k].content
           new == [old EXCEPT !.event = other(old.event)]
           row == [rows[k] EXCEPT !.content = new]
<1>0. AuditTypeOK /\ rows \in Seq(Row) /\ altered = {}
  BY DEF AuditInv, AuditTypeOK, AlterRow
<1>1. k \in 1..Len(rows) /\ rows[k] \in Row /\ old \in Content
  BY <1>0, RowFacts
<1>2. other(old.event) \in Events /\ other(old.event) # old.event
  <2>1. old.event \in Events
    BY <1>1 DEF Content
  <2>2. \E f \in Events : f # old.event
    BY <2>1, AuditAssumption
  <2>3. QED BY <2>2
<1>3. new \in Content /\ new # old /\ new.stamp = old.stamp
  BY <1>1, <1>2 DEF Content
<1>4. row \in Row /\ row.content = new /\ row.prev = rows[k].prev /\ row.hash = rows[k].hash
  BY <1>1, <1>3 DEF Row
<1>5. /\ rows' = [rows EXCEPT ![k] = row] /\ altered' = {old.stamp}
      /\ UNCHANGED <<now, holder, writer>>
  BY DEF AlterRow
<1>6. /\ rows' \in Seq(Row) /\ DOMAIN rows' = DOMAIN rows
      /\ rows'[k] = row /\ \A i \in DOMAIN rows \ {k} : rows'[i] = rows[i]
  <2>1. rows' \in Seq(Row) /\ Len(rows') = Len(rows)
    BY <1>0, <1>1, <1>4, <1>5, ExceptSeq
  <2>2. \A i \in 1..Len(rows) : rows'[i] = IF i = k THEN row ELSE rows[i]
    BY <1>0, <1>1, <1>4, <1>5, ExceptSeq
  <2>3. QED BY <1>0, <1>1, <2>1, <2>2, LenProperties, RowFacts
<1>7. \A i \in DOMAIN rows : /\ rows'[i].hash = rows[i].hash /\ rows'[i].prev = rows[i].prev
                             /\ rows'[i].content.stamp = rows[i].content.stamp
  BY <1>3, <1>4, <1>6
<1>8. AuditTypeOK'
  <2>1. old.stamp \in Stamps
    BY <1>1 DEF Content
  <2>2. QED BY <1>0, <1>5, <1>6, <2>1 DEF AuditTypeOK
<1>9. StampsDiffer'
  BY <1>5, <1>6, <1>7 DEF AuditInv, StampsDiffer
<1>10. HolderIsCurrent'
  <2>1. PICK D : D = DOMAIN rows
    OBVIOUS
  <2>2. LastHash(D)' = LastHash(D)
    BY <1>7, <2>1, LastHashStays
  <2>3. QED BY <1>5, <1>6, <2>1, <2>2 DEF AuditInv, HolderIsCurrent
<1>11. ChainedToTheLast'
  <2>1. ASSUME NEW i \in DOMAIN rows PROVE rows'[i].prev \in LastHash(1..(i - 1))'
    <3>1. \A j \in 1..(i - 1) : j \in DOMAIN rows
      BY <1>0, RowFacts
    <3>2. LastHash(1..(i - 1))' = LastHash(1..(i - 1))
      BY <1>7, <3>1, LastHashStays
    <3>3. QED BY <1>7, <3>2 DEF AuditInv, ChainedToTheLast
  <2>2. QED BY <1>6, <2>1 DEF ChainedToTheLast
<1>12. HashesTell'
  <2>1. altered' \subseteq {rows'[i].content.stamp : i \in DOMAIN rows'}
    BY <1>5, <1>6, <1>7
  <2>2. ASSUME NEW i \in DOMAIN rows, i # k
        PROVE  /\ rows'[i].content.stamp \notin altered'
               /\ rows'[i].hash = HashOf(rows'[i].prev, rows'[i].content)
    BY <1>0, <1>5, <1>6, <2>2 DEF AuditInv, HashesTell, StampsDiffer
  <2>3. rows'[k].content.stamp \in altered'
    <3>1. rows'[k].content.stamp = old.stamp
      BY <1>7
    <3>2. QED BY <1>5, <3>1
  <2>4. row.hash # HashOf(row.prev, new)
    <3>1. rows[k].hash = HashOf(rows[k].prev, old)
      BY <1>0 DEF AuditInv, HashesTell
    <3>2. rows[k].prev \in Seq(Content)
      BY <1>0, <1>1, RowFacts
    <3>3. QED BY <1>1, <1>3, <1>4, <3>1, <3>2, HashIsInjective
  <2>5. QED BY <1>4, <1>6, <2>1, <2>2, <2>3, <2>4 DEF HashesTell
<1>13. QED BY <1>8, <1>9, <1>10, <1>11, <1>12 DEF AuditInv

LEMMA AuditInductive == AuditInv /\ [AuditNext]_auditVars => AuditInv'
<1> SUFFICES ASSUME AuditInv, [AuditNext]_auditVars PROVE AuditInv'
  OBVIOUS
<1>0. /\ AuditTypeOK /\ HolderIsCurrent
      /\ \A w \in Writers : writer[w].pc = "holding" => holder = w
  BY DEF AuditInv, AuditTypeOK
<1>1. ASSUME NEW w \in Writers, NEW s \in Stamps, NEW e \in Events, Stamp(w, s, e)
      PROVE  AuditInv'
  <2> DEFINE x == [pc |-> "waiting", content |-> [stamp |-> s, event |-> e], prev |-> Genesis]
  <2>1. /\ writer' = [writer EXCEPT ![w] = x] /\ s \notin Drawn
        /\ UNCHANGED <<now, rows, holder, altered>>
    BY <1>1 DEF Stamp
  <2>2. x \in WriterState
    BY EmptySeq DEF WriterState, Content, Genesis
  <2>3. AuditTypeOK'
    BY <1>0, <2>1, <2>2 DEF AuditTypeOK
  <2>4. \A v \in Writers : writer'[v] = IF v = w THEN x ELSE writer[v]
    BY <1>0, <2>1 DEF AuditTypeOK
  <2>5. HolderIsCurrent'
    BY <1>0, <2>1, <2>4, LastHashSame DEF HolderIsCurrent
  <2>6. QED BY <2>1, <2>3, <2>4, <2>5, RowsUnchanged
<1>2. ASSUME NEW w \in Writers, ReadPrevious(w)
      PROVE  AuditInv'
  <2>1. PICK h \in LastHash(DOMAIN rows) :
          /\ writer' = [writer EXCEPT ![w].pc = "holding", ![w].prev = h]
          /\ holder = Nobody /\ holder' = w /\ writer[w].pc = "waiting"
          /\ UNCHANGED <<now, rows, altered>>
    BY <1>2 DEF ReadPrevious, LockFree
  <2>2. /\ writer[w] # Idle /\ writer[w].content \in Content /\ h \in Seq(Content)
    BY <1>0, <2>1, WriterFacts, LastHashType DEF Idle
  <2>3. \A v \in Writers \ {w} : writer'[v] = writer[v] /\ writer[v].pc # "holding"
    BY <1>0, <2>1, AuditAssumption DEF AuditTypeOK
  <2>4. writer'[w] = [pc |-> "holding", content |-> writer[w].content, prev |-> h]
    BY <1>0, <2>1, <2>2 DEF AuditTypeOK, WriterState
  <2>5. AuditTypeOK'
    <3>1. writer'[w] \in WriterState
      BY <2>2, <2>4 DEF WriterState
    <3>2. writer' \in [Writers -> WriterState]
      BY <1>0, <2>1, <2>3, <3>1 DEF AuditTypeOK
    <3>3. QED BY <1>0, <2>1, <2>3, <3>2 DEF AuditTypeOK
  <2>6. HolderIsCurrent'
    <3>1. UNCHANGED rows /\ h \in LastHash(DOMAIN rows)'
      BY <2>1, LastHashSame
    <3>2. \A v \in Writers : writer'[v].pc = "holding" => writer'[v].prev = h
      BY <2>3, <2>4
    <3>3. QED BY <3>1, <3>2 DEF HolderIsCurrent
  <2>7. \A v \in Writers : writer'[v] # Idle =>
          writer[v] # Idle /\ writer'[v].content = writer[v].content
    BY <2>2, <2>3, <2>4
  <2>8. QED BY <2>1, <2>5, <2>6, <2>7, RowsUnchanged
<1>3. ASSUME NEW w \in Writers, LogFails(w)
      PROVE  AuditInv'
  <2>1. /\ writer' = [writer EXCEPT ![w] = Idle] /\ UNCHANGED <<now, rows, altered>>
        /\ holder' = IF holder = w THEN Nobody ELSE holder
    BY <1>3 DEF LogFails
  <2>2. \A v \in Writers : writer'[v] = IF v = w THEN Idle ELSE writer[v]
    BY <1>0, <2>1 DEF AuditTypeOK
  <2>3. AuditTypeOK'
    <3>1. writer' \in [Writers -> WriterState]
      BY <1>0, <2>1 DEF AuditTypeOK, WriterState
    <3>2. \A v \in Writers : writer'[v].pc = "holding" => holder' = v
      BY <1>0, <2>1, <2>2 DEF Idle
    <3>3. QED BY <1>0, <2>1, <3>1, <3>2 DEF AuditTypeOK
  <2>4. HolderIsCurrent'
    BY <1>0, <2>1, <2>2, LastHashSame DEF HolderIsCurrent, Idle
  <2>5. QED BY <2>1, <2>2, <2>3, <2>4, RowsUnchanged
<1>4. CASE LoseWriters
  <2>1. /\ writer' = [w \in Writers |-> Idle] /\ holder' = Nobody
        /\ UNCHANGED <<now, rows, altered>>
    BY <1>4 DEF LoseWriters
  <2>2. AuditTypeOK'
    BY <1>0, <2>1 DEF AuditTypeOK, WriterState, Idle
  <2>3. HolderIsCurrent'
    BY <2>1 DEF HolderIsCurrent, Idle
  <2>4. QED BY <2>1, <2>2, <2>3, RowsUnchanged
<1>5. CASE Tick
  <2>1. PICK latest \in Drawn : now' = latest + 1
    BY <1>5 DEF Tick
  <2>2. latest \in Stamps
    BY <1>0, <2>1, RowFacts, WriterFacts DEF Drawn, Content
  <2>3. now' \in 1..(MaxStamp + 1) /\ UNCHANGED <<rows, holder, writer, altered>>
    BY <1>5, <2>1, <2>2, AuditAssumption DEF Stamps, Tick
  <2>4. AuditTypeOK'
    BY <1>0, <2>3 DEF AuditTypeOK
  <2>5. HolderIsCurrent'
    BY <1>0, <2>3, LastHashSame DEF HolderIsCurrent
  <2>6. QED BY <2>3, <2>4, <2>5, RowsUnchanged
<1>6. CASE UNCHANGED auditVars
  <2>1. UNCHANGED <<now, rows, holder, writer, altered>>
    BY <1>6 DEF auditVars
  <2>2. AuditTypeOK'
    BY <1>0, <2>1 DEF AuditTypeOK
  <2>3. HolderIsCurrent'
    BY <1>0, <2>1, LastHashSame DEF HolderIsCurrent
  <2>4. QED BY <2>1, <2>2, <2>3, RowsUnchanged
<1>7. QED
  BY <1>1, <1>2, <1>3, <1>4, <1>5, <1>6, CommitStep, AlterStep DEF AuditNext, AuditStep

\* The invariant of AuditChain.
THEOREM AuditInvariant == AuditSpec => []AuditInv
BY AuditInitially, AuditInductive, PTL DEF AuditSpec

\* In a log in the order of its stamps, the rows before a row are those
\* committed before it.
LEMMA OrderedPredecessors ==
  ASSUME AuditTypeOK, CommittedInOrder, NEW i \in DOMAIN rows
  PROVE  Predecessors(i) = 1..(i - 1)
<1>1. \A j \in DOMAIN rows : Before(rows[j].content, rows[i].content) <=> j < i
  BY RowFacts DEF CommittedInOrder, Before
<1>2. QED BY <1>1, RowFacts DEF Predecessors

LEMMA AuditConsequences ==
  ASSUME AuditInv
  PROVE  ChainedToTheLast /\ OrderedLogVerifies /\ AlterationDetected
<1>1. ASSUME CommittedInOrder, altered = {}, NEW i \in Checked PROVE RowVerifies(i)
  <2>1. i \in DOMAIN rows /\ Predecessors(i) = 1..(i - 1)
    BY <1>1, OrderedPredecessors DEF AuditInv, Checked
  <2>2. QED BY <1>1, <2>1 DEF AuditInv, ChainedToTheLast, HashesTell, RowVerifies
<1>2. ASSUME NEW i \in Checked, rows[i].content.stamp \in altered PROVE ~RowVerifies(i)
  BY <1>2 DEF AuditInv, HashesTell, RowVerifies, Checked
<1>3. QED BY <1>1, <1>2 DEF AuditInv, OrderedLogVerifies, AlterationDetected, ChainValid


-----------------------------------------------------------------------------
(* The handlers *)

LEMMA DeskInitially == DeskInit => DeskInv
<1> SUFFICES ASSUME DeskInit PROVE DeskInv
  OBVIOUS
<1>1. KeysInv /\ AuditInv
  BY KeysInitially, AuditInitially DEF DeskInit
<1>2. DeskTypeOK
  BY <1>1, EmptySeq DEF DeskInit, DeskTypeOK, KeysInv, AuditInv
<1>3. EventsTrue
  BY DEF DeskInit, AuditInit, EventsTrue, Genuine
<1>4. QED BY <1>1, <1>2, <1>3 DEF DeskInv

LEMMA ReceiptsStay == ASSUME [KeysNext]_keyVars PROVE receipts \subseteq receipts'
BY DEF KeysNext, keyVars, StartRotation, WriteFile, RestartService, SignReceipt

LEMMA EventTypes ==
  /\ \A v \in Versions : RotationEvents(v) \in Seq(DeskEvents)
  /\ \A r \in Receipts : \A e \in Answered(r) \cup Unanswered(r) : <<e>> \in Seq(DeskEvents)
  /\ << [type |-> "missing_receipt"] >> \in Seq(DeskEvents)
<1>1. ASSUME NEW v \in Versions PROVE RotationEvents(v) \in Seq(DeskEvents)
  <2>1. /\ [type |-> "receipt_signing_key_rotated", version |-> v] \in DeskEvents
        /\ [type |-> "key_rotation", version |-> v] \in DeskEvents
    BY DEF DeskEvents
  <2>2. QED BY <2>1 DEF RotationEvents
<1>2. ASSUME NEW r \in Receipts, NEW e \in Answered(r) \cup Unanswered(r)
      PROVE  <<e>> \in Seq(DeskEvents)
  <2>1. \A reason \in Reasons : Invalid(r, reason) \in DeskEvents
    BY DEF DeskEvents, Invalid
  <2>2. [type |-> "valid_receipt", receipt |-> r] \in DeskEvents
    BY DEF DeskEvents
  <2>3. e \in DeskEvents
    BY <2>1, <2>2 DEF Answered, Unanswered, Reasons
  <2>4. QED BY <2>3
<1>3. << [type |-> "missing_receipt"] >> \in Seq(DeskEvents)
  <2>1. [type |-> "missing_receipt"] \in DeskEvents
    BY DEF DeskEvents
  <2>2. QED BY <2>1
<1>4. QED BY <1>1, <1>2, <1>3

\* What a step adds to the events still to be logged, and what it logs.
LEMMA LoggedNext ==
  ASSUME DeskInv, NEW w \in Writers, NEW s \in Stamps, LogNext(w, s)
  PROVE  /\ Head(toLog[w]) \in DeskEvents /\ IsTrue(Head(toLog[w]))
         /\ toLog' = [toLog EXCEPT ![w] = Tail(toLog[w])]
         /\ Tail(toLog[w]) \in Seq(DeskEvents)
         /\ \A i \in DOMAIN Tail(toLog[w]) : IsTrue(Tail(toLog[w])[i])
<1>1. toLog[w] \in Seq(DeskEvents) /\ toLog[w] # <<>>
  BY DEF DeskInv, DeskTypeOK, LogNext
<1>2. \A i \in DOMAIN toLog[w] : IsTrue(toLog[w][i])
  BY DEF DeskInv, EventsTrue
<1>3. Len(toLog[w]) \in Nat \ {0} /\ DOMAIN toLog[w] = 1..Len(toLog[w])
  BY <1>1, EmptySeq, LenProperties
<1>4. Head(toLog[w]) = toLog[w][1] /\ toLog[w][1] \in DeskEvents
  BY <1>1, <1>3, ElementOfSeq
<1>5. /\ Tail(toLog[w]) \in Seq(DeskEvents)
      /\ \A i \in DOMAIN Tail(toLog[w]) : i + 1 \in DOMAIN toLog[w] /\ Tail(toLog[w])[i] = toLog[w][i + 1]
  BY <1>1, <1>3
<1>6. QED BY <1>2, <1>3, <1>4, <1>5 DEF LogNext

\* The handlers use the log and the keys as these are specified.
LEMMA DeskSteps ==
  ASSUME DeskInv, [DeskNext]_deskVars
  PROVE  [AuditNext]_auditVars /\ [KeysNext]_keyVars
<1>1. ASSUME NEW w \in Writers, NEW s \in Stamps, LogNext(w, s)
      PROVE  AuditNext /\ UNCHANGED keyVars
  BY <1>1, LoggedNext, DeskAssumption DEF LogNext, AuditNext
<1>2. QED
  BY <1>1 DEF DeskNext, deskVars, RequestRotation, VerifyReceipt, VerifyNothing, RotationStep, ServiceCrash,
       BackendCrash, AuditNext, KeysNext

LEMMA ActiveIsPublished == KeysInv => ActiveVersion \in Published
BY Numbering DEF KeysInv

LEMMA ActiveNext == ASSUME DeskInv, [DeskNext]_deskVars PROVE (ActiveVersion \in Published)'
<1>1. KeysInv'
  BY DeskSteps, KeysStep DEF DeskInv
<1>2. QED BY <1>1, ActiveIsPublished, PTL

LEMMA InvalidFields ==
  ASSUME NEW r, NEW reason
  PROVE  /\ Invalid(r, reason).type = "invalid_receipt"
         /\ Invalid(r, reason).reason = reason
         /\ Invalid(r, reason).signed <=> r \in receipts
BY Zenon DEF Invalid

LEMMA VerdictIsTrue ==
  ASSUME KeysInv, NEW r \in receipts \cup {Forged}, NEW e \in Answered(r) \cup Unanswered(r)
  PROVE  IsTrue(e)
<1>1. r = Forged => ~Accepts(r)
  BY DEF Accepts, Verifies, Published, Forged
<1>2. r \in receipts => Accepts(r)
  BY DEF KeysInv, ReceiptsVerify, KeysTypeOK, Accepts, Verifies, Published, Pairs
<1>3. CASE e \in Answered(r)
  <2>1. CASE Accepts(r)
    <3>1. r \in receipts /\ e = [type |-> "valid_receipt", receipt |-> r]
      BY <1>1, <1>3, <2>1 DEF Answered
    <3>2. QED BY <3>1 DEF IsTrue
  <2>2. CASE ~Accepts(r)
    <3>1. r \notin receipts /\ (e = Invalid(r, "Invalid receipt") \/ e = Invalid(r, "failed"))
      BY <1>2, <1>3, <2>2 DEF Answered
    <3>2. QED BY <3>1, InvalidFields DEF IsTrue
  <2>3. QED BY <2>1, <2>2
<1>4. CASE e \in Unanswered(r)
  <2>1. e = Invalid(r, "failed")
    BY <1>4 DEF Unanswered
  <2>2. e.type = "invalid_receipt" /\ e.reason = "failed"
    BY <2>1, InvalidFields
  <2>3. QED BY <2>2 DEF IsTrue
<1>5. QED BY <1>3, <1>4

LEMMA DeskTypeStep == ASSUME DeskInv, [DeskNext]_deskVars PROVE DeskTypeOK'
<1>0. caller \in Writers \cup {Nobody} /\ toLog \in [Writers -> Seq(DeskEvents)]
  BY DEF DeskInv, DeskTypeOK
<1>1. AuditTypeOK' /\ KeysTypeOK'
  BY DeskSteps, AuditInductive, KeysStep DEF DeskInv, AuditInv, KeysInv
<1>2. caller' \in Writers \cup {Nobody}
  BY <1>0 DEF DeskNext, deskVars, RequestRotation, VerifyReceipt, VerifyNothing, LogNext, RotationStep,
       ServiceCrash, BackendCrash
<1>3. toLog' \in [Writers -> Seq(DeskEvents)]
  <2>1. ASSUME NEW w \in Writers, NEW s \in Stamps, LogNext(w, s)
        PROVE  toLog' \in [Writers -> Seq(DeskEvents)]
    BY <1>0, <2>1, LoggedNext
  <2>2. ASSUME NEW w \in Writers, NEW r \in receipts \cup {Forged}, VerifyReceipt(w, r)
        PROVE  toLog' \in [Writers -> Seq(DeskEvents)]
    <3>1. r \in Receipts
      BY <2>2 DEF Receipts, DeskInv, KeysInv, KeysTypeOK
    <3>2. PICK e \in Answered(r) \cup Unanswered(r) : toLog' = [toLog EXCEPT ![w] = <<e>>]
      BY <2>2 DEF VerifyReceipt
    <3>3. QED BY <1>0, <3>1, <3>2, EventTypes
  <2>3. ASSUME RotationStep PROVE toLog' \in [Writers -> Seq(DeskEvents)]
    <3>1. ActiveVersion' \in Versions
      BY ActiveNext DEF Published
    <3>2. RotationEvents(ActiveVersion') \in Seq(DeskEvents)
      BY <3>1, EventTypes
    <3>3. QED BY <1>0, <2>3, <3>2 DEF RotationStep, LogsActive
  <2>4. CASE BackendCrash
    BY <2>4, EmptySeq DEF BackendCrash
  <2>5. ASSUME NEW w \in Writers, VerifyNothing(w) PROVE toLog' \in [Writers -> Seq(DeskEvents)]
    BY <1>0, <2>5, EventTypes DEF VerifyNothing
  <2>6. QED
    BY <1>0, <2>1, <2>2, <2>3, <2>4, <2>5 DEF DeskNext, deskVars, RequestRotation, ServiceCrash, LogsNoError
<1>4. QED BY <1>1, <1>2, <1>3 DEF DeskTypeOK


\* What IsTrue says of the state after a step.
TrueNext(e) ==
  /\ e.type = "key_rotation" => e.version \in Published'
  /\ e.type = "valid_receipt" => e.receipt \in receipts'
  /\ e.type = "invalid_receipt" /\ e.reason = "Invalid receipt" => ~e.signed

\* The events of the handlers, stage by stage: to be logged, being logged, rows.
LEMMA EventsStep == ASSUME DeskInv, [DeskNext]_deskVars PROVE EventsTrue'
<1>0. /\ EventsTrue /\ KeysInv /\ AuditInv /\ AuditTypeOK
      /\ toLog \in [Writers -> Seq(DeskEvents)] /\ writer \in [Writers -> WriterState]
  BY DEF DeskInv, DeskTypeOK, AuditTypeOK
<1>1. \A e : IsTrue(e) => TrueNext(e)
  BY <1>0, DeskSteps, PublishedStays, ReceiptsStay DEF IsTrue, TrueNext
<1>2. \A w \in Writers : \A i \in DOMAIN toLog'[w] : TrueNext(toLog'[w][i])
  <2>1. CASE UNCHANGED toLog
    BY <1>0, <1>1, <2>1 DEF EventsTrue
  <2>2. ASSUME NEW w \in Writers, NEW s \in Stamps, LogNext(w, s),
               NEW v \in Writers, NEW i \in DOMAIN toLog'[v]
        PROVE  TrueNext(toLog'[v][i])
    BY <1>0, <1>1, <2>2, LoggedNext DEF EventsTrue
  <2>3. ASSUME NEW w \in Writers, NEW r \in receipts \cup {Forged}, VerifyReceipt(w, r),
               NEW v \in Writers, NEW i \in DOMAIN toLog'[v]
        PROVE  TrueNext(toLog'[v][i])
    <3>1. PICK e \in Answered(r) \cup Unanswered(r) : toLog' = [toLog EXCEPT ![w] = <<e>>]
      BY <2>3 DEF VerifyReceipt
    <3>2. IsTrue(e)
      BY <1>0, <3>1, VerdictIsTrue
    <3>3. CASE v = w
      <4>1. toLog'[v] = <<e>>
        BY <1>0, <3>1, <3>3
      <4>2. toLog'[v][i] = e
        BY <2>3, <4>1
      <4>3. QED BY <1>1, <3>2, <4>2
    <3>4. CASE v # w
      BY <1>0, <1>1, <2>3, <3>1, <3>4 DEF EventsTrue
    <3>5. QED BY <3>3, <3>4
  <2>4. ASSUME NEW w \in Writers, LogsActive(w),
               NEW v \in Writers, NEW i \in DOMAIN toLog'[v]
        PROVE  TrueNext(toLog'[v][i])
    <3>1. ActiveVersion' \in Published'
      BY ActiveNext
    <3>2. CASE v = w
      <4>1. toLog'[v] = RotationEvents(ActiveVersion')
        BY <1>0, <2>4, <3>2 DEF LogsActive
      <4>2. \/ toLog'[v][i] = [type |-> "receipt_signing_key_rotated", version |-> ActiveVersion']
            \/ toLog'[v][i] = [type |-> "key_rotation", version |-> ActiveVersion']
        BY <2>4, <4>1 DEF RotationEvents
      <4>3. /\ toLog'[v][i].type \in {"receipt_signing_key_rotated", "key_rotation"}
            /\ toLog'[v][i].version = ActiveVersion'
        BY <4>2
      <4>4. QED BY <3>1, <4>3 DEF TrueNext
    <3>3. CASE v # w
      BY <1>0, <1>1, <2>4, <3>3 DEF EventsTrue, LogsActive
    <3>4. QED BY <3>2, <3>3
  <2>5. CASE BackendCrash
    BY <2>5 DEF BackendCrash
  <2>6. CASE RotationStep
    BY <1>0, <2>1, <2>4, <2>6 DEF RotationStep, DeskInv, DeskTypeOK
  <2>7. ASSUME NEW w \in Writers, VerifyNothing(w),
               NEW v \in Writers, NEW i \in DOMAIN toLog'[v]
        PROVE  TrueNext(toLog'[v][i])
    <3>1. CASE v = w
      <4>1. toLog'[v] = <<[type |-> "missing_receipt"]>>
        BY <1>0, <2>7, <3>1 DEF VerifyNothing
      <4>2. toLog'[v][i] = [type |-> "missing_receipt"]
        BY <2>7, <4>1
      <4>3. QED BY <4>2 DEF TrueNext
    <3>2. CASE v # w
      BY <1>0, <1>1, <2>7, <3>2 DEF EventsTrue, VerifyNothing
    <3>3. QED BY <3>1, <3>2
  <2>8. QED
    BY <2>1, <2>2, <2>3, <2>5, <2>6, <2>7 DEF DeskNext, deskVars, RequestRotation, ServiceCrash, LogsNoError
<1>3. \A w \in Writers : writer'[w] # Idle => TrueNext(writer'[w].content.event)
  <2>1. ASSUME NEW w \in Writers, NEW s \in Stamps, LogNext(w, s),
               NEW v \in Writers, writer'[v] # Idle
        PROVE  TrueNext(writer'[v].content.event)
    <3>1. writer' = [writer EXCEPT ![w] = [pc |-> "waiting", prev |-> Genesis,
                       content |-> [stamp |-> s, event |-> Head(toLog[w])]]]
      BY <2>1 DEF LogNext, Stamp
    <3>2. CASE v = w
      BY <1>0, <1>1, <2>1, <3>1, <3>2, LoggedNext
    <3>3. CASE v # w
      BY <1>0, <1>1, <2>1, <3>1, <3>3 DEF EventsTrue
    <3>4. QED BY <3>2, <3>3
  <2>2. ASSUME NEW w \in Writers, ReadPrevious(w), NEW v \in Writers, writer'[v] # Idle
        PROVE  TrueNext(writer'[v].content.event)
    <3>1. PICK h : writer' = [writer EXCEPT ![w].pc = "holding", ![w].prev = h]
      BY <2>2 DEF ReadPrevious
    <3>2. writer[w] # Idle
      BY <2>2 DEF ReadPrevious, Idle
    <3>3. writer[v] # Idle /\ writer'[v].content = writer[v].content
      BY <1>0, <2>2, <3>1, <3>2 DEF WriterState
    <3>4. QED BY <1>0, <1>1, <2>2, <3>3 DEF EventsTrue
  <2>3. CASE UNCHANGED writer
    BY <1>0, <1>1, <2>3 DEF EventsTrue
  <2>4. ASSUME NEW w \in Writers, CommitRow(w) \/ LogFails(w)
        PROVE  \A v \in Writers : writer'[v] # Idle => TrueNext(writer'[v].content.event)
    BY <1>0, <1>1, <2>4 DEF CommitRow, LogFails, EventsTrue, IsTrue
  <2>5. CASE LoseWriters
    BY <2>5 DEF LoseWriters
  <2>6. QED
    BY <2>1, <2>2, <2>3, <2>4, <2>5 DEF DeskNext, deskVars, auditVars, RequestRotation,
       VerifyReceipt, VerifyNothing, RotationStep, ServiceCrash, BackendCrash, AuditStep, Tick, AlterRow
<1>4. \A i \in Genuine' : TrueNext(rows'[i].content.event)
  <2>1. CASE UNCHANGED <<rows, altered>>
    BY <1>0, <1>1, <2>1 DEF EventsTrue, Genuine
  <2>2. ASSUME NEW w \in Writers, CommitRow(w), NEW i \in Genuine'
        PROVE  TrueNext(rows'[i].content.event)
    <3> DEFINE r == [content |-> writer[w].content, prev |-> writer[w].prev,
                     hash |-> CurrentHash(w)]
    <3>1. /\ rows' = Append(rows, r) /\ UNCHANGED altered /\ writer[w] # Idle
      BY <2>2 DEF CommitRow, Idle
    <3>2. r \in Row
      BY <1>0, <3>1, WriterFacts, AppendProperties DEF Row, CurrentHash, HashOf
    <3>3. \/ i \in DOMAIN rows /\ rows'[i] = rows[i]
          \/ rows'[i] = r
      BY <1>0, <2>2, <3>1, <3>2, RowFacts, AppendProperties, LenProperties DEF Genuine, AuditTypeOK
    <3>4. CASE rows'[i] = r
      <4>1. rows'[i].content.event = writer[w].content.event
        BY <3>4
      <4>2. IsTrue(writer[w].content.event)
        BY <1>0, <3>1 DEF EventsTrue
      <4>3. QED BY <1>1, <4>1, <4>2
    <3>5. CASE i \in DOMAIN rows /\ rows'[i] = rows[i]
      BY <1>0, <1>1, <2>2, <3>1, <3>5 DEF EventsTrue, Genuine
    <3>6. QED BY <3>3, <3>4, <3>5
  <2>3. ASSUME NEW k \in DOMAIN rows, AlterRow(k), NEW i \in Genuine'
        PROVE  TrueNext(rows'[i].content.event)
    <3>1. /\ altered = {} /\ altered' = {rows[k].content.stamp}
          /\ rows' = [rows EXCEPT ![k].content.event = CHOOSE e \in Events : e # @]
      BY <2>3 DEF AlterRow
    <3>2. i \in DOMAIN rows /\ rows'[i].content.stamp # rows[k].content.stamp
      BY <2>3, <3>1 DEF Genuine
    <3>3. i # k
      <4>1. rows'[k].content.stamp = rows[k].content.stamp
        BY <1>0, <2>3, <3>1, RowFacts DEF Row, Content
      <4>2. QED BY <3>2, <4>1
    <3>4. rows'[i] = rows[i] /\ i \in Genuine
      BY <3>1, <3>2, <3>3 DEF Genuine
    <3>5. QED BY <1>0, <1>1, <3>4 DEF EventsTrue
  <2>4. QED
    BY <2>1, <2>2, <2>3 DEF DeskNext, deskVars, auditVars, RequestRotation, VerifyReceipt,
       VerifyNothing, RotationStep, ServiceCrash, BackendCrash, LogNext, Stamp, AuditStep, Tick, LoseWriters,
       ReadPrevious, LogFails
<1>5. QED BY <1>2, <1>3, <1>4 DEF EventsTrue, IsTrue, TrueNext


LEMMA DeskInductive == DeskInv /\ [DeskNext]_deskVars => DeskInv'
<1> SUFFICES ASSUME DeskInv, [DeskNext]_deskVars PROVE DeskInv'
  OBVIOUS
<1>1. AuditInv' /\ KeysInv'
  BY DeskSteps, AuditInductive, KeysStep DEF DeskInv
<1>2. QED BY <1>1, DeskTypeStep, EventsStep DEF DeskInv

\* The invariant of SecurityDesk: keys, log and handlers together.
THEOREM DeskInvariant == DeskSpec => []DeskInv
BY DeskInitially, DeskInductive, PTL DEF DeskSpec

\* The handlers use the keys and the log as these are specified: what holds of
\* each of the two alone holds of them together.
THEOREM DeskComposes == DeskSpec => AuditSpec /\ KeysSpec
<1>1. DeskInit => AuditInit /\ KeysInit
  BY DEF DeskInit
<1>2. DeskInv /\ [DeskNext]_deskVars => [AuditNext]_auditVars /\ [KeysNext]_keyVars
  BY DeskSteps
<1>3. QED BY <1>1, <1>2, DeskInvariant, PTL DEF DeskSpec, AuditSpec, KeysSpec

\* Receipts verify for ever, whatever rotations and crashes there are.
THEOREM AllReceiptsVerify == DeskSpec => []ReceiptsVerify
<1>1. DeskInv => ReceiptsVerify
  BY DEF DeskInv, KeysInv
<1>2. QED BY <1>1, DeskInvariant, PTL

\* The service always has a matching pair for the version it signs with.
THEOREM AlwaysCanSign == DeskSpec => []ActiveCanSign
<1>1. DeskInv => ActiveCanSign
  BY KeysSign DEF DeskInv
<1>2. QED BY <1>1, DeskInvariant, PTL

\* However calls of log overlap, a row is chained to the last one before it.
THEOREM RowsAreChained == DeskSpec => []ChainedToTheLast
<1>1. DeskInv => ChainedToTheLast
  BY AuditConsequences DEF DeskInv
<1>2. QED BY <1>1, DeskInvariant, PTL

\* An untouched log that was committed in the order of its timestamps verifies.
THEOREM OrderedLogsVerify == DeskSpec => []OrderedLogVerifies
<1>1. DeskInv => OrderedLogVerifies
  BY AuditConsequences DEF DeskInv
<1>2. QED BY <1>1, DeskInvariant, PTL

\* A row that was altered is noticed by verifyAuditChain, if it reads that far.
THEOREM AlterationsAreDetected == DeskSpec => []AlterationDetected
<1>1. DeskInv => AlterationDetected
  BY AuditConsequences DEF DeskInv
<1>2. QED BY <1>1, DeskInvariant, PTL

\* Every genuine row that names a rotation or a receipt is true of it.
LEMMA EventsOfTheLog == DeskInv => RotationsLoggedAreReal /\ VerdictsAreTrue
<1> SUFFICES ASSUME DeskInv PROVE RotationsLoggedAreReal /\ VerdictsAreTrue
  OBVIOUS
<1>1. \A i \in Genuine : IsTrue(rows[i].content.event)
  BY DEF DeskInv, EventsTrue
<1>2. QED BY <1>1 DEF IsTrue, RotationsLoggedAreReal, VerdictsAreTrue

\* A rotation in the log names a version whose receipts can be verified.
THEOREM RotationsAreReal == DeskSpec => []RotationsLoggedAreReal
BY EventsOfTheLog, DeskInvariant, PTL

\* The log calls valid only what the service has signed, and gives "Invalid
\* receipt" as the reason only for what it has not.
THEOREM VerdictsHold == DeskSpec => []VerdictsAreTrue
BY EventsOfTheLog, DeskInvariant, PTL
=============================================================================
