---------------------------- MODULE SecurityDesk ----------------------------
(***************************************************************************)
(* The handlers that work on receipt keys and write about it into the      *)
(* audit log: rotateReceiptSigningKey and verifyReceipt (src/src/security/ *)
(* securityController.js, src/src/transactions/transactionController.js).  *)
(* AuditChain and ReceiptKeys run side by side; these handlers call both,  *)
(* the keys across mTLS, where an answer may be lost.                      *)
(***************************************************************************)
EXTENDS AuditChain, ReceiptKeys

\* What may be sent to be verified: a receipt the service has signed, or this one,
\* of another key; there may or may not be a key of the version it names.
Forged == [version |-> MaxVersion, pair |-> 0]

Receipts == [version : Versions, pair : Pairs] \cup {Forged}

\* The reason a receipt is logged as not valid.  The customers' handler gives the
\* message of the error, "Invalid receipt" if the service has answered so.  "failed"
\* is what the code does not tell apart: the "verification_failed" of the admin's
\* handler, whatever went wrong, and the errors of a call that got no answer.
Reasons == {"Invalid receipt", "failed"}

\* What is logged.  A receipt that is not valid is not named in the row; whether
\* the service had signed it is known to the model alone.
DeskEvents ==
  [type : {"receipt_signing_key_rotated", "key_rotation"}, version : Versions]
  \cup [type : {"valid_receipt"}, receipt : Receipts]
  \cup [type : {"invalid_receipt"}, reason : Reasons, signed : BOOLEAN]
  \cup {[type |-> "missing_receipt"]}

ASSUME DeskAssumption == DeskEvents \subseteq Events

VARIABLES
  caller,    \* the handler that awaits the answer to a rotation
  toLog      \* the events a handler has still to log, in this order

deskVars == <<auditVars, keyVars, caller, toLog>>

DeskTypeOK ==
  /\ AuditTypeOK /\ KeysTypeOK
  /\ caller \in Writers \cup {Nobody}
  /\ toLog \in [Writers -> Seq(DeskEvents)]

DeskInit ==
  /\ AuditInit /\ KeysInit
  /\ caller = Nobody
  /\ toLog = [w \in Writers |-> <<>>]

Free(w) == toLog[w] = <<>> /\ writer[w] = Idle /\ caller # w

-----------------------------------------------------------------------------
(* rotateReceiptSigningKey *)

RequestRotation(w) ==
  /\ Free(w) /\ caller = Nobody
  /\ StartRotation
  /\ caller' = w
  /\ UNCHANGED <<auditVars, toLog>>

RotationEvents(v) == << [type |-> "receipt_signing_key_rotated", version |-> v],
                        [type |-> "key_rotation", version |-> v] >>

\* The answer carries the version that is active now.
LogsActive(w) == toLog' = [toLog EXCEPT ![w] = RotationEvents(ActiveVersion')]

\* One write of the rotation; after the last one the service answers, and the
\* answer arrives or is lost.
RotationStep ==
  /\ WriteFile
  /\ IF rotation' # NoRotation THEN UNCHANGED <<caller, toLog>>
     ELSE /\ caller' = Nobody
          /\ \/ caller # Nobody /\ LogsActive(caller)
             \/ UNCHANGED toLog
  /\ UNCHANGED auditVars

\* Mutant: the events are logged in a finally block.
LogsInFinally(w) == toLog' = [toLog EXCEPT ![w] = RotationEvents(rotation.version)]

\* The catch block answers with an error and logs nothing.
LogsNoError(w) == UNCHANGED toLog

\* The service dies, perhaps with a rotation under way.
ServiceCrash ==
  /\ RestartService
  /\ IF caller = Nobody THEN UNCHANGED toLog ELSE LogsNoError(caller)
  /\ caller' = Nobody
  /\ UNCHANGED auditVars

-----------------------------------------------------------------------------
(* verifyReceipt *)

\* Mutant: any key pair of the service will do.
AcceptsAnyPair(r) == r.version \in Published /\ (Verifies(r) \/ r.pair = 0)

\* assertReceiptVersion, then jwt.verify.
Accepts(r) == r.version \in Published /\ Verifies(r)

Invalid(r, reason) ==
  [type |-> "invalid_receipt", reason |-> reason, signed |-> r \in receipts]

\* The service answers, and one of the two handlers logs it.
Answered(r) ==
  IF Accepts(r) THEN {[type |-> "valid_receipt", receipt |-> r]}
                ELSE {Invalid(r, "Invalid receipt"), Invalid(r, "failed")}

\* The call fails, whatever the receipt, and both handlers log it as not valid.
Unanswered(r) == {Invalid(r, "failed")}

VerifyReceipt(w, r) ==
  /\ Free(w)
  /\ rotation = NoRotation
  /\ \E e \in Answered(r) \cup Unanswered(r) : toLog' = [toLog EXCEPT ![w] = <<e>>]
  /\ UNCHANGED <<auditVars, keyVars, caller>>

\* A request without a receipt.
VerifyNothing(w) ==
  /\ Free(w)
  /\ toLog' = [toLog EXCEPT ![w] = <<[type |-> "missing_receipt"]>>]
  /\ UNCHANGED <<auditVars, keyVars, caller>>

-----------------------------------------------------------------------------
\* The next event is logged; log is awaited before the one after it.
LogNext(w, s) ==
  /\ toLog[w] # <<>>
  /\ Stamp(w, s, Head(toLog[w]))
  /\ toLog' = [toLog EXCEPT ![w] = Tail(@)]
  /\ UNCHANGED <<keyVars, caller>>

\* The backend dies; a transaction it had open is rolled back.
BackendCrash ==
  /\ \E w \in Writers : ~Free(w)
  /\ toLog' = [w \in Writers |-> <<>>]
  /\ LoseWriters
  /\ caller' = Nobody
  /\ UNCHANGED keyVars

DeskNext ==
  \/ \E w \in Writers :
       \/ RequestRotation(w)
       \/ \E r \in receipts \cup {Forged} : VerifyReceipt(w, r)
       \/ VerifyNothing(w)
       \/ \E s \in Stamps : LogNext(w, s)
  \/ RotationStep \/ ServiceCrash \/ BackendCrash
  \/ SignReceipt /\ UNCHANGED <<auditVars, caller, toLog>>
  \/ AuditStep /\ UNCHANGED <<keyVars, caller, toLog>>

DeskSpec == DeskInit /\ [][DeskNext]_deskVars

-----------------------------------------------------------------------------
(* Properties *)

\* The rows written by the program itself.
Genuine == {i \in DOMAIN rows : rows[i].content.stamp \notin altered}

\* A key rotation in the log names a version that is published, so receipts of it
\* can be verified, whatever crashed or got lost on either side.  It need not be
\* the version the rotation has made, if the service runs with an override.
RotationsLoggedAreReal ==
  \A i \in Genuine : rows[i].content.event.type = "key_rotation" =>
    rows[i].content.event.version \in Published

\* The log calls a receipt valid only if the service has signed it, however many
\* keys have come and gone in between; and where the customers' handler logs
\* "Invalid receipt", the service has not signed it.  Any other reason, as all
\* the admin's handler gives, says nothing of the receipt.
VerdictsAreTrue ==
  \A i \in Genuine :
    LET e == rows[i].content.event
    IN /\ e.type = "valid_receipt" => e.receipt \in receipts
       /\ e.type = "invalid_receipt" /\ e.reason = "Invalid receipt" => ~e.signed
=============================================================================
